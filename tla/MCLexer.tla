------------------------------ MODULE MCLexer ------------------------------
(***************************************************************************)
(* Instances of Lexer for TLC.  The characters are one or two of each      *)
(* class; the keywords are shortened to keep what matters of their         *)
(* spelling: IF begins like INT, ELSE IF contains a blank and ends with    *)
(* the spelling of IF, ELSE is a prefix of ELSE IF, "true" is a prefix of  *)
(* identifiers.  Their order is that of sk_lex_keywords.                   *)
(***************************************************************************)
EXTENDS Lexer

MCSymbolType == [c \in Symbols |-> IF c = Dot THEN "SYM_DOT" ELSE "SYM_SEMICOLON"]

MCKeywords == <<[type |-> "WORD_INT",     word |-> <<"i", "i">>],
                [type |-> "WORD_ELSE_IF", word |-> <<"e", " ", "i", "f">>],
                [type |-> "WORD_IF",      word |-> <<"i", "f">>],
                [type |-> "WORD_ELSE",    word |-> <<"e">>]>>
MCBoolWords == {<<"t", "f">>}

Texts(chars, n) == UNION {[1..k -> chars] : k \in 0..n}
Terminated(texts) == {Append(t, Nul) : t \in texts}

\* Every text of at most four characters over one or two of each class, Nul
\* and 0xFF included.
MixedSources == Terminated(Texts({"i", "f", "x", "1", ".", ";", "nl", " ", "nul", "ff", "#"}, 4))

\* Longer texts of words and blanks: ELSE IF and what it may be taken for.
WordSources == Terminated(Texts({"i", "f", "e", "t", " "}, 6))

MCSources == MixedSources \cup WordSources
=============================================================================
