------------------------------- MODULE Lexer -------------------------------
(***************************************************************************)
(* The scanner of SelkScript, sk_lex_source (compiler/lexer.c), and its    *)
(* sub-scanners.  One action is one iteration of the loop of               *)
(* sk_lex_source: which sub-scanner takes the character at the cursor,     *)
(* what it consumes and the token it appends.                              *)
(*                                                                         *)
(* A character is an element of one of the classes below, its spelling is  *)
(* of no interest.  The text of a token is not copied: a token records the *)
(* stretch from..to of the source it was made from.                        *)
(***************************************************************************)
EXTENDS Integers, Sequences, FiniteSets

CONSTANTS
    Digits,        \* WORD_DIGIT
    Letters,       \* WORD_ALPHA: the letters and '_'
    Blanks,        \* ' ', '\r' and '\t'
    Newline,
    Dot,           \* also one of the symbols
    Nul,           \* the 0 that main() appends to every source
    Stop,          \* the byte 0xFF: as a signed char it is -1, the "no more input" value
    Symbols,       \* the 21 one-character symbols
    SymbolType,    \* [Symbols -> token types]
    Keywords,      \* <<[type |-> ..., word |-> ...], ...>> in the order they are tried
    BoolWords,     \* the spellings of "true" and "false"
    Others,        \* characters no sub-scanner knows
    OverreadChars, \* what may lie behind WORD_DIGIT in memory, see IdentChars
    Sources        \* the inputs: sequences of characters, terminated by Nul

Char == Digits \cup Letters \cup Blanks \cup Symbols \cup Others \cup {Newline, Nul, Stop}
Words == {Keywords[k].word : k \in DOMAIN Keywords} \cup BoolWords

ASSUME ClassAssumption ==
    /\ Dot \in Symbols
    /\ DOMAIN SymbolType = Symbols
    /\ Nul # Stop /\ Newline \notin {Nul, Stop}
    /\ {Newline, Nul, Stop} \cap (Digits \cup Letters \cup Blanks \cup Symbols \cup Others) = {}
    /\ Digits \cap (Letters \cup Blanks \cup Symbols \cup Others) = {}
    /\ Letters \cap (Blanks \cup Symbols \cup Others) = {}
    /\ Blanks \cap (Symbols \cup Others) = {} /\ Symbols \cap Others = {}

ASSUME WordAssumption ==
    /\ \A w \in Words : /\ w \in Seq(Char)
                       /\ Len(w) > 0 /\ w[1] \in Letters
                       /\ \A k \in 1..Len(w) : w[k] \in Letters \cup Blanks

\* The token types of the other scanners, and all of them.
Classified == {"LIT_INT", "LIT_FLOAT", "LIT_BOOL", "IDENT", "EOF"}
Types == Classified \cup {SymbolType[c] : c \in Symbols} \cup {Keywords[k].type : k \in DOMAIN Keywords}

ASSUME TypeAssumption ==
    /\ \A c \in Symbols : SymbolType[c] \notin Classified
    /\ \A k \in DOMAIN Keywords :
           Keywords[k].type \notin Classified /\ \A c \in Symbols : SymbolType[c] # Keywords[k].type

\* A keyword that begins another one is tried behind it: "else" behind "else if".
\* None begins "true" or "false".
ASSUME OrderAssumption ==
    \A k \in DOMAIN Keywords, w \in Words :
        LET word == Keywords[k].word
        IN  Len(w) > Len(word) /\ (\A n \in 1..Len(word) : w[n] = word[n])
                => \E j \in 1..(k - 1) : Keywords[j].word = w

ASSUME OverreadAssumption == OverreadChars \subseteq Char \ {Stop, Newline}

ASSUME SourceAssumption ==
    \A s \in Sources : s \in Seq(Char) /\ Len(s) > 0 /\ s[Len(s)] = Nul

VARIABLES
    source,   \* the character array handed to sk_lex_source
    overread, \* the contents of the bytes behind WORD_DIGIT, fixed by the build
    index,    \* the cursor, from 0
    line,     \* the current line, from 1
    tokens,   \* token_stream
    pc        \* "lex" in the loop, "done" after it, "error" after sk_emit_error

vars == <<source, overread, index, line, tokens, pc>>

(***************************************************************************)
(* The character readers.  Reading at or behind the end gives Stop.        *)
(***************************************************************************)
Peek(i) == IF i < Len(source) THEN source[i + 1] ELSE Stop
NextChar(i) == IF i < Len(source) THEN i + 1 ELSE i

\* Mutated form of Scan: only the first character is compared.
ScanFirst(word, i) == Peek(i) = word[1]

\* sk_scan_keyword: the word stands at i.  What follows it is not looked at.
Scan(word, i) == \A k \in 1..Len(word) : Peek(i + k - 1) = word[k]

\* The characters i .. e-1 are in C and the one at e is not: a loop on find_char.
Run(C, i, e) == e >= i /\ (\A k \in i..(e - 1) : Peek(k) \in C) /\ Peek(e) \notin C

\* Mutated form of IdentChars: the second find_char of the loop is missing.
IdentCharsLettersOnly == Letters

\* The loop of an identifier passes strlen(WORD_ALPHA) as the size of
\* WORD_DIGIT, so find_char also compares with the 0 that terminates the
\* digits and with the bytes that happen to follow it.
IdentChars == Letters \cup Digits \cup {Nul} \cup overread

\* Mutated form of Emit: "--(*index)" is missing.
EmitTooFar(type, last) ==
    /\ tokens' = Append(tokens, [type |-> type, line |-> line, from |-> index, to |-> last])
    /\ index' = NextChar(last + 1)
    /\ UNCHANGED <<source, overread, line, pc>>

\* A sub-scanner leaves the cursor on the last character of its token and the
\* loop steps over it.
Emit(type, last) ==
    /\ tokens' = Append(tokens, [type |-> type, line |-> line, from |-> index, to |-> last])
    /\ index' = NextChar(last)
    /\ UNCHANGED <<source, overread, line, pc>>

Halt(outcome) == pc' = outcome /\ UNCHANGED <<source, overread, index, line, tokens>>

(***************************************************************************)
(* One iteration of the loop.                                              *)
(***************************************************************************)
Lexing == pc = "lex" /\ index < Len(source)

LoopEnd == pc = "lex" /\ index >= Len(source) /\ Halt("done")

\* -1 ends the loop, whether it means the end or is a byte 0xFF of the source.
LexStop == Lexing /\ Peek(index) = Stop /\ Halt("done")

\* Mutated forms of LexEmpty: the line is not counted; a blank is not consumed.
LexEmptyNoLine ==
    /\ Lexing
    /\ Peek(index) \in Blanks \cup {Newline}
    /\ index' = NextChar(index)
    /\ UNCHANGED <<source, overread, line, tokens, pc>>
LexEmptyStays ==
    /\ Lexing
    /\ Peek(index) \in Blanks \cup {Newline}
    /\ line' = IF Peek(index) = Newline THEN line + 1 ELSE line
    /\ index' = IF Peek(index) = Newline THEN NextChar(index) ELSE index
    /\ UNCHANGED <<source, overread, tokens, pc>>

LexEmpty ==
    /\ Lexing
    /\ Peek(index) \in Blanks \cup {Newline}
    /\ line' = IF Peek(index) = Newline THEN line + 1 ELSE line
    /\ index' = NextChar(index)
    /\ UNCHANGED <<source, overread, tokens, pc>>

LexSymbol ==
    /\ Lexing
    /\ Peek(index) \in Symbols
    /\ Emit(SymbolType[Peek(index)], index)

\* Mutated form of IsKeyword: the list is tried from its end.
IsLastKeyword(k) ==
    /\ Scan(Keywords[k].word, index)
    /\ \A j \in (k + 1)..Len(Keywords) : ~Scan(Keywords[j].word, index)

\* The first keyword of the list that stands at the cursor.
IsKeyword(k) == Scan(Keywords[k].word, index) /\ \A j \in 1..(k - 1) : ~Scan(Keywords[j].word, index)
NoKeyword == \A k \in DOMAIN Keywords : ~Scan(Keywords[k].word, index)

LexKeyword ==
    /\ Lexing
    /\ \E k \in DOMAIN Keywords :
           IsKeyword(k) /\ Emit(Keywords[k].type, index + Len(Keywords[k].word) - 1)

LexInt ==
    /\ Lexing
    /\ Peek(index) \in Digits
    /\ \E e \in (index + 1)..Len(source) :
           Run(Digits, index, e) /\ Peek(e) # Dot /\ Emit("LIT_INT", e - 1)

\* After the first point one more character is taken, whatever it is; then
\* digits up to e.
PointedNumber(d, e) == Run(Digits, index, d) /\ Peek(d) = Dot /\ Run(Digits, d + 2, e)

LexFloat ==
    /\ Lexing
    /\ Peek(index) \in Digits
    /\ \E d, e \in (index + 1)..Len(source) :
           PointedNumber(d, e) /\ Peek(e) # Dot /\ Emit("LIT_FLOAT", e - 1)

LexBadPoint ==
    /\ Lexing
    /\ Peek(index) \in Digits
    /\ \E d, e \in (index + 1)..Len(source) : PointedNumber(d, e) /\ Peek(e) = Dot
    /\ Halt("error")

LexBool ==
    /\ Lexing
    /\ NoKeyword
    /\ \E w \in BoolWords : Scan(w, index) /\ Emit("LIT_BOOL", index + Len(w) - 1)

LexIdent ==
    /\ Lexing
    /\ Peek(index) \in Letters
    /\ NoKeyword /\ \A w \in BoolWords : ~Scan(w, index)
    /\ \E e \in (index + 1)..Len(source) : Run(IdentChars, index, e) /\ Emit("IDENT", e - 1)

\* Mutated form of LexEof: the break is missing.
LexEofGoesOn == Lexing /\ Peek(index) = Nul /\ Emit("EOF", index)

\* The Nul becomes the last token and the loop is left before the cursor moves.
LexEof ==
    /\ Lexing
    /\ Peek(index) = Nul
    /\ tokens' = Append(tokens, [type |-> "EOF", line |-> line, from |-> index, to |-> index])
    /\ pc' = "done"
    /\ UNCHANGED <<source, overread, index, line>>

LexInvalid == Lexing /\ Peek(index) \in Others /\ Halt("error")

Init ==
    /\ source \in Sources
    /\ overread \in SUBSET OverreadChars
    /\ index = 0
    /\ line = 1
    /\ tokens = <<>>
    /\ pc = "lex"

Next ==
    \/ LoopEnd \/ LexStop \/ LexEmpty \/ LexSymbol \/ LexKeyword \/ LexInt \/ LexFloat
    \/ LexBadPoint \/ LexBool \/ LexIdent \/ LexEof \/ LexInvalid

\* The scanner is sequential code: it runs until it returns or exits.
Spec == Init /\ [][Next]_vars /\ WF_vars(Next)

(***************************************************************************)
(* Properties.                                                             *)
(***************************************************************************)
Token == [type : Types, line : Nat, from : Nat, to : Nat]

\* The cursor and every token stay inside the source.
TypeOK ==
    /\ source \in Seq(Char)
    /\ overread \subseteq OverreadChars
    /\ index \in 0..Len(source)
    /\ line \in Nat
    /\ tokens \in Seq(Token)
    /\ pc \in {"lex", "done", "error"}

Covers(t, i) == t.from <= i /\ i <= t.to

\* The stretches of two tokens never overlap and stand in the order of the
\* stream: no sub-scanner leaves the cursor before the end of what it took.
NoOverlap ==
    \A n \in 1..Len(tokens) :
        /\ tokens[n].from <= tokens[n].to /\ tokens[n].to < Len(source)
        /\ \A m \in 1..(n - 1) : tokens[m].to < tokens[n].from

\* No character is lost: whatever the cursor has passed is white space or part
\* of a token, so no sub-scanner overshoots its last character.
NothingLost ==
    \A i \in 0..(index - 1) :
        \/ Peek(i) \in Blanks \cup {Newline}
        \/ \E n \in 1..Len(tokens) : Covers(tokens[n], i)

\* The tokens tile the source up to white space: the "--(*index)" at the end of
\* a sub-scanner and the step of the loop behind it agree.
Tiling == NoOverlap /\ NothingLost

\* A token carries the number of its line, off by no more than the newlines
\* that earlier tokens swallowed (the character after a decimal point).
NewlinesBefore(i) == {k \in 0..(i - 1) : Peek(k) = Newline}
Swallowed(i) == {k \in NewlinesBefore(i) : \E n \in 1..Len(tokens) : Covers(tokens[n], k)}
LinesExact ==
    \A n \in 1..Len(tokens) :
        LET i == tokens[n].from
        IN  tokens[n].line = 1 + Cardinality(NewlinesBefore(i)) - Cardinality(Swallowed(i))

\* The parser stops at TOKEN_EOF.  EOF is nowhere but at the end, and a stream
\* without it comes from one of three sources: a byte 0xFF, or an identifier
\* or a "digits '.'" that swallowed the terminating Nul.
LastToken == tokens[Len(tokens)]
EofEndsStream ==
    /\ \A n \in 1..Len(tokens) : tokens[n].type = "EOF" => n = Len(tokens) /\ pc = "done"
    /\ pc = "done" =>
           \/ Peek(index) = Stop /\ index < Len(source)
           \/ Len(tokens) > 0 /\ \/ LastToken.type = "EOF" /\ LastToken.from = index
                                 \/ LastToken.type \in {"IDENT", "LIT_FLOAT"}
                                    /\ LastToken.to = Len(source) - 1

\* A word is cut only by a keyword, "true"/"false" or a number: an identifier
\* never starts in the middle of letters and digits that another identifier
\* began, and a number never starts where an identifier or a number ended.
MaximalMunch ==
    \A n \in 2..Len(tokens) :
        LET t == tokens[n]
            p == tokens[n - 1]
        IN  p.to + 1 = t.from =>
                /\ t.type = "IDENT" => p.type # "IDENT"
                /\ t.type \in {"LIT_INT", "LIT_FLOAT"} => p.type \notin {"IDENT", "LIT_INT", "LIT_FLOAT"}

\* Of the keywords that stand at a place the longest is taken, so "else if" is
\* one token: the order of the comparisons in sk_lex_keywords sees to it.
LongestKeyword ==
    \A n \in 1..Len(tokens) :
        tokens[n].type \in {Keywords[k].type : k \in DOMAIN Keywords}
            => \A w \in Words : Scan(w, tokens[n].from) => Len(w) <= tokens[n].to - tokens[n].from + 1

\* The scan ends for every source: no sub-scanner leaves the cursor behind.
Terminates == <>(pc # "lex")

(***************************************************************************)
(* What the grammar (selkscript.bnf) says of a token.                      *)
(***************************************************************************)

\* bnf:208, <identifier> ::= <alpha> { <alpha> | <digit> | '_' }: an identifier
\* consists of letters, digits and '_'.
IdentIsAlphaDigits ==
    \A n \in 1..Len(tokens) :
        tokens[n].type = "IDENT"
            => \A i \in tokens[n].from..tokens[n].to : Peek(i) \in Letters \cup Digits
=============================================================================
