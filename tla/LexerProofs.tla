---------------------------- MODULE LexerProofs ----------------------------
(***************************************************************************)
(* Proofs about Lexer, for every alphabet, every list of keywords and      *)
(* every set of Nul-terminated sources.                                    *)
(***************************************************************************)
EXTENDS Lexer, FiniteSetTheorems, TLAPS

\* What Init fixes about the source.
NulEnds == Len(source) > 0 /\ source[Len(source)] = Nul

\* In the loop the cursor is behind every token, and none of them is EOF.
Behind ==
    pc = "lex" => \A n \in 1..Len(tokens) : tokens[n].to < index /\ tokens[n].type # "EOF"

\* Only an identifier and a float step over the last character, the Nul.
SwallowedEnd ==
    pc = "lex" /\ index = Len(source)
        => /\ Len(tokens) > 0
           /\ LastToken.type \in {"IDENT", "LIT_FLOAT"} /\ LastToken.to = Len(source) - 1

IInv == TypeOK /\ NulEnds /\ Behind /\ SwallowedEnd /\ Tiling /\ EofEndsStream

\* A character that is read where there is one is a character of the source.
LEMMA PeekInside ==
    ASSUME TypeOK, NEW i \in Nat, Peek(i) # Stop
    PROVE  i < Len(source) /\ Peek(i) = source[i + 1]
  BY DEF Peek, TypeOK

\* A token appended to the stream leaves the others where they are.
LEMMA AppendToken ==
    ASSUME TypeOK, NEW t \in Token, tokens' = Append(tokens, t)
    PROVE  /\ tokens' \in Seq(Token)
           /\ Len(tokens') = Len(tokens) + 1
           /\ tokens'[Len(tokens')] = t
           /\ \A n \in 1..Len(tokens) : tokens'[n] = tokens[n]
  BY DEF TypeOK

\* The step common to all sub-scanners that emit a token: if its last
\* character is in the source, and the terminating Nul only if the token is an
\* identifier or a float, the invariant is kept.
LEMMA EmitKeeps ==
    ASSUME IInv, Lexing, NEW type \in Types, type # "EOF",
           NEW last \in index..(Len(source) - 1),
           last = Len(source) - 1 => type \in {"IDENT", "LIT_FLOAT"},
           Emit(type, last)
    PROVE  IInv'
<1> DEFINE t == [type |-> type, line |-> line, from |-> index, to |-> last]
<1>1. t \in Token
  BY DEF Token, IInv, TypeOK
<1>2. /\ tokens' = Append(tokens, t) /\ index' = last + 1
      /\ UNCHANGED <<source, overread, line, pc>>
  BY DEF Emit, NextChar, IInv, TypeOK
<1>3. /\ tokens' \in Seq(Token)
      /\ Len(tokens') = Len(tokens) + 1
      /\ tokens'[Len(tokens) + 1] = t
      /\ \A n \in 1..Len(tokens) : tokens'[n] = tokens[n]
  BY <1>1, <1>2, AppendToken DEF IInv
<1>4. Len(tokens) \in Nat
  BY DEF IInv, TypeOK
<1>5. TypeOK'
  BY <1>2, <1>3 DEF IInv, TypeOK
<1>6. NulEnds'
  BY <1>2 DEF IInv, NulEnds
<1>7. Behind'
  <2> SUFFICES ASSUME NEW n \in 1..Len(tokens')
               PROVE  tokens'[n].to < index' /\ tokens'[n].type # "EOF"
    BY DEF Behind
  <2>1. CASE n \in 1..Len(tokens)
    <3>1. tokens[n].to < index /\ tokens[n].type # "EOF"
      BY <2>1 DEF IInv, Behind, Lexing
    <3>2. tokens[n].to \in Nat /\ index \in Nat /\ last \in Int /\ index <= last
      <4>1. tokens[n] \in Token
        BY <2>1 DEF IInv, TypeOK
      <4>2. tokens[n].to \in Nat
        BY <4>1 DEF Token
      <4>3. index \in Nat /\ last \in Int /\ index <= last
        BY DEF IInv, TypeOK
      <4> QED
        BY <4>2, <4>3
    <3>3. index' = last + 1 /\ tokens'[n] = tokens[n]
      BY <2>1, <1>2, <1>3
    <3> QED
      BY <3>1, <3>2, <3>3
  <2>2. CASE n = Len(tokens) + 1
    BY <2>2, <1>2, <1>3 DEF IInv, TypeOK
  <2> QED
    BY <2>1, <2>2, <1>3, <1>4
<1>8. SwallowedEnd'
  <2>1. LastToken' = t /\ Len(tokens') > 0
    BY <1>3, <1>4 DEF LastToken
  <2>2. index' = Len(source)' => last = Len(source) - 1
    BY <1>2 DEF IInv, TypeOK
  <2> QED
    BY <2>1, <2>2, <1>2 DEF SwallowedEnd
<1>9. NoOverlap'
  <2> SUFFICES ASSUME NEW n \in 1..Len(tokens')
               PROVE  /\ tokens'[n].from <= tokens'[n].to /\ tokens'[n].to < Len(source)
                      /\ \A m \in 1..(n - 1) : tokens'[m].to < tokens'[n].from
    BY <1>2 DEF NoOverlap
  <2>1. CASE n \in 1..Len(tokens)
    BY <2>1, <1>3, <1>4 DEF IInv, Tiling, NoOverlap
  <2>2. CASE n = Len(tokens) + 1
    BY <2>2, <1>3, <1>4 DEF IInv, TypeOK, Behind, Lexing
  <2> QED
    BY <2>1, <2>2, <1>3, <1>4
<1>10. NothingLost'
  <2> SUFFICES ASSUME NEW i \in 0..last
               PROVE  \/ Peek(i) \in Blanks \cup {Newline}
                      \/ \E n \in 1..Len(tokens') : Covers(tokens'[n], i)
    BY <1>2 DEF NothingLost, Peek, IInv, TypeOK
  <2>1. CASE i < index
    <3>1. \/ Peek(i) \in Blanks \cup {Newline}
          \/ \E n \in 1..Len(tokens) : Covers(tokens[n], i)
      BY <2>1 DEF IInv, TypeOK, Tiling, NothingLost
    <3> QED
      BY <3>1, <1>3, <1>4
  <2>2. CASE i >= index
    <3>1. Covers(tokens'[Len(tokens) + 1], i)
      BY <2>2, <1>3 DEF Covers
    <3> QED
      BY <3>1, <1>3, <1>4
  <2> QED
    BY <2>1, <2>2 DEF IInv, TypeOK
<1>11. EofEndsStream'
  BY <1>2, <1>3, <1>4 DEF EofEndsStream, IInv, Behind, Lexing
<1> QED
  BY <1>5, <1>6, <1>7, <1>8, <1>9, <1>10, <1>11 DEF IInv, Tiling

(***************************************************************************)
(* The iterations of the loop.                                             *)
(***************************************************************************)

\* An iteration that emits nothing and moves the cursor over white space.
LEMMA EmptyKeeps ==
    ASSUME IInv, LexEmpty
    PROVE  IInv'
<1>1. /\ Peek(index) \in Blanks \cup {Newline} /\ Peek(index) = source[index + 1]
      /\ index < Len(source) /\ index' = index + 1 /\ line' \in Nat /\ pc = "lex"
      /\ UNCHANGED <<source, overread, tokens, pc>>
  BY DEF LexEmpty, Lexing, NextChar, Peek, IInv, TypeOK
<1>2. Peek(index) # Nul
  BY <1>1, ClassAssumption
<1>3. index' < Len(source)
  BY <1>1, <1>2 DEF IInv, TypeOK, NulEnds
<1>4. TypeOK' /\ NulEnds' /\ SwallowedEnd'
  BY <1>1, <1>3 DEF IInv, TypeOK, NulEnds, SwallowedEnd
<1>5. Behind'
  <2> SUFFICES ASSUME NEW n \in 1..Len(tokens)
               PROVE  tokens[n].to < index' /\ tokens[n].type # "EOF"
    BY <1>1 DEF Behind
  <2>1. tokens[n] \in Token /\ tokens[n].to < index /\ tokens[n].type # "EOF"
    BY <1>1 DEF IInv, TypeOK, Behind
  <2> QED
    BY <2>1, <1>1 DEF IInv, TypeOK, Token
<1>6. NoOverlap' /\ EofEndsStream'
  BY <1>1 DEF IInv, Tiling, NoOverlap, EofEndsStream, LastToken
<1>7. NothingLost'
  <2> SUFFICES ASSUME NEW i \in 0..index
               PROVE  \/ Peek(i) \in Blanks \cup {Newline}
                      \/ \E n \in 1..Len(tokens) : Covers(tokens[n], i)
    BY <1>1 DEF NothingLost, Peek, IInv, TypeOK
  <2> QED
    BY <1>1 DEF IInv, TypeOK, Tiling, NothingLost
<1> QED
  BY <1>4, <1>5, <1>6, <1>7 DEF IInv, Tiling

\* Leaving the loop without a token: at the end, at a byte 0xFF, or with an error.
LEMMA HaltKeeps ==
    ASSUME IInv, LoopEnd \/ LexStop \/ LexBadPoint \/ LexInvalid
    PROVE  IInv'
<1>1. /\ UNCHANGED <<source, overread, index, line, tokens>>
      /\ pc = "lex" /\ pc' \in {"done", "error"}
  BY DEF LoopEnd, LexStop, LexBadPoint, LexInvalid, Lexing, Halt
<1>2. TypeOK' /\ NulEnds' /\ Behind' /\ SwallowedEnd' /\ Tiling'
  BY <1>1 DEF IInv, TypeOK, NulEnds, Behind, SwallowedEnd, Tiling, NoOverlap, NothingLost, Peek
<1>3. pc' = "done" => \/ Peek(index) = Stop /\ index < Len(source)
                      \/ index = Len(source)
  BY DEF LoopEnd, LexStop, LexBadPoint, LexInvalid, Lexing, Halt, IInv, TypeOK
<1>4. EofEndsStream'
  BY <1>1, <1>3 DEF IInv, EofEndsStream, Behind, SwallowedEnd, LastToken, Peek
<1> QED
  BY <1>2, <1>4 DEF IInv

\* The Nul at the cursor becomes the last token.
LEMMA EofKeeps ==
    ASSUME IInv, LexEof
    PROVE  IInv'
<1> DEFINE t == [type |-> "EOF", line |-> line, from |-> index, to |-> index]
<1>1. t \in Token
  <2>1. line \in Nat /\ index \in Nat
    BY DEF IInv, TypeOK
  <2>2. "EOF" \in Types
    BY DEF Types, Classified
  <2> QED
    BY <2>1, <2>2 DEF Token
<1>2. /\ tokens' = Append(tokens, t) /\ pc = "lex" /\ pc' = "done" /\ index < Len(source)
      /\ UNCHANGED <<source, overread, index, line>>
  BY DEF LexEof, Lexing
<1>3. /\ tokens' \in Seq(Token)
      /\ Len(tokens') = Len(tokens) + 1
      /\ tokens'[Len(tokens) + 1] = t
      /\ \A n \in 1..Len(tokens) : tokens'[n] = tokens[n]
  BY <1>1, <1>2, AppendToken DEF IInv
<1>4. Len(tokens) \in Nat
  BY DEF IInv, TypeOK
<1>5. TypeOK' /\ NulEnds' /\ Behind' /\ SwallowedEnd'
  BY <1>2, <1>3 DEF IInv, TypeOK, NulEnds, Behind, SwallowedEnd
<1>6. NoOverlap'
  <2> SUFFICES ASSUME NEW n \in 1..Len(tokens')
               PROVE  /\ tokens'[n].from <= tokens'[n].to /\ tokens'[n].to < Len(source)
                      /\ \A m \in 1..(n - 1) : tokens'[m].to < tokens'[n].from
    BY <1>2 DEF NoOverlap
  <2>1. CASE n \in 1..Len(tokens)
    BY <2>1, <1>3, <1>4 DEF IInv, Tiling, NoOverlap
  <2>2. CASE n = Len(tokens) + 1
    BY <2>2, <1>2, <1>3, <1>4 DEF IInv, TypeOK, Behind
  <2> QED
    BY <2>1, <2>2, <1>3, <1>4
<1>7. NothingLost'
  BY <1>2, <1>3, <1>4 DEF NothingLost, Peek, IInv, TypeOK, Tiling, Covers
<1>8. EofEndsStream'
  <2>1. \A n \in 1..Len(tokens') : tokens'[n].type = "EOF" => n = Len(tokens') /\ pc' = "done"
    BY <1>2, <1>3, <1>4 DEF IInv, Behind
  <2>2. LastToken'.type = "EOF" /\ LastToken'.from = index' /\ Len(tokens') > 0
    BY <1>2, <1>3, <1>4 DEF LastToken
  <2> QED
    BY <2>1, <2>2 DEF EofEndsStream
<1> QED
  BY <1>5, <1>6, <1>7, <1>8 DEF IInv, Tiling

\* A word that stands at the cursor ends before the terminating Nul.
LEMMA WordInside ==
    ASSUME IInv, NEW w \in Words, Scan(w, index)
    PROVE  index + Len(w) - 1 \in index..(Len(source) - 2)
<1> DEFINE last == index + Len(w) - 1
<1>1. /\ Len(w) \in Nat /\ Len(w) > 0
      /\ w[Len(w)] \in Letters \cup Blanks
  BY WordAssumption
<1>2. w[Len(w)] \notin {Stop, Nul}
  BY <1>1, ClassAssumption
<1>3. Peek(last) = w[Len(w)] /\ last \in Nat
  BY <1>1 DEF Scan, IInv, TypeOK
<1>4. last < Len(source) /\ Peek(last) = source[last + 1]
  BY <1>2, <1>3, PeekInside DEF IInv
<1>5. last + 1 # Len(source)
  BY <1>2, <1>3, <1>4 DEF IInv, NulEnds
<1> QED
  BY <1>1, <1>3, <1>4, <1>5 DEF IInv, TypeOK

\* A run of characters none of which is the Nul ends before the last character.
LEMMA RunInside ==
    ASSUME IInv, NEW C, Nul \notin C, NEW s \in Nat, NEW e \in (s + 1)..Len(source), Run(C, s, e)
    PROVE  e - 1 < Len(source) - 1
<1>1. Peek(e - 1) \in C /\ e - 1 \in Nat /\ e - 1 < Len(source)
  BY DEF Run, IInv, TypeOK
<1>2. Peek(e - 1) = source[e]
  BY <1>1 DEF Peek, IInv, TypeOK
<1> QED
  BY <1>1, <1>2 DEF IInv, NulEnds, TypeOK

\* Every scanner that emits a token ends it in the source.
LEMMA ScannersKeep ==
    ASSUME IInv, LexSymbol \/ LexKeyword \/ LexInt \/ LexFloat \/ LexBool \/ LexIdent
    PROVE  IInv'
<1> {"LIT_INT", "LIT_FLOAT", "LIT_BOOL", "IDENT"} \subseteq Types
  BY DEF Types, Classified
<1> Lexing /\ index \in Nat /\ Len(source) \in Nat
  BY DEF LexSymbol, LexKeyword, LexInt, LexFloat, LexBool, LexIdent, IInv, TypeOK
<1>1. CASE LexSymbol
  <2>1. Peek(index) \in Symbols /\ Emit(SymbolType[Peek(index)], index)
    BY <1>1 DEF LexSymbol
  <2>2. Peek(index) # Nul /\ Peek(index) = source[index + 1]
    BY <2>1, ClassAssumption DEF Lexing, Peek
  <2>3. index \in index..(Len(source) - 1) /\ index # Len(source) - 1
    BY <2>2 DEF Lexing, IInv, NulEnds
  <2>4. SymbolType[Peek(index)] \in Types /\ SymbolType[Peek(index)] # "EOF"
    BY <2>1, TypeAssumption DEF Types, Classified
  <2> QED
    BY <2>1, <2>3, <2>4, EmitKeeps
<1>2. CASE LexKeyword
  <2>1. PICK k \in DOMAIN Keywords :
            IsKeyword(k) /\ Emit(Keywords[k].type, index + Len(Keywords[k].word) - 1)
    BY <1>2 DEF LexKeyword
  <2>2. Keywords[k].word \in Words /\ Keywords[k].type \in Types /\ Keywords[k].type # "EOF"
    BY TypeAssumption DEF Words, Types, Classified
  <2>3. PICK last \in index..(Len(source) - 2) : last = index + Len(Keywords[k].word) - 1
    BY <2>1, <2>2, WordInside DEF IsKeyword
  <2> QED
    BY <2>1, <2>2, <2>3, EmitKeeps
<1>3. CASE LexInt
  <2>1. PICK e \in (index + 1)..Len(source) : Run(Digits, index, e) /\ Emit("LIT_INT", e - 1)
    BY <1>3 DEF LexInt
  <2>2. e - 1 < Len(source) - 1
    BY <2>1, RunInside, ClassAssumption
  <2>3. PICK last \in index..(Len(source) - 2) : last = e - 1
    BY <2>2
  <2> QED
    BY <2>1, <2>3, EmitKeeps
<1>4. CASE LexFloat
  <2>1. PICK e \in (index + 1)..Len(source) : Emit("LIT_FLOAT", e - 1)
    BY <1>4 DEF LexFloat
  <2>2. PICK last \in index..(Len(source) - 1) : last = e - 1
    OBVIOUS
  <2> QED
    BY <2>1, <2>2, EmitKeeps
<1>5. CASE LexBool
  <2>1. PICK w \in BoolWords : Scan(w, index) /\ Emit("LIT_BOOL", index + Len(w) - 1)
    BY <1>5 DEF LexBool
  <2>2. PICK last \in index..(Len(source) - 2) : last = index + Len(w) - 1
    BY <2>1, WordInside, WordAssumption DEF Words
  <2> QED
    BY <2>1, <2>2, EmitKeeps
<1>6. CASE LexIdent
  <2>1. PICK e \in (index + 1)..Len(source) : Emit("IDENT", e - 1)
    BY <1>6 DEF LexIdent
  <2>2. PICK last \in index..(Len(source) - 1) : last = e - 1
    OBVIOUS
  <2> QED
    BY <2>1, <2>2, EmitKeeps
<1> QED
  BY <1>1, <1>2, <1>3, <1>4, <1>5, <1>6

(***************************************************************************)
(* The theorems.                                                           *)
(***************************************************************************)

\* The invariant holds when sk_lex_source starts.
LEMMA InitIInv == Init => IInv
  BY SourceAssumption DEF Init, IInv, TypeOK, NulEnds, Behind, SwallowedEnd, Tiling, NoOverlap,
     NothingLost, EofEndsStream

\* Every iteration of the loop keeps the invariant.
LEMMA NextIInv == IInv /\ [Next]_vars => IInv'
<1> SUFFICES ASSUME IInv, [Next]_vars PROVE IInv'
  OBVIOUS
<1>1. CASE UNCHANGED vars
  BY <1>1 DEF vars, IInv, TypeOK, NulEnds, Behind, SwallowedEnd, Tiling, NoOverlap, NothingLost,
     EofEndsStream, LastToken, Peek
<1>2. CASE LexEmpty
  BY <1>2, EmptyKeeps
<1>3. CASE LoopEnd \/ LexStop \/ LexBadPoint \/ LexInvalid
  BY <1>3, HaltKeeps
<1>4. CASE LexEof
  BY <1>4, EofKeeps
<1>5. CASE LexSymbol \/ LexKeyword \/ LexInt \/ LexFloat \/ LexBool \/ LexIdent
  BY <1>5, ScannersKeep
<1> QED
  BY <1>1, <1>2, <1>3, <1>4, <1>5 DEF Next

\* IInv is an invariant of the scanner.
THEOREM Invariance == Spec => []IInv
  BY InitIInv, NextIInv, PTL DEF Spec

\* The cursor and all tokens stay inside the source, whatever it contains.
THEOREM TypeCorrect == Spec => []TypeOK
<1>1. IInv => TypeOK
  BY DEF IInv
<1> QED
  BY <1>1, Invariance, PTL

\* For every source the tokens tile it up to white space: the hand-over of the
\* cursor between the sub-scanners and the loop of sk_lex_source is exact.
THEOREM TilingHolds == Spec => []Tiling
<1>1. IInv => Tiling
  BY DEF IInv
<1> QED
  BY <1>1, Invariance, PTL

\* TOKEN_EOF is only ever the last token, and it is missing only behind a byte
\* 0xFF or when an identifier or a float swallowed the terminating Nul.
THEOREM EofEndsStreamHolds == Spec => []EofEndsStream
<1>1. IInv => EofEndsStream
  BY DEF IInv
<1> QED
  BY <1>1, Invariance, PTL

(***************************************************************************)
(* Which characters a token takes, and the line it carries.                *)
(***************************************************************************)

KeywordTypes == {Keywords[k].type : k \in DOMAIN Keywords}

\* The sub-scanner that makes a token of this type from the cursor to last has
\* begun at a character of its kind and stopped in front of one it cannot take.
Scanned(type, last) ==
    /\ type = "IDENT" => Peek(index) \in Letters /\ Peek(last + 1) \notin Letters \cup Digits
    /\ type \in {"LIT_INT", "LIT_FLOAT"} => Peek(index) \in Digits /\ Peek(last + 1) \notin Digits
    /\ type \in KeywordTypes =>
           \E k \in DOMAIN Keywords : IsKeyword(k) /\ last - index + 1 = Len(Keywords[k].word)

\* An iteration appends one token, taken from the cursor to last.
Appends(type, last) ==
    /\ Lexing /\ Scanned(type, last)
    /\ tokens' = Append(tokens, [type |-> type, line |-> line, from |-> index, to |-> last])
    /\ UNCHANGED <<source, line>>

\* What is at the cursor when the last token ends right in front of it.
Munched ==
    pc = "lex" /\ Len(tokens) > 0 /\ LastToken.to + 1 = index =>
        /\ LastToken.type = "IDENT" => Peek(index) \notin Letters \cup Digits
        /\ LastToken.type \in {"LIT_INT", "LIT_FLOAT"} => Peek(index) \notin Digits

\* The newlines that the loop of sk_lex_source has met in front of i.
Counted(i) == NewlinesBefore(i) \ Swallowed(i)

\* line counts them.
LineCounted == pc = "lex" => line = 1 + Cardinality(Counted(index))

TokenInv == MaximalMunch /\ Munched /\ LongestKeyword /\ LinesExact /\ LineCounted

(***************************************************************************)
(* What the iterations append.                                             *)
(***************************************************************************)

\* A word at the cursor that is longer than the keyword found there would have
\* been found before it.
LEMMA KeywordIsLongest ==
    ASSUME NEW k \in DOMAIN Keywords, IsKeyword(k), NEW w \in Words, Scan(w, index)
    PROVE  Len(w) <= Len(Keywords[k].word)
<1> DEFINE word == Keywords[k].word
<1>1. word \in Words /\ Len(word) \in Nat /\ Len(w) \in Nat
  BY WordAssumption DEF Words
<1>2. ASSUME Len(w) > Len(word) PROVE FALSE
  <2>1. \A n \in 1..Len(word) : w[n] = word[n]
    <3> SUFFICES ASSUME NEW n \in 1..Len(word) PROVE w[n] = word[n]
      OBVIOUS
    <3>1. n \in 1..Len(w)
      BY <1>1, <1>2
    <3> QED
      BY <3>1 DEF IsKeyword, Scan
  <2>2. PICK j \in 1..(k - 1) : Keywords[j].word = w
    BY <1>2, <2>1, OrderAssumption
  <2> QED
    BY <2>2 DEF IsKeyword
<1> QED
  BY <1>1, <1>2

\* The sub-scanners append what they have scanned.
LEMMA ScannersAppend ==
    ASSUME IInv, LexSymbol \/ LexKeyword \/ LexInt \/ LexFloat \/ LexBool \/ LexIdent
    PROVE  \E type \in Types, last \in index..(Len(source) - 1) :
               Appends(type, last) /\ index' = last + 1 /\ pc' = pc
<1> {"LIT_INT", "LIT_FLOAT", "LIT_BOOL", "IDENT"} \subseteq Types \ KeywordTypes
  BY TypeAssumption DEF Types, Classified, KeywordTypes
<1>1. Lexing /\ index \in Nat /\ Len(source) \in Nat /\ index < Len(source)
  BY DEF LexSymbol, LexKeyword, LexInt, LexFloat, LexBool, LexIdent, Lexing, IInv, TypeOK
<1>2. ASSUME NEW type \in Types, NEW last \in index..(Len(source) - 1), Emit(type, last),
             Scanned(type, last)
      PROVE  Appends(type, last) /\ index' = last + 1 /\ pc' = pc
  BY <1>1, <1>2 DEF Emit, Appends, NextChar
<1>3. CASE LexSymbol
  <2> DEFINE type == SymbolType[Peek(index)]
  <2>1. Peek(index) \in Symbols /\ Emit(type, index)
    BY <1>3 DEF LexSymbol
  <2>2. type \in Types /\ type \notin KeywordTypes /\ type \notin Classified
    BY <2>1, TypeAssumption DEF Types, KeywordTypes
  <2>3. Scanned(type, index)
    BY <2>2 DEF Scanned, Classified
  <2>4. index \in index..(Len(source) - 1)
    BY <1>1
  <2> HIDE DEF type
  <2> QED
    BY <1>2, <2>1, <2>2, <2>3, <2>4
<1>4. CASE LexKeyword
  <2>1. PICK k \in DOMAIN Keywords :
            IsKeyword(k) /\ Emit(Keywords[k].type, index + Len(Keywords[k].word) - 1)
    BY <1>4 DEF LexKeyword
  <2>2. Keywords[k].word \in Words /\ Keywords[k].type \in Types /\ Keywords[k].type \notin Classified
    BY TypeAssumption DEF Words, Types
  <2>3. PICK last \in index..(Len(source) - 2) : last = index + Len(Keywords[k].word) - 1
    BY <2>1, <2>2, WordInside DEF IsKeyword
  <2>4. last - index + 1 = Len(Keywords[k].word) /\ last \in index..(Len(source) - 1)
    BY <1>1, <2>2, <2>3, WordAssumption
  <2>5. Scanned(Keywords[k].type, last)
    BY <2>1, <2>2, <2>4 DEF Scanned, Classified
  <2> QED
    BY <1>2, <2>1, <2>2, <2>3, <2>4, <2>5
<1>5. CASE LexInt
  <2>1. PICK e \in (index + 1)..Len(source) : Run(Digits, index, e) /\ Emit("LIT_INT", e - 1)
    BY <1>5 DEF LexInt
  <2>2. PICK last \in index..(Len(source) - 1) : last = e - 1 /\ last + 1 = e
    BY <1>1
  <2>3. Scanned("LIT_INT", last)
    BY <1>5, <2>1, <2>2 DEF Scanned, Run, LexInt
  <2> QED
    BY <1>2, <2>1, <2>2, <2>3
<1>6. CASE LexFloat
  <2>1. PICK d \in (index + 1)..Len(source), e \in (index + 1)..Len(source) :
            PointedNumber(d, e) /\ Emit("LIT_FLOAT", e - 1)
    BY <1>6 DEF LexFloat
  <2>2. PICK last \in index..(Len(source) - 1) : last = e - 1 /\ last + 1 = e
    BY <1>1
  <2>3. Scanned("LIT_FLOAT", last)
    BY <1>6, <2>1, <2>2 DEF Scanned, Run, PointedNumber, LexFloat
  <2> QED
    BY <1>2, <2>1, <2>2, <2>3
<1>7. CASE LexBool
  <2>1. PICK w \in BoolWords : Scan(w, index) /\ Emit("LIT_BOOL", index + Len(w) - 1)
    BY <1>7 DEF LexBool
  <2>2. PICK last \in index..(Len(source) - 2) : last = index + Len(w) - 1
    BY <2>1, WordInside, WordAssumption DEF Words
  <2>3. Scanned("LIT_BOOL", last) /\ last \in index..(Len(source) - 1)
    BY <1>1 DEF Scanned
  <2> QED
    BY <1>2, <2>1, <2>2, <2>3
<1>8. CASE LexIdent
  <2>1. PICK e \in (index + 1)..Len(source) : Run(IdentChars, index, e) /\ Emit("IDENT", e - 1)
    BY <1>8 DEF LexIdent
  <2>2. PICK last \in index..(Len(source) - 1) : last = e - 1 /\ last + 1 = e
    BY <1>1
  <2>3. Scanned("IDENT", last)
    BY <1>8, <2>1, <2>2 DEF Scanned, Run, IdentChars, LexIdent
  <2> QED
    BY <1>2, <2>1, <2>2, <2>3
<1> QED
  BY <1>3, <1>4, <1>5, <1>6, <1>7, <1>8

\* The end of the source becomes a token of its own.
LEMMA EofAppends ==
    ASSUME IInv, LexEof
    PROVE  "EOF" \in Types /\ index \in index..(Len(source) - 1) /\ Appends("EOF", index) /\ pc' = "done"
<1>1. "EOF" \in Types /\ "EOF" \notin KeywordTypes
  BY TypeAssumption DEF Types, Classified, KeywordTypes
<1>2. index \in index..(Len(source) - 1)
  BY DEF LexEof, Lexing, IInv, TypeOK
<1> QED
  BY <1>1, <1>2 DEF LexEof, Appends, Scanned

\* The appended token and those in front of it.
Appended(type, last) ==
    /\ Len(tokens') = Len(tokens) + 1 /\ Len(tokens) \in Nat
    /\ tokens'[Len(tokens) + 1] = [type |-> type, line |-> line, from |-> index, to |-> last]
    /\ \A n \in 1..Len(tokens) :
           /\ tokens'[n] = tokens[n] /\ tokens[n] \in Token
           /\ tokens[n].to < index /\ tokens[n].from < index
    /\ source' = source
    /\ index \in Nat /\ last \in Nat /\ index <= last /\ pc = "lex"

\* An iteration that appends a token does just that, behind all the others.
LEMMA AppendedIs ==
    ASSUME IInv, NEW type \in Types, NEW last \in index..(Len(source) - 1), Appends(type, last)
    PROVE  Appended(type, last)
<1> DEFINE t == [type |-> type, line |-> line, from |-> index, to |-> last]
<1>1. index \in Nat /\ last \in Nat /\ index <= last /\ line \in Nat /\ pc = "lex"
  BY DEF IInv, TypeOK, Appends, Lexing
<1>2. t \in Token
  BY <1>1 DEF Token
<1>3. /\ Len(tokens') = Len(tokens) + 1 /\ tokens'[Len(tokens')] = t
      /\ \A n \in 1..Len(tokens) : tokens'[n] = tokens[n]
  BY <1>2, AppendToken DEF IInv, Appends
<1>4. ASSUME NEW n \in 1..Len(tokens)
      PROVE  tokens[n] \in Token /\ tokens[n].to < index /\ tokens[n].from < index
  <2>1. tokens[n] \in Token
    BY DEF IInv, TypeOK
  <2>2. tokens[n].to < index
    BY <1>1 DEF IInv, Behind
  <2>3. tokens[n].from <= tokens[n].to
    BY DEF IInv, Tiling, NoOverlap
  <2> QED
    BY <1>1, <2>1, <2>2, <2>3 DEF Token
<1>5. Len(tokens) \in Nat
  BY DEF IInv, TypeOK
<1>6. source' = source
  BY DEF Appends
<1> QED
  BY <1>1, <1>3, <1>4, <1>5, <1>6 DEF Appended

(***************************************************************************)
(* An appended token keeps each part of the invariant.                     *)
(***************************************************************************)

\* The new token does not go on with what the one in front of it had begun.
LEMMA AppendMunches ==
    ASSUME IInv, MaximalMunch, Munched,
           NEW type \in Types, NEW last \in index..(Len(source) - 1), Appends(type, last)
    PROVE  MaximalMunch'
<1>0. Appended(type, last)
  BY AppendedIs
<1> SUFFICES ASSUME NEW n \in 2..Len(tokens'), tokens'[n - 1].to + 1 = tokens'[n].from
             PROVE  /\ tokens'[n].type = "IDENT" => tokens'[n - 1].type # "IDENT"
                    /\ tokens'[n].type \in {"LIT_INT", "LIT_FLOAT"}
                           => tokens'[n - 1].type \notin {"IDENT", "LIT_INT", "LIT_FLOAT"}
  BY DEF MaximalMunch
<1>1. CASE n \in 2..Len(tokens)
  <2>1. tokens'[n] = tokens[n] /\ tokens'[n - 1] = tokens[n - 1]
    BY <1>1, <1>0 DEF Appended
  <2> QED
    BY <1>1, <2>1 DEF MaximalMunch
<1>2. CASE n = Len(tokens) + 1
  <2>1. /\ tokens'[n].type = type /\ tokens'[n].from = index /\ tokens'[n - 1] = LastToken
        /\ Len(tokens) > 0 /\ pc = "lex"
    BY <1>2, <1>0 DEF LastToken, Appended
  <2>2. /\ LastToken.type = "IDENT" => Peek(index) \notin Letters \cup Digits
        /\ LastToken.type \in {"LIT_INT", "LIT_FLOAT"} => Peek(index) \notin Digits
    BY <2>1 DEF Munched
  <2> QED
    BY <2>1, <2>2 DEF Appends, Scanned
<1> QED
  BY <1>1, <1>2, <1>0 DEF Appended

\* The new token is the longest word at its place if it is a keyword.
LEMMA AppendIsLongest ==
    ASSUME IInv, LongestKeyword,
           NEW type \in Types, NEW last \in index..(Len(source) - 1), Appends(type, last)
    PROVE  LongestKeyword'
<1>0. Appended(type, last)
  BY AppendedIs
<1> SUFFICES ASSUME NEW n \in 1..Len(tokens'), tokens'[n].type \in KeywordTypes,
                    NEW w \in Words, Scan(w, tokens[n].from)'
             PROVE  Len(w) <= tokens'[n].to - tokens'[n].from + 1
  BY DEF LongestKeyword, KeywordTypes
<1>1. Scan(w, tokens'[n].from)
  BY <1>0 DEF Scan, Peek, Appended
<1>2. CASE n \in 1..Len(tokens)
  <2>1. tokens'[n] = tokens[n]
    BY <1>2, <1>0 DEF Appended
  <2> QED
    BY <1>1, <1>2, <2>1 DEF LongestKeyword, KeywordTypes
<1>3. CASE n = Len(tokens) + 1
  <2>1. tokens'[n].type = type /\ tokens'[n].from = index /\ tokens'[n].to = last
    BY <1>3, <1>0 DEF Appended
  <2>2. PICK k \in DOMAIN Keywords : IsKeyword(k) /\ last - index + 1 = Len(Keywords[k].word)
    BY <2>1 DEF Appends, Scanned
  <2> QED
    BY <1>1, <2>1, <2>2, KeywordIsLongest
<1> QED
  BY <1>2, <1>3, <1>0 DEF Appended

\* The newlines in front of i are the counted ones and the swallowed ones.
LEMMA CountedIs ==
    ASSUME NEW i \in Nat
    PROVE  /\ IsFiniteSet(Counted(i)) /\ Cardinality(Counted(i)) \in Nat
           /\ Cardinality(NewlinesBefore(i)) \in Nat /\ Cardinality(Swallowed(i)) \in Nat
           /\ Cardinality(Counted(i)) = Cardinality(NewlinesBefore(i)) - Cardinality(Swallowed(i))
<1>1. IsFiniteSet(0..(i - 1))
  BY FS_Interval
<1>2. IsFiniteSet(NewlinesBefore(i))
  BY <1>1, FS_Subset DEF NewlinesBefore
<1>3. NewlinesBefore(i) \cap Swallowed(i) = Swallowed(i)
  BY DEF Swallowed
<1>4. /\ IsFiniteSet(Counted(i))
      /\ Cardinality(Counted(i)) = Cardinality(NewlinesBefore(i)) - Cardinality(Swallowed(i))
  BY <1>2, <1>3, FS_Difference DEF Counted
<1>5. IsFiniteSet(Swallowed(i))
  BY <1>2, FS_Subset DEF Swallowed
<1> QED
  BY <1>2, <1>4, <1>5, FS_CardinalityType

\* The new token takes no newline in front of the cursor.
LEMMA AppendLeavesLines ==
    ASSUME IInv, NEW type \in Types, NEW last \in index..(Len(source) - 1), Appends(type, last),
           NEW i \in 0..index
    PROVE  NewlinesBefore(i)' = NewlinesBefore(i) /\ Swallowed(i)' = Swallowed(i)
<1>0. Appended(type, last)
  BY AppendedIs
<1>1. NewlinesBefore(i)' = NewlinesBefore(i)
  BY <1>0 DEF NewlinesBefore, Peek, Appended
<1>2. ASSUME NEW k \in NewlinesBefore(i)
      PROVE  (\E n \in 1..Len(tokens') : Covers(tokens'[n], k)) <=> (\E n \in 1..Len(tokens) : Covers(tokens[n], k))
  <2>1. k \in Int /\ k < index
    BY <1>0 DEF NewlinesBefore, Appended
  <2>2. ~Covers(tokens'[Len(tokens) + 1], k)
    BY <2>1, <1>0 DEF Covers, Appended
  <2> QED
    BY <2>2, <1>0 DEF Appended
<1> QED
  BY <1>1, <1>2 DEF Swallowed

\* The new token carries the line of the cursor, the others the one they had.
LEMMA AppendHasLine ==
    ASSUME IInv, LinesExact, LineCounted,
           NEW type \in Types, NEW last \in index..(Len(source) - 1), Appends(type, last)
    PROVE  LinesExact'
<1>0. Appended(type, last)
  BY AppendedIs
<1> SUFFICES ASSUME NEW n \in 1..Len(tokens'), NEW i, i = tokens'[n].from
             PROVE  tokens'[n].line = 1 + Cardinality(NewlinesBefore(i)') - Cardinality(Swallowed(i)')
  BY DEF LinesExact, NewlinesBefore, Swallowed
<1>1. CASE n \in 1..Len(tokens)
  <2>1. tokens'[n] = tokens[n] /\ i = tokens[n].from /\ i \in 0..index
    BY <1>1, <1>0 DEF Token, Appended
  <2>2. NewlinesBefore(i)' = NewlinesBefore(i) /\ Swallowed(i)' = Swallowed(i)
    BY <2>1, AppendLeavesLines
  <2> QED
    BY <1>1, <2>1, <2>2 DEF LinesExact
<1>2. CASE n = Len(tokens) + 1
  <2>1. i = index /\ tokens'[n].line = line /\ i \in 0..index /\ i \in Nat /\ pc = "lex"
    BY <1>2, <1>0 DEF Appended
  <2>2. NewlinesBefore(i)' = NewlinesBefore(i) /\ Swallowed(i)' = Swallowed(i)
    BY <2>1, AppendLeavesLines
  <2>3. line = 1 + (Cardinality(NewlinesBefore(i)) - Cardinality(Swallowed(i)))
    BY <2>1, CountedIs DEF LineCounted
  <2>4. Cardinality(NewlinesBefore(i)) \in Nat /\ Cardinality(Swallowed(i)) \in Nat
    BY <2>1, CountedIs
  <2> QED
    BY <2>1, <2>2, <2>3, <2>4
<1> QED
  BY <1>1, <1>2, <1>0 DEF Appended

\* A token ends where its kind cannot go on.
LEMMA AppendStops ==
    ASSUME IInv, NEW type \in Types, NEW last \in index..(Len(source) - 1), Appends(type, last),
           index' = last + 1
    PROVE  Munched'
<1>0. Appended(type, last)
  BY AppendedIs
<1>1. LastToken'.type = type
  BY <1>0 DEF Appended, LastToken
<1>2. /\ type = "IDENT" => Peek(last + 1) \notin Letters \cup Digits
      /\ type \in {"LIT_INT", "LIT_FLOAT"} => Peek(last + 1) \notin Digits
  BY DEF Appends, Scanned
<1>3. Peek(index)' = Peek(last + 1)
  BY <1>0 DEF Appended, Peek
<1> QED
  BY <1>1, <1>2, <1>3 DEF Munched

\* A token takes the newlines in it away from the loop.
LEMMA AppendCounts ==
    ASSUME IInv, LineCounted, NEW type \in Types, NEW last \in index..(Len(source) - 1),
           Appends(type, last), index' = last + 1
    PROVE  LineCounted'
<1>0. Appended(type, last)
  BY AppendedIs
<1>1. index \in 0..index
  BY <1>0 DEF Appended
<1> DEFINE taken(k) == \E n \in 1..Len(tokens) : Covers(tokens[n], k)
<1>2. ASSUME NEW k \in 0..last
      PROVE  (\E n \in 1..Len(tokens') : Covers(tokens'[n], k)) <=> k >= index \/ taken(k)
  <2>1. Covers(tokens'[Len(tokens) + 1], k) <=> k >= index
    BY <1>0 DEF Covers, Appended
  <2> QED
    BY <2>1, <1>0 DEF Appended
<1>3. Counted(index)' = {k \in 0..last : Peek(k) = Newline /\ ~(k >= index \/ taken(k))}
  BY <1>0, <1>2 DEF Counted, NewlinesBefore, Swallowed, Peek, Appended
<1>4. Counted(index) = {k \in 0..(index - 1) : Peek(k) = Newline /\ ~taken(k)}
  BY DEF Counted, NewlinesBefore, Swallowed
<1>5. Counted(index)' = Counted(index)
  BY <1>0, <1>3, <1>4 DEF Appended
<1>6. line' = line /\ pc = "lex"
  BY <1>0 DEF Appended, Appends
<1> QED
  BY <1>5, <1>6 DEF LineCounted

\* A blank or a newline at the cursor: the line goes up with the newline.
LEMMA EmptyKeepsTokens ==
    ASSUME IInv, TokenInv, LexEmpty
    PROVE  TokenInv'
<1>1. /\ index \in Nat /\ index < Len(source) /\ index' = index + 1 /\ pc = "lex"
      /\ line' = IF Peek(index) = Newline THEN line + 1 ELSE line
      /\ UNCHANGED <<source, tokens, pc>>
  BY DEF LexEmpty, Lexing, NextChar, IInv, TypeOK
<1>2. \A n \in 1..Len(tokens) : tokens[n] \in Token /\ tokens[n].to < index
  BY <1>1 DEF IInv, TypeOK, Behind
<1>3. MaximalMunch' /\ LongestKeyword' /\ LinesExact'
  BY <1>1 DEF TokenInv, MaximalMunch, LongestKeyword, LinesExact, NewlinesBefore, Swallowed, Scan, Peek
<1>4. Munched'
  <2>1. Len(tokens) > 0 => LastToken.to + 1 # index'
    <3> SUFFICES ASSUME Len(tokens) > 0 PROVE LastToken.to + 1 # index'
      OBVIOUS
    <3>1. Len(tokens) \in 1..Len(tokens)
      BY DEF IInv, TypeOK
    <3>2. LastToken \in Token /\ LastToken.to < index
      BY <1>2, <3>1 DEF LastToken
    <3> QED
      BY <1>1, <3>2 DEF Token
  <2> QED
    BY <1>1, <2>1 DEF Munched, LastToken
<1>5. LineCounted'
  <2>1. Counted(index)' = IF Peek(index) = Newline THEN Counted(index) \cup {index} ELSE Counted(index)
    <3>1. \A n \in 1..Len(tokens) : ~Covers(tokens[n], index)
      BY <1>1, <1>2 DEF Covers, Token
    <3> QED
      BY <1>1, <3>1 DEF Counted, NewlinesBefore, Swallowed, Peek
  <2>2. index \notin Counted(index)
    BY <1>1 DEF Counted, NewlinesBefore
  <2>3. IsFiniteSet(Counted(index)) /\ Cardinality(Counted(index)) \in Nat
    BY <1>1, CountedIs
  <2>4. Cardinality(Counted(index) \cup {index}) = Cardinality(Counted(index)) + 1
    BY <2>2, <2>3, FS_AddElement
  <2>5. line = 1 + Cardinality(Counted(index))
    BY <1>1 DEF TokenInv, LineCounted
  <2> QED
    BY <1>1, <2>1, <2>3, <2>4, <2>5 DEF LineCounted
<1> QED
  BY <1>3, <1>4, <1>5 DEF TokenInv

(***************************************************************************)
(* The theorems.                                                           *)
(***************************************************************************)

\* Nothing has been scanned at the beginning.
LEMMA InitTokenInv == Init => TokenInv
<1> SUFFICES ASSUME Init PROVE TokenInv
  OBVIOUS
<1>1. tokens = <<>> /\ index = 0 /\ line = 1 /\ Len(tokens) = 0
  BY DEF Init
<1>2. Counted(index) = {}
  BY <1>1 DEF Counted, NewlinesBefore
<1>3. LineCounted
  BY <1>1, <1>2, FS_EmptySet DEF LineCounted
<1> QED
  BY <1>1, <1>3 DEF TokenInv, MaximalMunch, Munched, LongestKeyword, LinesExact

\* Every iteration keeps what is said of the tokens.
LEMMA NextTokenInv == IInv /\ TokenInv /\ [Next]_vars => TokenInv'
<1> SUFFICES ASSUME IInv, TokenInv, [Next]_vars PROVE TokenInv'
  OBVIOUS
<1>1. CASE LexSymbol \/ LexKeyword \/ LexInt \/ LexFloat \/ LexBool \/ LexIdent
  <2>1. PICK type \in Types, last \in index..(Len(source) - 1) :
            Appends(type, last) /\ index' = last + 1 /\ pc' = pc
    BY <1>1, ScannersAppend
  <2>2. MaximalMunch' /\ LongestKeyword' /\ LinesExact'
    BY <2>1, AppendMunches, AppendIsLongest, AppendHasLine DEF TokenInv
  <2>3. Munched' /\ LineCounted'
    BY <2>1, AppendStops, AppendCounts DEF TokenInv
  <2> QED
    BY <2>2, <2>3 DEF TokenInv
<1>2. CASE LexEof
  <2>1. PICK type \in Types, last \in index..(Len(source) - 1) : Appends(type, last) /\ pc' = "done"
    BY <1>2, EofAppends
  <2>2. MaximalMunch' /\ LongestKeyword' /\ LinesExact'
    BY <2>1, AppendMunches, AppendIsLongest, AppendHasLine DEF TokenInv
  <2> QED
    BY <2>1, <2>2 DEF TokenInv, Munched, LineCounted
<1>3. CASE LexEmpty
  BY <1>3, EmptyKeepsTokens
<1>4. CASE LoopEnd \/ LexStop \/ LexBadPoint \/ LexInvalid \/ UNCHANGED vars
  <2>1. UNCHANGED <<source, index, line, tokens>> /\ (pc' = "lex" => pc = "lex")
    BY <1>4 DEF LoopEnd, LexStop, LexBadPoint, LexInvalid, Halt, vars
  <2>2. MaximalMunch' /\ LongestKeyword' /\ LinesExact'
    BY <2>1 DEF TokenInv, MaximalMunch, LongestKeyword, LinesExact, NewlinesBefore, Swallowed, Scan, Peek
  <2>3. Munched' /\ LineCounted'
    BY <2>1 DEF TokenInv, Munched, LineCounted, LastToken, Counted, NewlinesBefore, Swallowed, Peek
  <2> QED
    BY <2>2, <2>3 DEF TokenInv
<1> QED
  BY <1>1, <1>2, <1>3, <1>4 DEF Next

\* What is said of the tokens holds at any time.
LEMMA TokenInvariance == Spec => []TokenInv
  BY InitIInv, NextIInv, InitTokenInv, NextTokenInv, PTL DEF Spec

\* For every source, no identifier and no number begins in the middle of what
\* another one had begun.
THEOREM MaximalMunchHolds == Spec => []MaximalMunch
<1>1. TokenInv => MaximalMunch
  BY DEF TokenInv
<1> QED
  BY <1>1, TokenInvariance, PTL

\* For every source, and every list in which a keyword that begins another one
\* stands behind it, a keyword is the longest word at its place.
THEOREM LongestKeywordHolds == Spec => []LongestKeyword
<1>1. TokenInv => LongestKeyword
  BY DEF TokenInv
<1> QED
  BY <1>1, TokenInvariance, PTL

\* For every source, a token carries its line, less the newlines that earlier
\* tokens took.
THEOREM LinesExactHolds == Spec => []LinesExact
<1>1. TokenInv => LinesExact
  BY DEF TokenInv
<1> QED
  BY <1>1, TokenInvariance, PTL
=============================================================================
