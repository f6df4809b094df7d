------------------------------ MODULE Program ------------------------------
(***************************************************************************)
(* main() of slkc and the memory it works in: the source is loaded and     *)
(* copied, lexed, parsed, printed, and everything is given back.  The      *)
(* global malloc allocator serves all of it; the tokens lie in the global  *)
(* linear allocator, whose buffer is a block of the former, and the nodes  *)
(* in the parser's own, whose buffer is another.                           *)
(*                                                                         *)
(* What the lexer and the parser decide is left to Lexer and Parser: here  *)
(* a source is any number of texts (numbers and names), other tokens and   *)
(* errors.  Sizes count tokens, nodes or characters.                       *)
(***************************************************************************)
EXTENDS Integers, FiniteSets

CONSTANTS
    Blocks, NULL,           \* as in MallocAllocator
    Capacity,               \* the capacity the token stream is made with, 256
    Header,                 \* the size of skArrayHeader in tokens
    StreamRoom, NodeRoom,   \* the linear buffers, 2 MB and 32 MB
    MaxTokens, MaxText, MaxNodes  \* bounds on the source and its tree

ASSUME NullAssumption == NULL \notin Blocks
ASSUME SizesAssumption == /\ Capacity \in Nat \ {0} /\ Header \in Nat
                          /\ StreamRoom \in Nat /\ NodeRoom \in Nat
ASSUME BoundsAssumption == MaxTokens \in Nat /\ MaxText \in Nat /\ MaxNodes \in Nat

VARIABLES
    pc,         \* how far main() is
    heap, cursor,       \* the malloc allocator, as in MallocAllocator
    own,        \* the blocks that pointers of the program lead to
    text,       \* the string the lexer is collecting
    tokens,     \* the token stream
    tcurr, tblocks,     \* the linear allocator of the tokens
    ncurr, nblocks,     \* the linear allocator of the nodes
    debug, aborted      \* as in LinearAllocator

vars == <<pc, heap, cursor, own, text, tokens, tcurr, tblocks, ncurr, nblocks, debug, aborted>>

HeapPhase == CASE pc = "clear" -> "clear" [] pc = "done" -> "cleared" [] OTHER -> "run"

Malloc == INSTANCE MallocAllocator WITH
    phase <- HeapPhase, MayFreeFirst <- FALSE, MayReuse <- FALSE
Stream == INSTANCE LinearAllocator WITH
    Head <- 0, Size <- StreamRoom, Sizes <- Nat \ {0}, Alignments <- {1},
    Limit <- StreamRoom + 4 * (MaxTokens + Capacity + Header), curr <- tcurr, blocks <- tblocks
Nodes == INSTANCE LinearAllocator WITH
    Head <- 0, Size <- NodeRoom, Sizes <- {1}, Alignments <- {1},
    Limit <- NodeRoom + MaxNodes, curr <- ncurr, blocks <- nblocks

Running == heap.outcome = "ok" /\ ~aborted
Step(from, to) == Running /\ pc = from /\ pc' = to

\* main() takes a block for the owner o.
Take(o) ==
    /\ \E b \in Blocks \ heap.live : /\ heap' = Malloc!MallocOp(heap, b)
                                     /\ own' = [own EXCEPT ![o] = b]
    /\ UNCHANGED cursor

\* Where a call to the malloc allocator is the next thing to happen, malloc may
\* return NULL.
AllocFails ==
    /\ Running
    /\ \/ pc \in {"start", "load", "copy", "lex", "parse init"}
       \/ pc = "text" /\ text.length >= text.capacity
    /\ heap' = [heap EXCEPT !.outcome = "null"]
    /\ UNCHANGED <<pc, cursor, own, text, tokens, tcurr, tblocks, ncurr, nblocks, debug, aborted>>

\* sk_init_memory: the buffer of the global linear allocator.
InitMemory ==
    /\ Step("start", "load")
    /\ Take("buffer")
    /\ UNCHANGED <<text, tokens, tcurr, tblocks, ncurr, nblocks, debug, aborted>>

\* sk_load_file, of a file that is there or is not.
Load ==
    /\ Step("load", "copy")
    /\ Take("source")
    /\ UNCHANGED <<text, tokens, tcurr, tblocks, ncurr, nblocks, debug, aborted>>
NoFile ==
    /\ Step("load", "error")
    /\ UNCHANGED <<heap, cursor, own, text, tokens, tcurr, tblocks, ncurr, nblocks, debug, aborted>>

\* char_arr is made large enough for all the pushes.
Copy ==
    /\ Step("copy", "lex init")
    /\ Take("chars")
    /\ UNCHANGED <<text, tokens, tcurr, tblocks, ncurr, nblocks, debug, aborted>>

(***************************************************************************)
(* sk_lex_source.                                                          *)
(***************************************************************************)
LexInit ==
    /\ Step("lex init", "lex")
    /\ Stream!Cut(Header + Capacity, 1)
    /\ tokens' = [length |-> 0, capacity |-> Capacity]
    /\ UNCHANGED <<heap, cursor, own, text, ncurr, nblocks, debug>>

\* Mutated forms of PushToken: the stream grows one token too late; it moves to
\* an array no larger than the one it leaves, or to one twice as large as it uses.
PushTokenLate ==
    IF tokens.length <= tokens.capacity
    THEN /\ tokens' = [tokens EXCEPT !.length = @ + 1]
         /\ UNCHANGED <<tcurr, tblocks, aborted>>
    ELSE /\ Stream!Cut(Header + 2 * tokens.capacity, 1)
         /\ tokens' = IF aborted' THEN tokens
                      ELSE [length |-> tokens.length + 1, capacity |-> 2 * tokens.capacity]
PushTokenSameRoom ==
    IF tokens.length < tokens.capacity
    THEN /\ tokens' = [tokens EXCEPT !.length = @ + 1]
         /\ UNCHANGED <<tcurr, tblocks, aborted>>
    ELSE /\ Stream!Cut(Header + tokens.capacity, 1)
         /\ tokens' = IF aborted' THEN tokens
                      ELSE [length |-> tokens.length + 1, capacity |-> 2 * tokens.capacity]
PushTokenTwiceTheRoom ==
    IF tokens.length < tokens.capacity
    THEN /\ tokens' = [tokens EXCEPT !.length = @ + 1]
         /\ UNCHANGED <<tcurr, tblocks, aborted>>
    ELSE /\ Stream!Cut(Header + 4 * tokens.capacity, 1)
         /\ tokens' = IF aborted' THEN tokens
                      ELSE [length |-> tokens.length + 1, capacity |-> 2 * tokens.capacity]

\* sk_array_push to the stream.  Freeing the old array does nothing.
PushToken ==
    IF tokens.length < tokens.capacity
    THEN /\ tokens' = [tokens EXCEPT !.length = @ + 1]
         /\ UNCHANGED <<tcurr, tblocks, aborted>>
    ELSE /\ Stream!Cut(Header + 2 * tokens.capacity, 1)
         /\ tokens' = IF aborted' THEN tokens
                      ELSE [length |-> tokens.length + 1, capacity |-> 2 * tokens.capacity]

\* A number or a name begins: an array of one character.
BeginText(kind) ==
    /\ Step("lex", "text")
    /\ tokens.length < MaxTokens
    /\ \E b \in Blocks \ heap.live :
           /\ heap' = Malloc!MallocOp(heap, b)
           /\ text' = [at |-> b, kind |-> kind, length |-> 1, capacity |-> 1]
    /\ UNCHANGED <<cursor, own, tokens, tcurr, tblocks, ncurr, nblocks, debug, aborted>>

\* Mutated form of Grown: the old array is freed before the new one is there.
GrownFreesFirst(b) == Malloc!MallocOp(Malloc!FreeOp(heap, text.at), b)

\* The array of the text moves to b.
Grown(b) == Malloc!FreeOp(Malloc!MallocOp(heap, b), text.at)

\* One more character of it, or the zero behind the last.
MoreText ==
    /\ Step("text", "text")
    /\ text.length < MaxText
    /\ IF text.length < text.capacity
       THEN text' = [text EXCEPT !.length = @ + 1] /\ UNCHANGED heap
       ELSE \E b \in Blocks \ heap.live :
                /\ heap' = Grown(b)
                /\ text' = [text EXCEPT !.at = b, !.length = @ + 1, !.capacity = 2 * @]
    /\ UNCHANGED <<cursor, own, tokens, tcurr, tblocks, ncurr, nblocks, debug, aborted>>

\* Mutated forms of EndText: names are freed too; numbers are not.
EndTextFreesAll ==
    /\ Step("text", "lex")
    /\ text.length >= 2
    /\ heap' = Malloc!FreeOp(heap, text.at)
    /\ own' = IF text.kind = "name" THEN [own EXCEPT !.strings = @ \cup {text.at}] ELSE own
    /\ text' = [text EXCEPT !.at = NULL]
    /\ PushToken
    /\ UNCHANGED <<cursor, ncurr, nblocks, debug>>
EndTextFreesNone ==
    /\ Step("text", "lex")
    /\ text.length >= 2
    /\ own' = IF text.kind = "name" THEN [own EXCEPT !.strings = @ \cup {text.at}] ELSE own
    /\ text' = [text EXCEPT !.at = NULL]
    /\ PushToken
    /\ UNCHANGED <<heap, cursor, ncurr, nblocks, debug>>

\* Behind the zero: a number is converted and its text freed, a name keeps it.
EndText ==
    /\ Step("text", "lex")
    /\ text.length >= 2
    /\ IF text.kind = "name"
       THEN own' = [own EXCEPT !.strings = @ \cup {text.at}] /\ UNCHANGED heap
       ELSE heap' = Malloc!FreeOp(heap, text.at) /\ UNCHANGED own
    /\ text' = [text EXCEPT !.at = NULL]
    /\ PushToken
    /\ UNCHANGED <<cursor, ncurr, nblocks, debug>>

OtherToken ==
    /\ Step("lex", "lex")
    /\ tokens.length < MaxTokens
    /\ PushToken
    /\ UNCHANGED <<heap, cursor, own, text, ncurr, nblocks, debug>>

\* A character no token begins with, or a second point in a number.
LexError ==
    /\ Step("lex", "error") \/ (Step("text", "error") /\ text.kind = "number")
    /\ UNCHANGED <<heap, cursor, own, text, tokens, tcurr, tblocks, ncurr, nblocks, debug, aborted>>

LexEnd ==
    /\ Step("lex", "parse init")
    /\ UNCHANGED <<heap, cursor, own, text, tokens, tcurr, tblocks, ncurr, nblocks, debug, aborted>>

(***************************************************************************)
(* sk_parse_token_stream, print_ast_node and the end of main().            *)
(***************************************************************************)
ParseInit ==
    /\ Step("parse init", "parse")
    /\ Take("tree")
    /\ UNCHANGED <<text, tokens, tcurr, tblocks, ncurr, nblocks, debug, aborted>>

\* sk_make_node; of an empty stream no node is made.
MakeNode ==
    /\ Step("parse", "parse")
    /\ tokens.length > 0 /\ Cardinality(nblocks) < MaxNodes
    /\ Nodes!Cut(1, 1)
    /\ UNCHANGED <<heap, cursor, own, text, tokens, tcurr, tblocks, debug>>

ParseError ==
    /\ Step("parse", "error") /\ tokens.length > 0
    /\ UNCHANGED <<heap, cursor, own, text, tokens, tcurr, tblocks, ncurr, nblocks, debug, aborted>>

ParseEnd ==
    /\ Step("parse", "print")
    /\ UNCHANGED <<heap, cursor, own, text, tokens, tcurr, tblocks, ncurr, nblocks, debug, aborted>>

\* Reads the nodes and the texts of the names.
PrintTree ==
    /\ Step("print", "destroy")
    /\ UNCHANGED <<heap, cursor, own, text, tokens, tcurr, tblocks, ncurr, nblocks, debug, aborted>>

\* sk_parser_destroy, which keeps the buffer
Destroy ==
    /\ Step("destroy", "shutdown")
    /\ Nodes!Clear
    /\ UNCHANGED <<heap, cursor, own, text, tokens, tcurr, tblocks>>

\* Mutated form of Shutdown: only the linear allocator is cleared.
ShutdownLinearOnly ==
    /\ Step("shutdown", "done")
    /\ Stream!Clear
    /\ UNCHANGED <<heap, cursor, own, text, tokens, ncurr, nblocks>>

\* sk_shutdown_memory: the linear allocator, then the loop of malloc_clear.
Shutdown ==
    /\ Step("shutdown", "clear")
    /\ Stream!Clear
    /\ cursor' = heap.root
    /\ UNCHANGED <<heap, own, text, tokens, ncurr, nblocks>>

ClearBlock ==
    /\ Step("clear", "clear")
    /\ Malloc!ClearBlock
    /\ UNCHANGED <<own, text, tokens, tcurr, tblocks, ncurr, nblocks, debug, aborted>>

ClearEnd ==
    /\ Step("clear", "done")
    /\ Malloc!ClearEnd
    /\ UNCHANGED <<own, text, tokens, tcurr, tblocks, ncurr, nblocks, debug, aborted>>

Init ==
    /\ pc = "start"
    /\ Malloc!Init
    /\ own = [buffer |-> NULL, source |-> NULL, chars |-> NULL, tree |-> NULL, strings |-> {}]
    /\ text = [at |-> NULL, kind |-> "name", length |-> 0, capacity |-> 0]
    /\ tokens = [length |-> 0, capacity |-> 0]
    /\ Stream!Init /\ Nodes!Init

Next ==
    \/ InitMemory \/ Load \/ NoFile \/ Copy \/ AllocFails
    \/ LexInit \/ BeginText("number") \/ BeginText("name") \/ MoreText \/ EndText
    \/ OtherToken \/ LexError \/ LexEnd
    \/ ParseInit \/ MakeNode \/ ParseError \/ ParseEnd
    \/ PrintTree \/ Destroy \/ Shutdown \/ ClearBlock \/ ClearEnd

Spec == Init /\ [][Next]_vars

(***************************************************************************)
(* Properties.                                                             *)
(***************************************************************************)
Owned == ({own.buffer, own.source, own.chars, own.tree, text.at} \ {NULL}) \cup own.strings
Working == Running /\ pc \notin {"clear", "done"}

\* The stream fits its array, and a text its own.
TypeOK ==
    /\ pc \in {"start", "load", "copy", "lex init", "lex", "text", "parse init", "parse", "print",
               "destroy", "shutdown", "clear", "done", "error"}
    /\ Malloc!TypeOK /\ Stream!TypeOK /\ Nodes!TypeOK
    /\ own \in [buffer : Malloc!Link, source : Malloc!Link, chars : Malloc!Link, tree : Malloc!Link,
                strings : SUBSET Blocks]
    /\ text \in [at : Malloc!Link, kind : {"name", "number"}, length : Nat, capacity : Nat]
    /\ text.length <= text.capacity
    /\ tokens \in [length : Nat, capacity : Nat]
    /\ tokens.length <= tokens.capacity

\* As long as main() works nothing it points to has been released: not the text
\* of a name, which only the tokens, then the nodes point to, and which the
\* printing reads.
NothingDangles == Working => Owned \subseteq heap.live

\* And it loses nothing: every block is still pointed to when the shutdown
\* begins, the texts of numbers and the outgrown arrays have been given back.
NothingLeaks == Working => heap.live \subseteq Owned

\* main() ends with the two large buffers given back, though malloc_clear finds
\* only the first block and the last one: the parser's is the last that main()
\* asks for.  The source, its copy and the texts of the names are not given back.
ShutdownReleases ==
    Running /\ pc = "done" => heap.live = {own.source, own.chars} \cup own.strings

\* The stream's arrays lie behind one another, all those it has outgrown too, in
\* the buffer or behind its end: a stream takes close to twice its last array.
StreamCost ==
    Working /\ tokens.capacity > 0 =>
        /\ tcurr = 2 * tokens.capacity - Capacity + Header * Cardinality(tblocks)
        /\ Capacity * 2^(Cardinality(tblocks) - 1) = tokens.capacity

\* How far a source can be from filling the buffer follows from its length alone:
\* as long as 4 times the tokens, and the headers, are less than there is room
\* for, the stream lies inside, in a build that never asks (memory.c:117) too.
StreamFits ==
    LET headers == Header * Cardinality(tblocks)
    IN  /\ Working
        /\ Capacity + headers < StreamRoom
        /\ 4 * (tokens.length - 1) - Capacity + headers < StreamRoom
        => \A b \in tblocks : b.to < StreamRoom

\* main() uses the malloc allocator as it must be used, step by step: it never
\* frees the first block, frees no block twice and stops at the clear.
ImplementsMalloc == Malloc!Init /\ [][Malloc!Next]_(Malloc!vars)
=============================================================================
