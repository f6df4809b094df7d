# A verification project for SelkScript

SelkScript is a small compiler front end in C (`src/slkc`): it reads one source
file, turns it into tokens, the tokens into a syntax tree, and prints the tree.
It brings its own memory allocators, a growable array and an intrusive list, and
has the beginnings of a semantic analysis. The language is described by a
grammar, `src/selkscript.bnf`. There are no tests.

The program is sequential and runs once: `main` (`src/slkc/src/main.c`) calls
`sk_init_memory`, loads `data/test.slk`, copies it with a terminating 0 into an
array, calls `sk_lex_source`, `sk_parse_token_stream`, prints, and shuts the
allocators down. So there is no concurrency, no message and no timeout to
model. What is hard is of another kind: components that trust each other with
unchecked conventions (who steps the cursor, who consumes the bracket, that the
stream ends with `TOKEN_EOF`, that a header is still allocated), and long legal
sequences of calls that break them.

## 1. Inventory

| Component | Source | State | Operations | Talks to |
|---|---|---|---|---|
| Lexer | `compiler/lexer.c` | `index`, `line`, token array | `sk_lex_source`: blanks, symbols, keywords, numbers, booleans, identifiers, end | array, both global allocators; its result is the parser's input |
| Parser | `compiler/parser.c` | `index`, the tree, `ast_allocator` | `sk_parse_token_stream` and about forty mutually recursive functions | token array (reads of it are mostly unchecked), linear allocator for nodes |
| Malloc allocator | `memory.c:29-106` | header list, `root_header`, `curr_header` | malloc, realloc, free, clear | C heap |
| Linear allocator | `memory.c:108-154` | head, curr, tail of a buffer | malloc, realloc, free (empty), clear | its buffer is a block of the malloc allocator |
| Memory setup | `memory.c:168-199` | two static allocators, two `inited` flags | init, shutdown | both allocators |
| Dynamic array | `array.h`, `array.c` | header in front of the items: lengths and capacities | push, alloc, pop, clear, free | any allocator; grows by allocating anew |
| Intrusive list | `list.c`, `list.h` | prev, next and head of each node | insert, remove, clear, count | used by semant only |
| Semantic analysis | `compiler/semant.c` | list of scopes, each with an array | push, pop, hash | list, array, malloc allocator; called by nothing |
| Driver | `main.c`, `load_file.c` | pointers to the source, its copy, the stream and the tree | load, copy, lex, parse, print, shut down | all of the above |
| Name tables, types, build files | `token.*`, `ast_node.h`, `*.vcxproj`, ... | none | none | |

What makes each of them correct, and what is hard about it:

* **Lexer.** Every character is part of exactly one token or is white space;
  the line of a token is right; `TOKEN_EOF` is the last token and nothing else
  is; the longest keyword and the longest identifier win; the scan ends. Hard:
  every sub-scanner leaves the cursor *on* its last character, the loop steps
  over it, and the sub-scanners read ahead differently.
* **Parser.** It accepts what the grammar derives and builds the tree the
  grammar gives it; brackets match; `break`, `continue` and `return` stand where
  they may; nothing consumed is lost from the tree; it stays inside the token
  array. Hard: bounds are tested in some functions and not in others, and a
  mistake of one function is made up for, or multiplied, by another.
* **Malloc allocator.** No header of a released block is read or written;
  clear ends, and releases what was allocated. Hard: it depends on the whole
  history of calls, as links may outlive the blocks they name.
* **Linear allocator, setup.** Blocks are disjoint and inside the buffer.
  Hard: the bound is only tested in debug builds.
* **Array.** It is a sequence; a push never writes behind the capacity. Hard:
  growth copies cells and lengths by hand in two macros, and `sk_array_alloc`
  doubles once whatever was asked.
* **Driver, set-up.** What `main` points to is allocated as long as it works, and
  nothing is lost; the shutdown gives back the two large buffers. Hard: it follows
  from the order of the allocations and from who frees which text, in four files.
* **List.** The links of a list form a circle and agree on its head; every call
  does what its name says. Hard: each insertion is also a removal from wherever
  the node was, `head_node` is a copy, and `sk_list_clear` has its branches
  exchanged.
* **Semantic analysis.** A scope is taken out of the list before it is released.
  Hard: `sk_list_init` sets no links, and `sk_pop_scope` does the two in the other
  order, with a pointer of the wrong type.

`PROJECT.json` lists the components with their status and the hazards of the
code with the properties aimed at them.

## 2. Plan

| Step | Module | Question | Status |
|---|---|---|---|
| 1 | `Lexer`, `MCLexer`, `LexerProofs` | tokens tile the source, the stream ends | done |
| 2 | `Parser`, `ParserGrammar`, `MCParser` | the tree is that of the grammar, reads stay inside | done |
| 3 | `MallocAllocator` and proofs | no released header is touched, clear ends | done |
| 4 | `LinearAllocator` and proofs | blocks disjoint, inside the buffer in debug builds; what release builds do | done |
| 5 | `Array` implementing `ItemSequence`, and proofs | content and length through growth | done |
| 6 | `List` implementing `NodeLists`, and proofs | circular links, one head, clear, the sequences they make | done |
| 7 | `Program`, `MCProgram` | main() over both allocators: what dangles, what leaks, what the shutdown gives back, what a stream costs | done |
| 8 | `Scope` | the scope stack in the words of released and allocated scopes | done |
| 9 | `ProgramProofs` | main() keeps the discipline of the malloc allocator, for every source | done |
| 10 | `ParserProofs` | how far the parser reads, how deep it nests, and what stands where in its tree, for every stream | done |
| 11 | `ParserProofs` | that brackets match and operands are kept, for every stream whose calls are closed | done |

`Program` composes `MallocAllocator` with two instances of `LinearAllocator`;
`Scope` composes two instances of `MallocAllocator` with the operations of `list.c`,
which it needs on words of memory and so does not take from `List`. The decisions of
the lexer and the parser are not composed with the memory they work in: what they
decide does not depend on where their data lies, so `Program` leaves their
decisions open, and `Lexer` and `Parser` leave the places open. Their own
interface is the stream, described by `EofEndsStream` of `Lexer` and assumed by
`StreamAssumption` of `Parser`.

## 3. The modules

### Lexer

State: `source`, `index`, `line` and `tokens` are the variables of
`sk_lex_source`; `pc` says whether the loop runs, was left, or
`sk_emit_error` ended the program. A character is a member of a *class*
(digit, letter, blank, symbol, ...), since the code never asks more of it; the
symbols, keywords and their order are constants. The text of a token is not
copied: a token records the stretch `from..to` it was made from, from which its
value follows.

One action is one iteration of the loop, one per way it can go: `LexStop`
(the byte 0xFF reads as -1), `LexEmpty`, `LexSymbol`, `LexKeyword`, `LexInt`,
`LexFloat`, `LexBadPoint` (second decimal point), `LexBool`, `LexIdent`,
`LexEof`, `LexInvalid`, and `LoopEnd` when `index` has reached the length. The
order of the sub-scanners appears as guards: `LexBool` and `LexIdent` require
`NoKeyword`; symbols, digits and letters exclude one another by class. `Emit`
is the end of a sub-scanner, the push and the step of line 329 together.

`IdentChars` holds the one piece of undefined behaviour: `find_char` is given
the length of `WORD_ALPHA` for `WORD_DIGIT`, so an identifier may continue with
the 0 that ends the digits and with whatever the build put behind it.
`overread` is a nondeterministic set of such characters, fixed at the start as
the build fixes it.

### Parser

State: `toks` is the token array, `junk` what the cells behind it contain,
`wrap` what the cell in front of it contains, `out` the outcome. The only
action is `ParseTokenStream`: the parser does not interleave with anything. Each
`sk_parse_xxx` is an operator `Xxx(P, i)` from the index it starts at to a result:
where the index stands, the node returned (`NULL` included), or that
`sk_emit_error` ended the program. `Then`, `Expect`, `Under` and `Needed` are
the forms the C functions are made of: call and continue, test a token and step
over it, wrap, and refuse `NULL`. The seven binary levels share `Binary`, and
differ in their table of operators and in the level below.

The functions of `parser.c` call each other in circles. `P` holds what the calls
return that close a circle: `P.Or[j]` is `sk_parse_expr_or` at `j` one level of
recursion further down. `Calls(P)` makes the calls of one level from those of the
level below, `Level` builds them up from `NoCalls`, where the C stack is full, and
`Program` is the call with `Depth` levels to go. A level stands for the C frames
from one such call to the next, at most one of each function. So the depth of the
stack is part of the model, and `StackSuffices` says what is needed of it.

A token is its type, under the name of its sign where it has one; `LCURLY`,
`RCURLY`, `SEMICOLON` and `COMMA` have the names of `token.h`, as the provers do not
take these signs in strings.

Unchecked reads are modelled as they are: `T(i)` reads the junk when `i` is
behind the stream, and `Prev` models line 258, where the guard of
`token_stream[*index - 1]` compares the address of the index with 0 and so does
not guard. Outcome `"fault"` is a read that may end the process.

`PrintReads` is the switch of `print_ast_node`: the union of a node is read
according to the type of the node. `Written` is what the lexer stored in the
union of a token. `NULL` is a record with a type that no node has, so that a pointer
can be compared with it. `Nodes` are the nodes of a tree down to `Height`, each with the
kind of block it stands in; the right child of a while stands in a loop, that of a
function declaration in a function (`Inner`). `Height` bounds what TLC looks at. It is
a constant, and each tree is covered by some value of it; `Whole` says that the tree
does not go further down.

`OperandsKept` and `BalancedOnAccept` relate the tree to the tokens that were consumed.
`OpenBehind` gives the brackets that are open behind a token from those open in front of
it. A token in the place of the name of a function is no bracket, whatever its type:
`int ( ( ) { }` declares a function whose name is `(`. Both suppose `CallsClosed`: that
the stream ends with EOF, or has no call. Otherwise the arguments of a call may run to
the end of the stream, where line 295 tests nothing and any cell behind the stream
passes for the closing bracket.

`ParserGrammar` holds what TLC alone evaluates. `Trees`, a recursive operator, is the
reference definition: the set of trees that the grammar derives for a stretch of tokens,
by cutting it in every way. It does not follow the order in which the parser reads and
so is an independent definition of acceptance, precedence and associativity. The
properties that the code violates are in this module too.

### MallocAllocator

State: `heap` holds the allocated blocks, the `prev` and `next` of the header of
each address, the two list ends, and an outcome; `phase` and `cursor` are the
progress of `malloc_clear`. Headers keep their contents when a block is
released, and an address may be handed out again, as with the C heap. Actions:
`Malloc`, `MallocNull` (malloc fails and the header is written all the same),
`Free`, `Realloc` (malloc, copy, free), `Clear`, and one `ClearBlock` per
iteration of its loop. An access to the header of a block that is not
allocated is undefined behaviour; it is the outcome `"freed"`, behind which the
model makes no claim.

`MayFreeFirst` and `MayReuse` say what the client does. `main` does neither: the
first block is the linear buffer, which is never freed, and shutdown is the last
call. That is not only said here: `ImplementsMalloc` of `Program` checks it. The
theorems are about such a client.

### LinearAllocator

State: `curr` is `buffer_curr`, `blocks` the stretches handed out since the last
clear with the alignment they were asked with, `debug` whether the build defines
`_DEBUG`, `aborted` whether the assertion of `linear_malloc` failed. An address is
a number. Actions: `Malloc`, `Realloc` of any block to any larger size, and
`Clear`; `Cut` is the body of `linear_malloc`, which `linear_realloc` calls.
`linear_free` does nothing and has no action. `AlignForward` writes
`p & ~(a - 1)` as `p - p % a`, the same thing for the powers of two that `&`
needs. The contents of blocks are not modelled, so the copy in `linear_realloc`
has no effect.

### Array, ItemSequence

State: `cells` is the block the items lie in, as long as its capacity; `length`
is `item_length`; `live` is whether the array was freed. Header, alignment and
address are left out, and the byte lengths, which are item lengths times a
constant. A cell that was never written holds `Junk`, so that a copy that misses
one shows. Actions: `Push`, `Alloc`, `Pop`, `Clear`, `Free`, each a whole macro
with its growth.

`ItemSequence` is what a client believes it has: a sequence that is appended to,
extended, shortened and emptied. `Array` maps `items` to the first `length`
cells and leaves `live` as it is. `sk_array_pop` and `sk_array_clear` of an empty
array change nothing, and are steps of `Array` only when there is something to
remove. What `Alloc` puts into the new places is left open by `ItemSequence`;
the array shows what the cells last held.

### List, NodeLists

State: `links` holds `prev_node`, `next_node` and `head_node` of every node. The
operators `Removed`, `InsertedBefore` and so on are the C functions as functions
from links to links, assignment after assignment; the actions are a client's
calls. `sk_list_clear` of a member is a loop and is modelled one iteration at a
time (`ClearMember`, `ClearStep`, `ClearEnd`, with `clearing` the node it was
called with); of a head it is one removal (`ClearHead`), because the two branches
of the function are exchanged. `owner` is left out, as `list.c` does not look at
it.

`KeepHeads` says what the client does. With `TRUE` it moves no head, clears
through a linked member, and inserts next to heads and linked members only.
`TypeOK` and `Circular` are proved for either client. For the other one `OneHead`
and the refinement are not true: a head that is moved or cleared leaves members
behind that name it.

`NodeLists` is what such a client believes it has: one sequence of members per
head, and no member in two places. `List` maps the list of a head to the nodes met
from it along `next_node`, and to the empty list during a clear. `CallsDoAsNamed`
says more than the refinement: `sk_list_insert_tail` is the insertion at the tail,
and so on for each call.

### Program

State: `pc` is how far `main()` is, `heap` and `cursor` are the malloc
allocator's, `tcurr` and `tblocks` the linear allocator's of the tokens, `ncurr`
and `nblocks` the parser's. `own` and `text` are the blocks that the program's
pointers lead to: the two buffers, the source and its copy, the string being
collected, and the texts of the names that tokens and nodes point to. The steps of
`main()` are actions; inside the lexer there is one action per allocation that can
matter: `BeginText`, `MoreText` (which grows the array of the text, so mallocs and
frees), `EndText` (number or name, and the push to the stream), `OtherToken`.
`AllocFails` is malloc returning NULL at any of these. `LexError`, `ParseError` and
`NoFile` end the program as `sk_emit_error` and the assertion do.

`StreamRoom`, `NodeRoom` and `Capacity` stand for the 2 MB, the 32 MB and the 256
tokens. A source is any sequence of at most `MaxTokens` tokens, with texts of at
most `MaxText` characters and a tree of at most `MaxNodes` nodes.

### Scope

State: the two malloc allocators of `semant.c`, the `words` of each scope, `depth`
and `lost`. `sk_pop_scope` passes `sk_list_remove` the address of a scope in place of
that of its `scope_list`, one word further on. `List`, with the links of
whole nodes, is too coarse for that, so the operations of `list.c` are given here on
words: a scope is its array, `prev_node`, `next_node` and `head_node`; a pointer is a
scope and the word it leads to (`Whole`, `Link`); `Get` and `Set` read and write a
field of the list that a pointer is taken for.

`Push` is `sk_push_scope`: the links of a new scope are whatever its block held, since
nothing sets them before `sk_list_remove` reads them. `Pop` is `sk_pop_scope` as it is
compiled. `PopTail`: both blocks are released, then all five assignments of
`sk_list_remove` are made one word too early. The node in front of the scope gets the
array as its `prev_node`, and the scope gets its own address as its array, its
`prev_node` and its `next_node`. `PopAnything`: the tail is no scope, or its array is
not one, as after a pop; `sk_array_free` then calls what stands in front of it as
`deallocate_func`, and the run is `lost`. Reading released memory may likewise end the
run as `lost` or give what was there (`Follows`).

The client pops no more than it has pushed and its root is linked to itself, so the
fault that the run shows is not the client's. `malloc` does not fail in this module.
With the address of `scope_list` in the place of that of the scope,
`Removed(words, Link(s))`, the property of the run holds in all states.

## 4. The runs

| Run | Checks | Instance |
|---|---|---|
| `Lexer` | `TypeOK`, `Tiling`, `LinesExact`, `EofEndsStream`, `MaximalMunch`, `LongestKeyword`, `Terminates` | every text of up to 4 characters over 11 (all classes, 0 and 0xFF inside the text too) and of up to 6 over four letters and a blank; `overread` empty or `{";"}` |
| `ParserProgram` | `ExprMatchesGrammar`, `TypeOK`, `StackSuffices`, `JumpsPlaced`, `BalancedOnAccept`, `OperandsKept`, `StopsAtEof`, `OnlyLeadingAssignFaults`, `PrintReadsWhatWasWritten` | `return` of every expression of up to 4 tokens, chains of four operands over all levels, nested calls; every sequence of up to 5 of nine statement beginnings and `}` in a function; every top-level text of up to 4 tokens and every declaration with up to 4 more (5 without `=` and `[`), with or without EOF, in front of seven kinds of junk; a call that is left open at the end of a stream, in front of four; 45 levels of recursion, trees 30 nodes deep |
| `Malloc` | `TypeOK`, `NoFreedAccess`, `TracksAtMostTwo`, `ClearEnds` | four addresses |
| `Linear` | `TypeOK`, `Disjoint`, `InBuffer` | a buffer at addresses 8 to 19, sizes 1, 3, 4, alignments 1, 4, 8, addresses up to 22 |
| `Array` | `TypeOK`, `ImplementsSequence` | capacity 2, two values, requests for 0 to 2 items, up to 7 items |
| `List` | `TypeOK`, `Circular`, `OneHead`, `ImplementsLists`, `CallsDoAsNamed`, `ClearEnds` | two heads, four other nodes, a client that keeps its heads |
| `Program` | `TypeOK`, `NothingDangles`, `NothingLeaks`, `ShutdownReleases`, `StreamCost`, `StreamFits`, `ImplementsMalloc` | seven addresses; a stream that begins with room for 1 token, up to 5 tokens, texts of up to 5 characters, 2 nodes; a linear buffer of 13, a token array's header counting 1 |

Why the bounds are enough. The lexer's decisions depend on the class of the
current character and on at most the length of the longest keyword ahead; four
characters hold every pair of adjacent tokens, the swallowing of one character
between them, and what comes next, and six hold "else if" between others. The
parser's expressions reach each level from each other in chains of three
operators, and the shortest counterexample to each of its violated properties is
well below the bounds. No stream has as many as 45 cells and no tree a node below
the thirtieth. Five statement phrases nest a jump under three blocks
and close two. The allocator's list never holds more than two blocks, so two
further addresses give every configuration of stale links and reuse. The linear buffer holds several blocks with padding
between them, and three addresses lie behind it, so that blocks begin and end on
both sides of its end. Seven items over an initial capacity of two move the
array twice, by `Push` and by `Alloc`. A list operation looks at the node, its
target and their neighbours: four members give lists in which these are all
different, and two lists between which they move. In `Program` the stream grows
three times, to a length at which a buffer of 13 is left, so that the debug build
stops and the release build goes on; a text of five characters, its 0 included,
moves three times. Seven addresses are the four blocks of `main()`, the text in
both its places while it grows, and one of a name that is kept, or more names when
no text is growing.

`CHECK_DEADLOCK FALSE` stands in every cfg because every component may come to
an end: the scan and the parse return, the malloc allocator is cleared, the
linear allocator's assertion ends the program or its addresses reach `Limit`, the
array is freed.

**What the passing runs show.** Tokens tile the source for every text, lines
are counted exactly but for newlines inside a token, the stream ends with EOF
but for three listed causes, the scan ends. The parser accepts exactly the
expressions of the grammar (without `-`, `&`, `|`, see below) and builds the one
tree it gives them; accepted programs have jumps in their blocks and, where no
call is left open at the end of the stream, matching brackets and all operands in the
tree (without `-` and alternatives). It never
steps over EOF, whatever is in memory behind it, unless the text contains `[`:
in a type with an array suffix, and in indices, the test of the closing token
can read behind EOF (`IDENT [ ( IDENT ) ] EOF` in front of `( ) { }` is
accepted). The read in front of the array happens for a leading assignment
only. The recursion takes at most one level per cell that there is to read: no
circle of calls comes back without having read on. Linear blocks never overlap, in either build, even behind the end of the
buffer; only the `_DEBUG` build keeps them inside it, for the assertion of
`memory.c:113` is the only test of the bound, and it keeps one address of the
buffer unused. The array is a sequence through every growth, for a client that
never asks `sk_array_alloc` for more than the initial capacity
(`CountsAssumption`): the macro doubles once, and a larger request would put the
length behind the block. It has no caller in the program. Whatever leaf the
printing reads, it reads the member of the union that the lexer wrote, save for
the name of a function: of another token than an identifier it would print as a
string what an earlier token left there (`parser.c:661`).

The links of the list are circles at any time, in the middle of a clear too, and
to a client that keeps its heads the list is a sequence per head. A clear of a
member does what a clear of the list should do, and takes out the head as well; a
clear of the head does not empty the list. `main()` never points to released
memory and loses none before the shutdown. The shutdown gives back the two large
buffers, because one is the first block and the other is the last one that is
asked for; the source, its copy and the text of every name are not given back. A
stream whose array has grown to n tokens takes 2n tokens less 256 of the linear
buffer, since the arrays it has outgrown are never given back (`StreamCost`, which says what
they take wherever they lie). It stays inside the buffer, in the release build too, as
long as four times its tokens, and the headers, are less than the room
(`StreamFits`); behind that only the assertion of the debug build stops it. Of the
nodes nothing of the kind can be said without a bound on the tree. `main()` keeps the discipline
under which the malloc allocator is safe.

**What the code does otherwise than its documents say.** Each of these runs
checks one property and is expected to find it violated; `PROJECT.json` has the
finding. `Scope` has three scopes and three arrays, and reaches its violation with two
pushes and a pop; the instances of the others are in `MCLexer` and `MCParser`.

| Run | Source | Violated |
|---|---|---|
| `LexerIdent` | `lexer.c:274` | an identifier takes in the terminating 0 |
| `ParserNegate` | `parser.c:315` | `=` for `==`: the operand of a negation is lost |
| `ParserIfElse` | `parser.c:798` | an else replaces the first statement of its if |
| `ParserLogical` | `parser.c:406` | `\|\|` and `&&` are taken by the bitwise level |
| `Scope` | `semant.c:47` | a popped scope, released, remains the tail of the list, with itself for its array |

More differences are in the models without a run of their own. A keyword is
recognised by its prefix, so `integer` is the keyword `int` and the identifier
`eger` (`lexer.c:46`; `IsKeyword`), where `selkscript.bnf:208` makes it one
identifier. `root_header` survives the release of its block and both list ends
survive the clear (`memory.c:87`, `memory.c:106`; with `MayFreeFirst` or `MayReuse`
set, `NoFreedAccess` of `MallocAllocator` is violated). The
character behind a decimal point is taken whatever it is (`lexer.c:244`;
`LexFloat`, and one of the causes `EofEndsStream` lists). Any token is accepted as
the name of a function (`parser.c:661`; `OperandsKept` says that it is kept in the
tree). A call whose arguments run to the end
of a stream without EOF takes whatever cell lies behind as its `)` (`parser.c:295`;
`selkscript.bnf:170` asks for the bracket): `void f ( ) { x = g ( y` in front of
`IDENT ; }` is accepted. The example program of the grammar file uses `+=`, which no function of
the parser accepts.

**Fairness.** `Lexer` assumes `WF_vars(Next)`: `sk_lex_source` is a loop in the
only thread of the program, so an iteration that can run does. `MallocAllocator`
assumes weak fairness of the steps of a running clear only; a client need never
call anything. `List` assumes it of
the steps of a running `sk_list_clear` only, likewise. `LinearAllocator` and `Array`
assume none, as their clients need never call them; `Program` has no liveness
property and assumes none, and the key that `main()` waits for may never come. `Parser` has no liveness property: a parse
is one step, and that it ends is `StackSuffices`.

## 5. The proofs

TLAPS proves the following for every value of the constants.

* `LexerProofs`: `Spec => []TypeOK`, `Spec => []Tiling`,
  `Spec => []EofEndsStream`, from the assumptions in `Lexer` (the classes are
  disjoint, keywords begin with a letter and consist of letters and blanks, the
  over-read bytes are not 0xFF or newline, a source ends with 0). None of the
  three is inductive alone: that a token ends inside the source depends on where
  the terminating 0 may be, since sub-scanners move past characters they do not
  test. The invariant `IInv` adds `NulEnds` (the source ends with 0), `Behind`
  (every token ends before the cursor) and `SwallowedEnd` (the cursor is at the
  end only behind an identifier or a float that took in the 0). Lemma
  `EmitKeeps` does the work common to all sub-scanners: it needs only that the
  last character is inside, and the final 0 only for the two kinds of token.
  `WordInside` and `RunInside` give that for each sub-scanner, `ScannersKeep`
  collects them.
  `Spec => []MaximalMunch`, `Spec => []LongestKeyword` and `Spec => []LinesExact`
  are in the same module. `ScannersAppend` reduces the six sub-scanners to one step,
  `Appends`, that begins at a character of its kind and stops in front of one it
  cannot take. Munching needs `Munched`, what is at the cursor when the last token
  ends right in front of it; the lines need `LineCounted`, that `line` counts the
  newlines in front of the cursor that no token took. The longest keyword follows
  from the order of the list alone, which `OrderAssumption` of `Lexer` states: of
  the fifteen keywords only "else" begins another one, and it is tried behind it.
* `ParserProofs`: `Spec => []TypeOK`, `StackSuffices`, `StopsAtEof`,
  `OnlyLeadingAssignFaults`, `JumpsPlaced`, `PrintReadsWhatWasWritten`, `OperandsKept` and
  `BalancedOnAccept`, for every
  stream, every content of the memory around it, any `Depth` and any `Height`, from the
  assumptions in `Parser`: EOF is nowhere but at the end of a stream, as
  `EofEndsStream` of `Lexer` says, and no cell holds the two values that stand for
  no type. What is shown of a call is a predicate on its result: `Result` (where the
  index stands, which outcomes there are, and that a full stack means `i + d` cells or
  fewer for a call at `i` with `d` levels to go), `Expr` for expressions and
  declarations, `Type`, `Part` for what must read on, `Stmts` and `Option` for
  statements in a kind of block. `Sound(P, d)` says it of every call in `P`. There is
  one lemma per parse function, which takes `Sound(P, d)` and shows its predicate with
  `d + 1`; together they are `CallsSound`, and `LevelsSound` is the induction over the
  levels, by `SetInduction`. `ParserInv` follows for the one step.

  `Sound` speaks of calls behind the first token only, and this is what makes it
  true: the read of `token_stream[*index - 1]` faults at index 0, and every call that
  closes a circle stands further on. `StopsAtEof` hangs on two places where the code
  steps over a token it has not tested, behind an argument list (`Call`) and over the
  name of a function (`NamedSound`). In the first, the test of `index < length` fails
  only behind EOF, where the list before it never leads; in the second, the third token
  that told the declaration from others is a `(` in front of EOF, and a type is made
  of type words only, so it ends there at the latest (`Type`). For the trees, `Good`
  says that there is a set which holds the root, is closed under children and has
  nothing but proper nodes in it: it needs no induction over trees, is kept
  when two trees get a new root (`RootGood`) or a tree is hung into another one
  (`GraftGood`), and covers all that `Nodes` finds (`NodesProper`).

  `OperandsKept` and `BalancedOnAccept` follow from `TokensInv`, that the tree returned
  *spans* the tokens consumed. `Spans(n, i, j, N)` says of the tree `n`, the tokens from
  `i` to `j - 1` and the places `N` of function names among them: the same brackets are
  open behind them as in front of them, whichever these are (`Balanced`, which so can be
  joined and put in brackets without induction); the places in the tree are those of the
  operands and of `N`, each in its order, unless a node in the tree may have lost some
  (`Losers`); and `N` is what the tree names, unless there is an alternative in it. The
  tree is taken as a set again: `Below` is the smallest set with the root and, of each
  node, its children. `BelowRoot` is how it grows with a new root, and `WholeTree` that
  `Nodes` finds it all when nothing is further down than `Height`. `Covers(r, i, kind)` says
  that a result spans what it consumed; expressions, types and parameters (`"part"`)
  name no functions and do not step over EOF, statements (`"any"`) may.
  There is again one lemma per parse function, from `Covering(P)` for the calls below it
  to its own result, and the induction over the levels is `LevelsCovering`. `Shut` is what
  `CallsClosed` means for the cells and is used at line 295 only (`CallCovers`): the
  arguments stay in front of EOF, so the test of the bracket is made.

  The proof showed that both properties were false as they had been stated and checked
  before, without `CallsClosed`; the run had no stream with a call left open at its end
  and has some now (`OpenCallInputs`).
* `MallocAllocatorProofs`: `Spec => []TypeOK` without conditions;
  `Spec => []NoFreedAccess` and `Spec => []TracksAtMostTwo` for a client that
  neither frees the first block nor goes on after a clear (`Disciplined`). The
  strengthening `Star` says what the list really looks like while the allocator
  is in use: the root is allocated, `curr_header` stays on it, its `prev` is NULL,
  its `next` is NULL or another allocated block, and every other allocated block
  has the root as its `prev` and NULL as its `next`. `ClearPath` is the same for
  the rest of a running clear.
* `LinearAllocatorProofs`: `Spec => []TypeOK`, `Spec => []Disjoint`,
  `Spec => []InBuffer`, for every buffer, every set of sizes and every set of
  alignments. The three are inductive together: a new block begins at or behind
  `buffer_curr`, and `TypeOK` says that all others end before it. Lemma
  `AlignForwardIs` is the arithmetic: the aligned address is not less than the one
  given, and is divisible.
* `ArrayProofs`: `Spec => []TypeOK`, and `Spec => ImplementsSequence`, the
  refinement, for every capacity and every set of values. `TypeOK` is inductive as
  it stands, given `CountsAssumption`: since the capacity never shrinks, one
  doubling makes room for any request a client may make. The refinement has one
  step per action, each of which shows the first `length` cells before and after.
* `ListProofs`: `Spec => []TypeOK` and `Spec => []Circular` for every number of
  nodes and either client, `Spec => []OneHead` for a client that keeps its heads.
  `Circular` is inductive given
  `TypeOK`: a removal joins the two neighbours of a node and closes the node in
  itself (`RemovedCircles`), and what is inserted is then alone and is not part of
  the circles it goes into (`RemovedAlone`, `InsertedCircles`). `StepKinds` says that
  every step is a removal, an insertion, or leaves the links alone, so the theorems
  look at no action one by one. `OneHead` is inductive given the two: `Headed` is
  the part of it that speaks of the links, kept by the removal of any node
  (`RemovedHeaded`; also of the head, which a clear takes out) and by the insertion
  of a node that is no head next to one that has a head (`InsertedHeaded`).

  The refinement `Spec => ImplementsLists` and `Spec => CallsDoAsNamed` need more
  than that, since circles with one head each may still be several circles with the
  same head, of which walking the links sees one. `Ring` describes a circle by
  the sequence of its nodes and says that every linked node which names its head is
  among them; `ListsInv` says that every head has its ring, told from the member that
  is clearing (`Anchor`) while a clear runs through it. A removal drops one place of a
  ring and leaves all other rings alone (`RemovedInside`, `RemovedOutside`), an insertion
  splices one in (`PutInside`, `PutOutside`), and the sequences change the same way
  (`BehindDropped`, `BehindSpliced`). `WalkIsRing` is the link to the code: from a
  head, the walk along `next_node` goes round the ring, and the count of
  `sk_list_count` is the number of nodes behind the head; it takes that there are
  finitely many nodes (`NodesAssumption`), so that a walk of that many steps is long
  enough. When a clear ends its member stands alone, hence no node names the head any
  more (`ClearStops`).
* `ProgramProofs`: the seven safety properties of `Program`, for any number of
  addresses, every size of the buffers and every source:
  `TypeOK`, `NothingDangles`, `NothingLeaks`, `ShutdownReleases`, `StreamCost`,
  `StreamFits` and `ImplementsMalloc`. The properties alone are not inductive: they do not say that
  the pointers are distinct, nor what `malloc_clear` will find. `MemoryInv` adds
  `Held` (the heap holds exactly what is pointed to, in the shape `Star` of the
  header list, and the buffer, the text and the tree are blocks of their own),
  `PointersSet` (which pointers are set at each place of `main()`; behind
  `ParseInit` the first block's `next` is the parser's buffer) and `Clearing` (what is left
  at each iteration of the shutdown). `MallocOpIs` and `FreeOpIs` say what the
  allocator's calls do to the list; every step of `main()` is one of them
  (`StepIsMallocStep`), which is the refinement. `TypeOK` needs `SizesInv`: an
  array that is pushed to has room for at least one item, so that doubling it
  makes room for one more. `StreamCost` needs `CostInv`, which keeps it after the
  stream is read and says the array is a block the buffer counts; a growth adds one block and
  one power of two (`CutAddsOne`, `PushKeepsCost`). `StreamFits` needs `HalfFull` besides,
  that an array which was grown into is more than half full: its capacity, and so the
  cost, is then bounded by the number of tokens (`PushHalfFull`, `CostFits`).
* `Induction`: what the last two rest on. The induction theorems of the library take
  the formula as a parameter, which the provers cannot instantiate; `SetInduction`
  takes a set that contains 0 and the successor of each of its members instead, and
  is proved from the well-foundedness of strict inclusion between the segments
  `0..n`. From it follow `IterationExists`, that a function defined by repeating a step is
  what its definition says (the walk of `List`), and `PowersOfTwo`, from the number
  of subsets of a set.

Only model-checked: the liveness properties of `Lexer`, `MallocAllocator` and
`List` (the prover has no liveness), and `ExprMatchesGrammar`. This one compares the
tree with all trees of the grammar, and these are a recursive operator, which the prover
does not support, over stretches of tokens of any length.

## 6. Not modelled

* The values of literals: `atoi` and `atof` on the text of a number.
* `sk_free_token_stream`, `sk_parse_decl_const_var`: called by nothing.
* `sk_hash`: called by nothing, and its result is any value, as it begins with a
  variable that was never set. `sk_push_variable`, an empty macro.
* A second `sk_init_memory`, and with it the `inited` flags: `main()` calls it once.
* Alignment in the malloc allocator, whose addresses are atoms; the contents of
  blocks; the wrap-around of addresses and of capacities; how large a C frame is;
  `malloc` failing in `Scope`.
* The contents of the file, the text that is printed, the texts of errors, the
  tables of names, the build files.
* Clients of the list that move heads: `TypeOK` and `Circular` are proved for them,
  the sequences are not stated.
