---------------------------- MODULE ProgramProofs ----------------------------
(***************************************************************************)
(* Proofs about Program, for every set of addresses, every size of the     *)
(* buffers and every source: who points to which block, from set-up to     *)
(* shutdown.                                                               *)
(***************************************************************************)
EXTENDS Program, Induction, TLAPS

Places == {"start", "load", "copy", "lex init", "lex", "text", "parse init", "parse", "print",
           "destroy", "shutdown", "clear", "done", "error"}
Owners == [buffer : Malloc!Link, source : Malloc!Link, chars : Malloc!Link, tree : Malloc!Link,
           strings : SUBSET Blocks]

\* The header list of a client that keeps its first block: all other blocks
\* point to the first, and the first to one of them or to none.
Star(h) ==
    /\ h.outcome = "ok"
    /\ h.root = NULL => h.live = {}
    /\ h.root # NULL =>
           /\ h.root \in h.live /\ h.curr = h.root /\ h.prev[h.root] = NULL
           /\ h.next[h.root] \in h.live \cup {NULL}
           /\ h.next[h.root] # h.root
           /\ \A b \in h.live \ {h.root} : h.prev[b] = h.root /\ h.next[b] = NULL

\* The heap h holds exactly what the owners o and the text t point to; the
\* buffer, the text and the tree are blocks of their own.
Held(h, o, t) ==
    /\ Star(h) /\ h.root = o.buffer
    /\ h.live = ({o.buffer, o.source, o.chars, o.tree, t} \ {NULL}) \cup o.strings
    /\ t # NULL => t \notin {o.buffer, o.source, o.chars, o.tree} \cup o.strings
    /\ o.buffer # NULL => o.buffer \notin {o.source, o.chars, o.tree} \cup o.strings
    /\ o.tree # NULL => o.tree \notin {o.source, o.chars} \cup o.strings

(***************************************************************************)
(* What the calls of the malloc allocator do to the list.                  *)
(***************************************************************************)

\* A new block becomes the first, or the one the first points to.
LEMMA MallocOpIs ==
    ASSUME NEW h \in Malloc!Heap, Star(h), NEW b \in Blocks \ h.live
    PROVE  /\ Malloc!MallocOp(h, b) \in Malloc!Heap
           /\ Star(Malloc!MallocOp(h, b))
           /\ Malloc!MallocOp(h, b).live = h.live \cup {b}
           /\ Malloc!MallocOp(h, b).root = IF h.root = NULL THEN b ELSE h.root
           /\ h.root # NULL => Malloc!MallocOp(h, b).next[h.root] = b
<1>1. CASE h.root = NULL
  BY <1>1, NullAssumption DEF Malloc!MallocOp, Star, Malloc!Heap, Malloc!Link
<1>2. CASE h.root # NULL
  <2>1. Malloc!MallocOp(h, b) = [h EXCEPT !.live = @ \cup {b}, !.prev[b] = h.root,
                                         !.next = [@ EXCEPT ![b] = NULL, ![h.root] = b]]
    BY <1>2 DEF Malloc!MallocOp, Star, Malloc!Heap, Malloc!Allocated
  <2> DEFINE g == Malloc!MallocOp(h, b)
  <2>2. /\ g.live = h.live \cup {b} /\ g.root = h.root /\ g.curr = h.curr
        /\ g.prev = [h.prev EXCEPT ![b] = h.root]
        /\ g.next = [h.next EXCEPT ![b] = NULL, ![h.root] = b]
        /\ g.outcome = "ok"
    BY <2>1 DEF Star, Malloc!Heap
  <2>6. g \in Malloc!Heap
    <3>1. /\ h.live \cup {b} \in SUBSET Blocks /\ h.root \in Malloc!Link
          /\ [h.prev EXCEPT ![b] = h.root] \in [Blocks -> Malloc!Link]
          /\ [h.next EXCEPT ![b] = NULL, ![h.root] = b] \in [Blocks -> Malloc!Link]
      BY DEF Malloc!Heap, Malloc!Link
    <3> QED
      BY <2>1, <3>1 DEF Malloc!Heap
  <2>3. b # h.root /\ h.root \in Blocks
    BY <1>2 DEF Star, Malloc!Heap, Malloc!Link
  <2> HIDE DEF g
  <2>4. Star(g)
    BY <1>2, <2>2, <2>3, NullAssumption DEF Star, Malloc!Heap, Malloc!Link
  <2>5. g.next[h.root] = b
    BY <2>2, <2>3 DEF Malloc!Heap, Malloc!Link
  <2> QED
    BY <1>2, <2>2, <2>4, <2>5, <2>6 DEF g
<1> QED
  BY <1>1, <1>2

\* Releasing any other block leaves the first alone in the list.
LEMMA FreeOpIs ==
    ASSUME NEW h \in Malloc!Heap, Star(h), NEW b \in h.live, b # h.root
    PROVE  /\ Malloc!FreeOp(h, b) \in Malloc!Heap
           /\ Star(Malloc!FreeOp(h, b))
           /\ Malloc!FreeOp(h, b).live = h.live \ {b}
           /\ Malloc!FreeOp(h, b).root = h.root
<1>1. /\ h.root # NULL /\ h.root \in h.live /\ h.prev[b] = h.root /\ h.next[b] = NULL
      /\ h.curr = h.root /\ b \in Blocks /\ h.root \in Blocks
  BY DEF Star, Malloc!Heap, Malloc!Link
<1>2. Malloc!FreeOp(h, b) = [h EXCEPT !.next[h.root] = NULL, !.live = @ \ {b}]
  BY <1>1 DEF Malloc!FreeOp, Malloc!Allocated, Malloc!Heap, Star
<1> DEFINE g == Malloc!FreeOp(h, b)
<1>3. /\ g.live = h.live \ {b} /\ g.root = h.root /\ g.curr = h.curr
      /\ g.prev = h.prev /\ g.next = [h.next EXCEPT ![h.root] = NULL] /\ g.outcome = "ok"
  BY <1>1, <1>2 DEF Star, Malloc!Heap
<1>5. g \in Malloc!Heap
  <2>1. h.live \ {b} \in SUBSET Blocks /\ [h.next EXCEPT ![h.root] = NULL] \in [Blocks -> Malloc!Link]
    BY DEF Malloc!Heap, Malloc!Link
  <2> QED
    BY <1>2, <2>1 DEF Malloc!Heap
<1> HIDE DEF g
<1>4. Star(g)
  BY <1>1, <1>3, NullAssumption DEF Star, Malloc!Heap, Malloc!Link
<1> QED
  BY <1>3, <1>4, <1>5 DEF g

(***************************************************************************)
(* What the program does with them.                                        *)
(***************************************************************************)

\* A new block for an owner that had none.
LEMMA TookIsHeld ==
    ASSUME NEW h \in Malloc!Heap, NEW o \in Owners, Held(h, o, NULL), NEW b \in Blocks \ h.live,
           NEW f \in {"buffer", "source", "chars", "tree"}, o[f] = NULL,
           f = "buffer" <=> h.root = NULL
    PROVE  /\ Held(Malloc!MallocOp(h, b), [o EXCEPT ![f] = b], NULL)
           /\ [o EXCEPT ![f] = b] \in Owners
<1> DEFINE p == [o EXCEPT ![f] = b]
           g == Malloc!MallocOp(h, b)
<1>1. /\ Star(g) /\ g.live = h.live \cup {b} /\ g.root = IF h.root = NULL THEN b ELSE h.root
      /\ g.outcome = "ok"
  BY MallocOpIs DEF Held, Star
<1>2. /\ p \in Owners /\ p.strings = o.strings
      /\ p.buffer = IF f = "buffer" THEN b ELSE o.buffer
      /\ p.source = IF f = "source" THEN b ELSE o.source
      /\ p.chars = IF f = "chars" THEN b ELSE o.chars
      /\ p.tree = IF f = "tree" THEN b ELSE o.tree
  BY DEF Owners, Malloc!Link
<1> HIDE DEF p, g
<1>3. /\ h.live = ({o.buffer, o.source, o.chars, o.tree} \ {NULL}) \cup o.strings /\ h.root = o.buffer
      /\ h.root = NULL => h.live = {}
      /\ NULL \notin h.live
  BY NullAssumption DEF Held, Star, Malloc!Heap
<1>4. ASSUME f = "buffer" PROVE Held(g, p, NULL)
  <2>1. /\ g.live = {b} /\ g.root = b /\ p.buffer = b /\ p.strings = {}
        /\ p.source = NULL /\ p.chars = NULL /\ p.tree = NULL
    BY <1>1, <1>2, <1>3, <1>4
  <2> QED
    BY <1>1, <2>1, NullAssumption DEF Held
<1>5. ASSUME f = "source" PROVE Held(g, p, NULL)
  BY <1>1, <1>2, <1>3, <1>5, NullAssumption DEF Held
<1>6. ASSUME f = "chars" PROVE Held(g, p, NULL)
  BY <1>1, <1>2, <1>3, <1>6, NullAssumption DEF Held
<1>7. ASSUME f = "tree" PROVE Held(g, p, NULL)
  BY <1>1, <1>2, <1>3, <1>7, NullAssumption DEF Held
<1> QED
  BY <1>2, <1>4, <1>5, <1>6, <1>7 DEF p, g

\* A text begins, moves, is given back, or becomes the text of a name.
LEMMA TextIsHeld ==
    ASSUME NEW h \in Malloc!Heap, NEW o \in Owners, NEW t \in Malloc!Link, Held(h, o, t),
           o.buffer # NULL
    PROVE  /\ t = NULL => \A b \in Blocks \ h.live : Held(Malloc!MallocOp(h, b), o, b)
           /\ t # NULL => /\ \A b \in Blocks \ h.live :
                                 Held(Malloc!FreeOp(Malloc!MallocOp(h, b), t), o, b)
                          /\ Held(Malloc!FreeOp(h, t), o, NULL)
                          /\ Held(h, [o EXCEPT !.strings = @ \cup {t}], NULL)
                          /\ [o EXCEPT !.strings = @ \cup {t}] \in Owners
<1>1. /\ Star(h) /\ h.root = o.buffer
      /\ h.live = ({o.buffer, o.source, o.chars, o.tree, t} \ {NULL}) \cup o.strings
  BY DEF Held
<1>2. ASSUME t = NULL, NEW b \in Blocks \ h.live
      PROVE  Held(Malloc!MallocOp(h, b), o, b)
  <2> DEFINE g == Malloc!MallocOp(h, b)
  <2>1. Star(g) /\ g.live = h.live \cup {b} /\ g.root = o.buffer
    BY <1>1, MallocOpIs
  <2> HIDE DEF g
  <2>2. Held(g, o, b)
    BY <1>1, <1>2, <2>1, NullAssumption DEF Held
  <2> QED
    BY <2>2 DEF g
<1>3. ASSUME t # NULL PROVE t \in h.live /\ t # h.root /\ t \in Blocks
  BY <1>1, <1>3 DEF Held, Malloc!Link
<1>4. ASSUME t # NULL, NEW b \in Blocks \ h.live
      PROVE  Held(Malloc!FreeOp(Malloc!MallocOp(h, b), t), o, b)
  <2> DEFINE g == Malloc!MallocOp(h, b)
             f == Malloc!FreeOp(g, t)
  <2>1. g \in Malloc!Heap /\ Star(g) /\ g.live = h.live \cup {b} /\ g.root = o.buffer
    BY <1>1, MallocOpIs
  <2> HIDE DEF g
  <2>2. Star(f) /\ f.live = (h.live \cup {b}) \ {t} /\ f.root = o.buffer
    BY <1>1, <1>3, <1>4, <2>1, FreeOpIs
  <2> HIDE DEF f
  <2>3. Held(f, o, b)
    BY <1>1, <1>3, <1>4, <2>2, NullAssumption DEF Held
  <2> QED
    BY <2>3 DEF f, g
<1>5. ASSUME t # NULL PROVE Held(Malloc!FreeOp(h, t), o, NULL)
  <2> DEFINE f == Malloc!FreeOp(h, t)
  <2>1. Star(f) /\ f.live = h.live \ {t} /\ f.root = o.buffer
    BY <1>1, <1>3, <1>5, FreeOpIs
  <2> HIDE DEF f
  <2>2. Held(f, o, NULL)
    BY <1>1, <1>3, <1>5, <2>1 DEF Held
  <2> QED
    BY <2>2 DEF f
<1>6. ASSUME t # NULL
      PROVE  /\ Held(h, [o EXCEPT !.strings = @ \cup {t}], NULL)
             /\ [o EXCEPT !.strings = @ \cup {t}] \in Owners
  <2> DEFINE p == [o EXCEPT !.strings = @ \cup {t}]
  <2>1. /\ p \in Owners /\ p.strings = o.strings \cup {t} /\ p.buffer = o.buffer
        /\ p.source = o.source /\ p.chars = o.chars /\ p.tree = o.tree
    BY <1>3, <1>6 DEF Owners
  <2> HIDE DEF p
  <2>2. Held(h, p, NULL)
    BY <1>1, <1>6, <2>1 DEF Held
  <2> QED
    BY <2>1, <2>2 DEF p
<1> QED
  BY <1>2, <1>4, <1>5, <1>6

(***************************************************************************)
(* The invariant.                                                          *)
(***************************************************************************)
Texts == [at : Malloc!Link, kind : {"name", "number"}, length : Nat, capacity : Nat]

Typed ==
    /\ pc \in Places /\ heap \in Malloc!Heap /\ cursor \in Malloc!Link
    /\ own \in Owners /\ text \in Texts

\* The pointers that are set at each place, and no others; behind ParseInit the
\* tree is the one block that the first points to.
PointersSet ==
    /\ pc = "start" <=> own.buffer = NULL
    /\ pc \in {"start", "load"} => own.source = NULL
    /\ pc \in {"start", "load", "copy"} => own.chars = NULL
    /\ pc \in {"start", "load", "copy", "lex init", "lex", "text", "parse init"} => own.tree = NULL
    /\ pc \in {"copy", "lex init", "lex", "text", "parse init", "parse", "print", "destroy", "shutdown"}
           => own.source # NULL
    /\ pc \in {"lex init", "lex", "text", "parse init", "parse", "print", "destroy", "shutdown"}
           => own.chars # NULL
    /\ pc \in {"parse", "print", "destroy", "shutdown"}
           => own.tree # NULL /\ heap.next[own.buffer] = own.tree
    /\ pc = "text" => text.at # NULL
    /\ pc \notin {"text", "error"} => text.at = NULL

\* What the shutdown does not give back, and how far it is with the rest.
Rest == {own.source, own.chars} \cup own.strings
Clearing ==
    /\ own.buffer \in Blocks /\ own.tree \in Blocks /\ own.buffer # own.tree
    /\ own.buffer \notin Rest /\ own.tree \notin Rest
    /\ heap.next[own.buffer] = own.tree /\ heap.next[own.tree] = NULL
    /\ \/ cursor = own.buffer /\ heap.live = Rest \cup {own.buffer, own.tree}
       \/ cursor = own.tree /\ heap.live = Rest \cup {own.tree}
       \/ cursor = NULL /\ heap.live = Rest

MemoryInv ==
    /\ Typed
    /\ Working => Held(heap, own, text.at) /\ PointersSet
    /\ Running /\ pc = "clear" => Clearing
    /\ ShutdownReleases

\* It holds before anything is allocated.
LEMMA InitMemoryInv == Init => MemoryInv
  BY NullAssumption
     DEF Init, Malloc!Init, MemoryInv, Typed, Places, Malloc!Heap, Malloc!Link, Owners, Texts, Working,
         Running, Held, Star, PointersSet, ShutdownReleases

\* Where main() is may change without the memory.
Passes == {<<"load", "error">>, <<"lex init", "lex">>, <<"lex", "lex">>, <<"lex", "error">>,
           <<"text", "error">>, <<"lex", "parse init">>, <<"parse", "parse">>, <<"parse", "error">>,
           <<"parse", "print">>, <<"print", "destroy">>, <<"destroy", "shutdown">>}

\* Steps that leave the memory alone keep the invariant.
LEMMA PassKeeps ==
    ASSUME MemoryInv, Running, <<pc, pc'>> \in Passes, UNCHANGED <<heap, cursor, own, text>>
    PROVE  MemoryInv'
<1>1. Working /\ pc' \in Places /\ pc' \notin {"clear", "done", "start", "text"}
  BY DEF Working, Passes, Places
<1>2. Typed'
  BY <1>1 DEF MemoryInv, Typed
<1>3. Held(heap, own, text.at)' /\ PointersSet'
  <2>1. Held(heap, own, text.at) /\ PointersSet
    BY <1>1 DEF MemoryInv
  <2>2. PointersSet'
    BY <2>1 DEF PointersSet, Passes
  <2>3. heap' = heap /\ own' = own /\ text' = text
    OBVIOUS
  <2> QED
    BY <2>1, <2>2, <2>3
<1> QED
  BY <1>1, <1>2, <1>3 DEF MemoryInv, ShutdownReleases

\* main() takes a block: for the owner f, between the places from and to.
LEMMA TakeKeeps ==
    ASSUME MemoryInv, NEW f \in {"buffer", "source", "chars", "tree"}, Take(f), Running, UNCHANGED text,
           <<pc, f, pc'>> \in {<<"start", "buffer", "load">>, <<"load", "source", "copy">>,
                               <<"copy", "chars", "lex init">>, <<"parse init", "tree", "parse">>}
    PROVE  MemoryInv'
<1>1. PICK b \in Blocks \ heap.live : heap' = Malloc!MallocOp(heap, b) /\ own' = [own EXCEPT ![f] = b]
  BY DEF Take
<1>2. /\ Working /\ Held(heap, own, NULL) /\ PointersSet /\ text.at = NULL
      /\ heap.root = own.buffer /\ Star(heap) /\ own[f] = NULL /\ (f = "buffer" <=> heap.root = NULL)
  BY DEF MemoryInv, Working, PointersSet, Held
<1>3. Held(heap', own', NULL) /\ own' \in Owners
  BY <1>1, <1>2, TookIsHeld DEF MemoryInv, Typed
<1>4. heap' \in Malloc!Heap /\ (heap.root # NULL => heap'.next[heap.root] = b)
  BY <1>1, <1>2, MallocOpIs DEF MemoryInv, Typed
<1>5. /\ own'.buffer = IF f = "buffer" THEN b ELSE own.buffer
      /\ own'.source = IF f = "source" THEN b ELSE own.source
      /\ own'.chars = IF f = "chars" THEN b ELSE own.chars
      /\ own'.tree = IF f = "tree" THEN b ELSE own.tree
  BY <1>1 DEF MemoryInv, Typed, Owners
<1>6. PointersSet'
  BY <1>2, <1>4, <1>5, NullAssumption DEF PointersSet
<1>7. Typed'
  BY <1>3, <1>4 DEF MemoryInv, Typed, Places, Take
<1>8. text'.at = NULL
  BY <1>2
<1> QED
  BY <1>3, <1>6, <1>7, <1>8 DEF MemoryInv, ShutdownReleases, Working

\* A text begins, grows, and ends.
LEMMA TextKeeps ==
    ASSUME MemoryInv, BeginText("number") \/ BeginText("name") \/ MoreText \/ EndText
    PROVE  MemoryInv'
<1>1. /\ Running /\ pc \in {"lex", "text"} /\ Working
      /\ Typed /\ Held(heap, own, text.at) /\ PointersSet
  BY DEF BeginText, MoreText, EndText, Step, MemoryInv, Working
<1>2. own.buffer # NULL /\ heap.root = own.buffer /\ Star(heap)
  BY <1>1 DEF PointersSet, Held
<1>3. ASSUME NEW kind \in {"number", "name"}, BeginText(kind)
      PROVE  MemoryInv'
  <2>1. PICK b \in Blocks \ heap.live :
            /\ heap' = Malloc!MallocOp(heap, b)
            /\ text' = [at |-> b, kind |-> kind, length |-> 1, capacity |-> 1]
    BY <1>3 DEF BeginText
  <2>2. UNCHANGED <<cursor, own>> /\ pc' = "text" /\ pc = "lex"
    BY <1>3 DEF BeginText, Step
  <2>3. text.at = NULL
    BY <1>1, <2>2 DEF PointersSet
  <2>4. Held(heap', own, b)
    BY <1>1, <1>2, <2>1, <2>3, TextIsHeld DEF Typed, Texts
  <2>5. text'.at = b /\ text' \in Texts
    BY <2>1 DEF Texts, Malloc!Link
  <2>6. Typed'
    BY <1>1, <1>2, <2>1, <2>2, <2>5, MallocOpIs DEF Typed, Places
  <2>7. PointersSet'
    BY <1>1, <2>2, <2>5, NullAssumption DEF PointersSet
  <2> QED
    BY <2>2, <2>4, <2>5, <2>6, <2>7 DEF MemoryInv, ShutdownReleases
<1>4. ASSUME MoreText PROVE MemoryInv'
  <2>1. UNCHANGED <<cursor, own>> /\ pc' = "text" /\ pc = "text" /\ text.at # NULL
    BY <1>1, <1>4 DEF MoreText, Step, PointersSet
  <2>2. CASE heap' = heap /\ text' = [text EXCEPT !.length = @ + 1]
    <3>1. text'.at = text.at /\ text' \in Texts
      BY <1>1, <2>2 DEF Typed, Texts
    <3>2. PointersSet'
      BY <1>1, <2>1, <2>2, <3>1 DEF PointersSet
    <3> QED
      BY <1>1, <2>1, <2>2, <3>1, <3>2 DEF MemoryInv, Typed, ShutdownReleases
  <2>3. CASE \E b \in Blocks \ heap.live :
                 /\ heap' = Grown(b)
                 /\ text' = [text EXCEPT !.at = b, !.length = @ + 1, !.capacity = 2 * @]
    <3>1. PICK b \in Blocks \ heap.live :
              /\ heap' = Malloc!FreeOp(Malloc!MallocOp(heap, b), text.at)
              /\ text' = [text EXCEPT !.at = b, !.length = @ + 1, !.capacity = 2 * @]
      BY <2>3 DEF Grown
    <3>2. text'.at = b /\ text' \in Texts
      <4>1. text \in Texts /\ b \in Malloc!Link
        BY <1>1 DEF Typed, Malloc!Link
      <4>2. text' = [at |-> b, kind |-> text.kind, length |-> text.length + 1,
                     capacity |-> 2 * text.capacity]
        BY <3>1, <4>1 DEF Texts
      <4> QED
        BY <4>1, <4>2 DEF Texts
    <3>3. Held(heap', own, b)
      BY <1>1, <1>2, <2>1, <3>1, TextIsHeld DEF Typed, Texts
    <3>4. heap' \in Malloc!Heap
      <4>1. /\ Malloc!MallocOp(heap, b) \in Malloc!Heap /\ Star(Malloc!MallocOp(heap, b))
            /\ Malloc!MallocOp(heap, b).live = heap.live \cup {b}
            /\ Malloc!MallocOp(heap, b).root = own.buffer
        BY <1>1, <1>2, MallocOpIs DEF Typed
      <4>2. text.at \in heap.live /\ text.at # own.buffer
        BY <1>1, <2>1 DEF Held
      <4> QED
        BY <3>1, <4>1, <4>2, FreeOpIs
    <3>5. PointersSet'
      BY <1>1, <2>1, <3>2, NullAssumption DEF PointersSet
    <3> QED
      BY <1>1, <2>1, <3>2, <3>3, <3>4, <3>5 DEF MemoryInv, Typed, ShutdownReleases
  <2> QED
    BY <1>4, <2>2, <2>3 DEF MoreText
<1>5. ASSUME EndText PROVE MemoryInv'
  <2>1. /\ UNCHANGED cursor /\ pc = "text" /\ pc' = "lex" /\ text.at # NULL
        /\ text' = [text EXCEPT !.at = NULL]
    BY <1>1, <1>5 DEF EndText, Step, PointersSet
  <2>2. text'.at = NULL /\ text' \in Texts
    BY <1>1, <2>1 DEF Typed, Texts, Malloc!Link
  <2>3. CASE own' = [own EXCEPT !.strings = @ \cup {text.at}] /\ heap' = heap
    <3>1. Held(heap', own', NULL) /\ own' \in Owners
      BY <1>1, <1>2, <2>1, <2>3, TextIsHeld DEF Typed, Texts
    <3>2. /\ own'.buffer = own.buffer /\ own'.source = own.source /\ own'.chars = own.chars
          /\ own'.tree = own.tree
      BY <1>1, <2>3 DEF Typed, Owners
    <3>3. PointersSet'
      BY <1>1, <2>1, <2>2, <3>2 DEF PointersSet
    <3> QED
      BY <1>1, <2>1, <2>2, <2>3, <3>1, <3>3 DEF MemoryInv, Typed, Places, ShutdownReleases
  <2>4. CASE own' = own /\ heap' = Malloc!FreeOp(heap, text.at)
    <3>1. Held(heap', own', NULL)
      BY <1>1, <1>2, <2>1, <2>4, TextIsHeld DEF Typed, Texts
    <3>2. text.at \in heap.live /\ text.at # heap.root
      BY <1>1, <1>2, <2>1 DEF Held
    <3>3. heap' \in Malloc!Heap
      BY <1>1, <1>2, <2>4, <3>2, FreeOpIs DEF Typed
    <3>4. PointersSet'
      BY <1>1, <2>1, <2>2, <2>4 DEF PointersSet
    <3> QED
      BY <1>1, <2>1, <2>2, <2>4, <3>1, <3>3, <3>4 DEF MemoryInv, Typed, Places, ShutdownReleases
  <2> QED
    BY <1>5, <2>3, <2>4 DEF EndText
<1> QED
  BY <1>3, <1>4, <1>5

\* The shutdown: two blocks are found and given back, one after the other.
LEMMA ShutdownKeeps ==
    ASSUME MemoryInv, Shutdown \/ ClearBlock \/ ClearEnd
    PROVE  MemoryInv'
<1>1. ASSUME Shutdown PROVE MemoryInv'
  <2>1. /\ Working /\ Typed /\ Held(heap, own, text.at) /\ PointersSet
        /\ pc = "shutdown" /\ pc' = "clear" /\ cursor' = heap.root /\ UNCHANGED <<heap, own, text>>
    BY <1>1 DEF Shutdown, Step, MemoryInv, Working
  <2>2. own.tree \in Blocks /\ own.buffer \in Blocks /\ text.at = NULL
        /\ own.source # NULL /\ own.chars # NULL /\ heap.next[own.buffer] = own.tree
    BY <2>1 DEF PointersSet, Typed, Owners, Malloc!Link
  <2>3. /\ own.buffer # own.tree /\ own.buffer \notin Rest /\ own.tree \notin Rest
        /\ heap.live = Rest \cup {own.buffer, own.tree} /\ heap.root = own.buffer /\ Star(heap)
    BY <2>1, <2>2, NullAssumption DEF Held, Rest
  <2>4. heap.next[own.tree] = NULL
    <3>1. own.tree \in heap.live \ {heap.root} /\ heap.root # NULL
      BY <2>2, <2>3, NullAssumption
    <3> QED
      BY <2>3, <3>1 DEF Star
  <2>5. Clearing'
    BY <2>1, <2>2, <2>3, <2>4 DEF Clearing, Rest
  <2>6. Typed'
    BY <2>1 DEF Typed, Places, Malloc!Heap
  <2> QED
    BY <2>1, <2>5, <2>6 DEF MemoryInv, Working, ShutdownReleases
<1>2. ASSUME ClearBlock PROVE MemoryInv'
  <2>1. /\ Running /\ Typed /\ Clearing /\ pc = "clear" /\ pc' = "clear" /\ UNCHANGED <<own, text>>
        /\ cursor # NULL
        /\ IF cursor \in heap.live
           THEN heap' = [heap EXCEPT !.live = @ \ {cursor}] /\ cursor' = heap.next[cursor]
           ELSE heap' = [heap EXCEPT !.outcome = "freed"] /\ UNCHANGED cursor
    BY <1>2 DEF ClearBlock, Step, Malloc!ClearBlock, Malloc!Allocated, MemoryInv
  <2>2. cursor \in heap.live /\ cursor \in Blocks
    BY <2>1, NullAssumption DEF Clearing
  <2>3. heap'.live = heap.live \ {cursor} /\ heap'.next = heap.next /\ heap' \in Malloc!Heap
    BY <2>1, <2>2 DEF Typed, Malloc!Heap
  <2>4. Clearing'
    BY <2>1, <2>2, <2>3, NullAssumption DEF Clearing, Rest
  <2>5. Typed'
    BY <2>1, <2>2, <2>3 DEF Typed, Malloc!Heap
  <2> QED
    BY <2>1, <2>4, <2>5 DEF MemoryInv, Working, ShutdownReleases
<1>3. ASSUME ClearEnd PROVE MemoryInv'
  <2>1. /\ Running /\ Typed /\ Clearing /\ pc = "clear" /\ pc' = "done" /\ cursor = NULL
        /\ UNCHANGED <<own, text, heap, cursor>>
    BY <1>3 DEF ClearEnd, Step, Malloc!ClearEnd, MemoryInv
  <2>2. heap.live = Rest
    BY <2>1, NullAssumption DEF Clearing
  <2> QED
    BY <2>1, <2>2 DEF MemoryInv, Typed, Places, Working, ShutdownReleases, Rest
<1> QED
  BY <1>1, <1>2, <1>3

\* Every step of main() keeps the invariant.
LEMMA NextMemoryInv == MemoryInv /\ [Next]_vars => MemoryInv'
<1> SUFFICES ASSUME MemoryInv, [Next]_vars PROVE MemoryInv'
  OBVIOUS
<1>1. CASE InitMemory \/ Load \/ Copy \/ ParseInit
  BY <1>1, TakeKeeps DEF InitMemory, Load, Copy, ParseInit, Step
<1>2. CASE NoFile \/ LexInit \/ OtherToken \/ LexError \/ LexEnd \/ MakeNode \/ ParseError \/ ParseEnd
             \/ PrintTree \/ Destroy
  <2>1. Running /\ <<pc, pc'>> \in Passes /\ UNCHANGED <<heap, cursor, own, text>>
    BY <1>2 DEF NoFile, LexInit, OtherToken, LexError, LexEnd, MakeNode, ParseError, ParseEnd, PrintTree,
                Destroy, Step, Passes
  <2> QED
    BY <2>1, PassKeeps
<1>3. CASE BeginText("number") \/ BeginText("name") \/ MoreText \/ EndText
  BY <1>3, TextKeeps
<1>4. CASE Shutdown \/ ClearBlock \/ ClearEnd
  BY <1>4, ShutdownKeeps
<1>5. CASE AllocFails
  <2>1. /\ heap' = [heap EXCEPT !.outcome = "null"] /\ UNCHANGED <<pc, cursor, own, text>>
    BY <1>5 DEF AllocFails
  <2>2. heap' \in Malloc!Heap /\ heap'.outcome = "null"
    BY <2>1 DEF MemoryInv, Typed, Malloc!Heap
  <2> QED
    BY <2>1, <2>2 DEF MemoryInv, Typed, Working, Running, ShutdownReleases
<1>6. CASE UNCHANGED vars
  BY <1>6 DEF vars, MemoryInv, Typed, Working, Running, Held, Star, PointersSet, Clearing, Rest,
              ShutdownReleases
<1> QED
  BY <1>1, <1>2, <1>3, <1>4, <1>5, <1>6 DEF Next

\* Whatever the source, nothing that main() points to has been released while
\* it works.
THEOREM NothingDanglesHolds == Spec => []NothingDangles
<1>1. MemoryInv => NothingDangles
  BY DEF MemoryInv, NothingDangles, Owned, Held
<1> QED
  BY <1>1, InitMemoryInv, NextMemoryInv, PTL DEF Spec

\* And every block that is allocated is still pointed to when the shutdown begins.
THEOREM NothingLeaksHolds == Spec => []NothingLeaks
<1>1. MemoryInv => NothingLeaks
  BY DEF MemoryInv, NothingLeaks, Owned, Held
<1> QED
  BY <1>1, InitMemoryInv, NextMemoryInv, PTL DEF Spec

\* At the end the two buffers have been given back, and only they.
THEOREM ShutdownReleasesHolds == Spec => []ShutdownReleases
<1>1. MemoryInv => ShutdownReleases
  BY DEF MemoryInv
<1> QED
  BY <1>1, InitMemoryInv, NextMemoryInv, PTL DEF Spec

(***************************************************************************)
(* main() as a client of the malloc allocator.                             *)
(***************************************************************************)

\* The step of main() is a call that the allocator allows such a client, an
\* iteration of its clear, or none of its business.
LEMMA StepIsMallocStep == MemoryInv /\ [Next]_vars => [Malloc!Next]_(Malloc!vars)
<1> SUFFICES ASSUME MemoryInv, [Next]_vars PROVE Malloc!Next \/ UNCHANGED Malloc!vars
  OBVIOUS
<1>1. ASSUME UNCHANGED <<heap, cursor>>, {pc, pc'} \cap {"clear", "done"} = {} \/ pc' = pc
      PROVE  UNCHANGED Malloc!vars
  BY <1>1 DEF Malloc!vars, HeapPhase
<1>2. ASSUME Working PROVE Malloc!Usable /\ HeapPhase = "run"
  BY <1>2 DEF Working, Running, Malloc!Usable, HeapPhase
<1>3. CASE InitMemory \/ Load \/ Copy \/ ParseInit
  <2>1. /\ Working /\ HeapPhase' = "run" /\ UNCHANGED cursor
        /\ \E b \in Blocks \ heap.live : heap' = Malloc!MallocOp(heap, b)
    BY <1>3 DEF InitMemory, Load, Copy, ParseInit, Step, Take, Working, HeapPhase
  <2> QED
    BY <1>2, <2>1 DEF Malloc!Next, Malloc!Malloc
<1>4. CASE BeginText("number") \/ BeginText("name")
  <2>1. /\ Working /\ HeapPhase' = "run" /\ UNCHANGED cursor
        /\ \E b \in Blocks \ heap.live : heap' = Malloc!MallocOp(heap, b)
    BY <1>4 DEF BeginText, Step, Working, HeapPhase
  <2> QED
    BY <1>2, <2>1 DEF Malloc!Next, Malloc!Malloc
<1>5. ASSUME Working, pc = "text"
      PROVE  text.at \in Blocks /\ Malloc!MayFree(text.at) /\ Star(heap) /\ heap \in Malloc!Heap
  <2>1. /\ Held(heap, own, text.at) /\ text.at # NULL /\ text.at \in Malloc!Link /\ heap \in Malloc!Heap
    BY <1>5 DEF MemoryInv, PointersSet, Typed, Texts
  <2> QED
    BY <2>1 DEF Held, Malloc!MayFree, Malloc!Link
<1>6. CASE MoreText
  <2>1. Working /\ pc = "text" /\ pc' = "text" /\ UNCHANGED cursor
    BY <1>6 DEF MoreText, Step, Working
  <2>2. CASE heap' = heap
    BY <1>1, <2>1, <2>2
  <2>3. ASSUME NEW b \in Blocks \ heap.live, heap' = Grown(b) PROVE Malloc!Realloc
    <3>1. Malloc!MallocOp(heap, b).outcome = "ok"
      BY <1>5, <2>1, MallocOpIs DEF Star
    <3> QED
      BY <1>2, <1>5, <2>1, <2>3, <3>1 DEF Malloc!Realloc, Grown, HeapPhase
  <2> QED
    BY <1>6, <2>2, <2>3 DEF MoreText, Malloc!Next
<1>7. CASE EndText
  <2>1. Working /\ pc = "text" /\ pc' = "lex" /\ UNCHANGED cursor
    BY <1>7 DEF EndText, Step, Working
  <2>2. CASE heap' = heap
    BY <1>1, <2>1, <2>2
  <2>3. CASE heap' = Malloc!FreeOp(heap, text.at)
    BY <1>2, <1>5, <2>1, <2>3 DEF Malloc!Next, Malloc!Free, HeapPhase
  <2> QED
    BY <1>7, <2>2, <2>3 DEF EndText
<1>8. CASE NoFile \/ LexInit \/ OtherToken \/ LexError \/ LexEnd \/ MakeNode \/ ParseError \/ ParseEnd
             \/ PrintTree \/ Destroy
  <2>1. UNCHANGED <<heap, cursor>> /\ {pc, pc'} \cap {"clear", "done"} = {}
    BY <1>8 DEF NoFile, LexInit, OtherToken, LexError, LexEnd, MakeNode, ParseError, ParseEnd, PrintTree,
                Destroy, Step
  <2> QED
    BY <1>1, <2>1
<1>9. CASE AllocFails
  <2>1. /\ Working /\ UNCHANGED <<pc, cursor>> /\ heap' = [heap EXCEPT !.outcome = "null"]
    BY <1>9 DEF AllocFails, Working
  <2> QED
    BY <1>2, <2>1 DEF Malloc!Next, Malloc!MallocNull, HeapPhase
<1>10. CASE Shutdown
  <2>1. Working /\ pc' = "clear" /\ cursor' = heap.root /\ UNCHANGED heap
    BY <1>10 DEF Shutdown, Step, Working
  <2> QED
    BY <1>2, <2>1 DEF Malloc!Next, Malloc!Clear, HeapPhase
<1>11. CASE ClearBlock
  BY <1>11 DEF ClearBlock, Malloc!Next
<1>12. CASE ClearEnd
  BY <1>12 DEF ClearEnd, Malloc!Next
<1>13. CASE UNCHANGED vars
  BY <1>1, <1>13 DEF vars
<1> QED
  BY <1>3, <1>4, <1>6, <1>7, <1>8, <1>9, <1>10, <1>11, <1>12, <1>13 DEF Next

\* Step by step main() uses the malloc allocator as it must be used.
THEOREM ImplementsMallocHolds == Spec => ImplementsMalloc
<1>1. Init => Malloc!Init
  BY DEF Init
<1> QED
  BY <1>1, InitMemoryInv, NextMemoryInv, StepIsMallocStep, PTL DEF Spec, ImplementsMalloc

(***************************************************************************)
(* Types: the cursors of the linear buffers, the stream and the texts.     *)
(***************************************************************************)

\* A push needs an array with room for something: doubling it then makes room
\* for one more.
SizesInv ==
    /\ Stream!TypeOK /\ Nodes!TypeOK
    /\ tokens \in [length : Nat, capacity : Nat] /\ tokens.length <= tokens.capacity
    /\ text.length <= text.capacity
    /\ pc \in {"lex", "text"} => tokens.capacity > 0
    /\ pc = "text" => text.capacity > 0

\* With nothing to align, a block is cut off where the one before it ends.
LEMMA AlignedAlready == \A p \in Nat : Stream!AlignForward(p, 1) = p /\ Nodes!AlignForward(p, 1) = p
  BY DEF Stream!AlignForward, Nodes!AlignForward

\* Cutting off tokens keeps the types of their buffer, and of the nodes', which
\* is left alone.
LEMMA StreamCutKeeps ==
    ASSUME Stream!TypeOK, Nodes!TypeOK, NEW size \in Nat \ {0}, Stream!Cut(size, 1),
           UNCHANGED <<debug, ncurr, nblocks>>
    PROVE  Stream!TypeOK' /\ Nodes!TypeOK'
<1>1. tcurr \in Nat /\ Stream!AlignForward(tcurr, 1) = tcurr
  BY AlignedAlready DEF Stream!TypeOK
<1> DEFINE b == [from |-> tcurr, to |-> tcurr + size, alignment |-> 1]
<1>2. \/ aborted' = TRUE /\ UNCHANGED <<tcurr, tblocks>>
      \/ tcurr' = tcurr + size /\ tblocks' = tblocks \cup {b} /\ UNCHANGED aborted
  BY <1>1 DEF Stream!Cut
<1>3. b \in Stream!Block /\ b.from = tcurr /\ b.to = tcurr + size /\ b.from % b.alignment = 0
  BY <1>1 DEF Stream!Block
<1>4. \A c \in tblocks : c.to \in Nat
  BY DEF Stream!TypeOK, Stream!Block
<1> HIDE DEF b
<1>5. Nodes!TypeOK'
  BY <1>2 DEF Stream!TypeOK, Nodes!TypeOK
<1>6. Stream!TypeOK'
  <2>1. CASE aborted' = TRUE /\ UNCHANGED <<tcurr, tblocks>>
    BY <2>1 DEF Stream!TypeOK
  <2>2. CASE tcurr' = tcurr + size /\ tblocks' = tblocks \cup {b} /\ UNCHANGED aborted
    <3>1. tblocks' \subseteq Stream!Block /\ tcurr' \in Nat /\ tcurr' >= tcurr
      BY <1>1, <1>3, <2>2 DEF Stream!TypeOK
    <3>2. ASSUME NEW c \in tblocks'
          PROVE  0 <= c.from /\ c.from < c.to /\ c.to <= tcurr' /\ c.from % c.alignment = 0
      BY <1>1, <1>3, <1>4, <2>2, <3>1 DEF Stream!TypeOK
    <3>3. debug' \in BOOLEAN /\ aborted' \in BOOLEAN
      BY <2>2 DEF Stream!TypeOK
    <3> QED
      BY <1>1, <3>1, <3>2, <3>3 DEF Stream!TypeOK
  <2> QED
    BY <1>2, <2>1, <2>2
<1> QED
  BY <1>5, <1>6

\* Cutting off a node, likewise.
LEMMA NodeCutKeeps ==
    ASSUME Stream!TypeOK, Nodes!TypeOK, Nodes!Cut(1, 1), UNCHANGED <<debug, tcurr, tblocks>>
    PROVE  Stream!TypeOK' /\ Nodes!TypeOK'
<1>1. ncurr \in Nat /\ Nodes!AlignForward(ncurr, 1) = ncurr
  BY AlignedAlready DEF Nodes!TypeOK
<1> DEFINE b == [from |-> ncurr, to |-> ncurr + 1, alignment |-> 1]
<1>2. \/ aborted' = TRUE /\ UNCHANGED <<ncurr, nblocks>>
      \/ ncurr' = ncurr + 1 /\ nblocks' = nblocks \cup {b} /\ UNCHANGED aborted
  BY <1>1 DEF Nodes!Cut
<1>3. b \in Nodes!Block /\ b.from = ncurr /\ b.to = ncurr + 1 /\ b.from % b.alignment = 0
  BY <1>1 DEF Nodes!Block
<1>4. \A c \in nblocks : c.to \in Nat
  BY DEF Nodes!TypeOK, Nodes!Block
<1> HIDE DEF b
<1>5. Stream!TypeOK'
  BY <1>2 DEF Nodes!TypeOK, Stream!TypeOK
<1>6. Nodes!TypeOK'
  <2>1. CASE aborted' = TRUE /\ UNCHANGED <<ncurr, nblocks>>
    BY <2>1 DEF Nodes!TypeOK
  <2>2. CASE ncurr' = ncurr + 1 /\ nblocks' = nblocks \cup {b} /\ UNCHANGED aborted
    <3>1. nblocks' \subseteq Nodes!Block /\ ncurr' \in Nat /\ ncurr' >= ncurr
      BY <1>1, <1>3, <2>2 DEF Nodes!TypeOK
    <3>2. ASSUME NEW c \in nblocks'
          PROVE  0 <= c.from /\ c.from < c.to /\ c.to <= ncurr' /\ c.from % c.alignment = 0
      BY <1>1, <1>3, <1>4, <2>2, <3>1 DEF Nodes!TypeOK
    <3>3. debug' \in BOOLEAN /\ aborted' \in BOOLEAN
      BY <2>2 DEF Nodes!TypeOK
    <3> QED
      BY <1>1, <3>1, <3>2, <3>3 DEF Nodes!TypeOK
  <2> QED
    BY <1>2, <2>1, <2>2
<1> QED
  BY <1>5, <1>6

\* A push keeps the stream in its array.
LEMMA PushKeeps ==
    ASSUME SizesInv, tokens.capacity > 0, PushToken, UNCHANGED <<debug, ncurr, nblocks>>
    PROVE  /\ Stream!TypeOK' /\ Nodes!TypeOK'
           /\ tokens' \in [length : Nat, capacity : Nat]
           /\ tokens'.length <= tokens'.capacity /\ tokens'.capacity > 0
<1>1. CASE tokens.length < tokens.capacity
  BY <1>1 DEF PushToken, SizesInv, Stream!TypeOK, Nodes!TypeOK
<1>2. CASE ~(tokens.length < tokens.capacity)
  <2>1. /\ Stream!Cut(Header + 2 * tokens.capacity, 1)
        /\ tokens' = IF aborted' THEN tokens
                     ELSE [length |-> tokens.length + 1, capacity |-> 2 * tokens.capacity]
    BY <1>2 DEF PushToken
  <2>2. Header + 2 * tokens.capacity \in Nat \ {0}
    BY SizesAssumption DEF SizesInv
  <2>3. Stream!TypeOK' /\ Nodes!TypeOK'
    BY <2>1, <2>2, StreamCutKeeps DEF SizesInv
  <2> QED
    BY <2>1, <2>3 DEF SizesInv
<1> QED
  BY <1>1, <1>2

\* Every step of main() keeps the sizes.
LEMMA NextSizesInv == Typed /\ SizesInv /\ [Next]_vars => SizesInv'
<1> SUFFICES ASSUME Typed, SizesInv, [Next]_vars PROVE SizesInv'
  OBVIOUS
<1> USE DEF Step
<1>1. CASE \/ InitMemory \/ Load \/ NoFile \/ Copy \/ AllocFails \/ LexError \/ LexEnd \/ ParseInit
           \/ ParseError \/ ParseEnd \/ PrintTree \/ ClearBlock \/ ClearEnd \/ UNCHANGED vars
  <2>1. /\ UNCHANGED <<tokens, text, tcurr, tblocks, ncurr, nblocks, debug, aborted>>
        /\ pc' \in {"lex", "text"} => pc' = pc
    BY <1>1 DEF InitMemory, Load, NoFile, Copy, AllocFails, LexError, LexEnd, ParseInit, ParseError,
                ParseEnd, PrintTree, ClearBlock, ClearEnd, vars
  <2> QED
    BY <2>1 DEF SizesInv, Stream!TypeOK, Nodes!TypeOK
<1>2. CASE LexInit
  <2>1. Header + Capacity \in Nat \ {0}
    BY SizesAssumption
  <2>2. Stream!TypeOK' /\ Nodes!TypeOK'
    BY <1>2, <2>1, StreamCutKeeps DEF LexInit, SizesInv
  <2>3. /\ tokens'.length = 0 /\ tokens'.capacity = Capacity
        /\ tokens' \in [length : Nat, capacity : Nat] /\ UNCHANGED text /\ pc' = "lex"
    BY <1>2, SizesAssumption DEF LexInit
  <2> QED
    BY <2>2, <2>3, SizesAssumption DEF SizesInv
<1>3. CASE BeginText("number") \/ BeginText("name")
  <2>1. /\ text'.length = 1 /\ text'.capacity = 1 /\ pc = "lex"
        /\ UNCHANGED <<tokens, tcurr, tblocks, ncurr, nblocks, debug, aborted>>
    BY <1>3 DEF BeginText
  <2> QED
    BY <2>1 DEF SizesInv, Stream!TypeOK, Nodes!TypeOK
<1>4. CASE MoreText
  <2>1. text.length \in Nat /\ text.capacity \in Nat /\ text.length <= text.capacity /\ text.capacity > 0
    BY <1>4 DEF MoreText, Typed, Texts, SizesInv
  <2>2. text'.length <= text'.capacity /\ text'.capacity > 0
    <3>1. CASE text.length < text.capacity
      BY <1>4, <2>1, <3>1 DEF MoreText, Typed, Texts
    <3>2. CASE ~(text.length < text.capacity)
      <4>1. \E b \in Blocks : text' = [text EXCEPT !.at = b, !.length = @ + 1, !.capacity = 2 * @]
        BY <1>4, <3>2 DEF MoreText
      <4>2. text'.length = text.length + 1 /\ text'.capacity = 2 * text.capacity
        BY <4>1 DEF Typed, Texts
      <4> QED
        BY <2>1, <4>2
    <3> QED
      BY <3>1, <3>2
  <2>3. UNCHANGED <<pc, tokens, tcurr, tblocks, ncurr, nblocks, debug, aborted>>
    BY <1>4 DEF MoreText
  <2> QED
    BY <2>2, <2>3 DEF SizesInv, Stream!TypeOK, Nodes!TypeOK
<1>5. CASE EndText \/ OtherToken
  <2>1. /\ PushToken /\ UNCHANGED <<debug, ncurr, nblocks>> /\ pc \in {"lex", "text"} /\ pc' = "lex"
        /\ text'.length = text.length /\ text'.capacity = text.capacity
    BY <1>5 DEF EndText, OtherToken, Typed, Texts
  <2> QED
    BY <2>1, PushKeeps DEF SizesInv
<1>6. CASE MakeNode
  <2>1. Stream!TypeOK' /\ Nodes!TypeOK'
    BY <1>6, NodeCutKeeps DEF MakeNode, SizesInv
  <2> QED
    BY <1>6, <2>1 DEF MakeNode, SizesInv
<1>7. CASE Destroy \/ Shutdown
  <2>1. UNCHANGED <<tokens, text, debug, aborted>> /\ pc' \notin {"lex", "text"}
    BY <1>7 DEF Destroy, Shutdown, Stream!Clear, Nodes!Clear
  <2>2. (tcurr' = 0 /\ tblocks' = {}) \/ UNCHANGED <<tcurr, tblocks>>
    BY <1>7 DEF Destroy, Shutdown, Stream!Clear
  <2>3. (ncurr' = 0 /\ nblocks' = {}) \/ UNCHANGED <<ncurr, nblocks>>
    BY <1>7 DEF Destroy, Shutdown, Nodes!Clear
  <2> QED
    BY <2>1, <2>2, <2>3 DEF SizesInv, Stream!TypeOK, Nodes!TypeOK
<1> QED
  BY <1>1, <1>2, <1>3, <1>4, <1>5, <1>6, <1>7 DEF Next

\* They hold when main() begins.
LEMMA InitSizesInv == Init => SizesInv
<1> SUFFICES ASSUME Init PROVE SizesInv
  OBVIOUS
<1>1. Stream!TypeOK /\ Nodes!TypeOK
  <2>1. /\ debug \in BOOLEAN /\ aborted \in BOOLEAN
        /\ tcurr = 0 /\ tblocks = {} /\ ncurr = 0 /\ nblocks = {}
    BY DEF Init, Stream!Init, Nodes!Init
  <2> QED
    BY <2>1 DEF Stream!TypeOK, Nodes!TypeOK
<1>2. /\ tokens.length = 0 /\ tokens.capacity = 0 /\ text.length = 0 /\ text.capacity = 0
      /\ tokens \in [length : Nat, capacity : Nat] /\ pc = "start"
  BY DEF Init
<1> QED
  BY <1>1, <1>2 DEF SizesInv

\* Whatever the source, the stream fits its array and a text its own, and every
\* block of the linear buffers ends before their cursors.
THEOREM TypeCorrect == Spec => []TypeOK
<1>1. MemoryInv /\ SizesInv => TypeOK
  BY DEF MemoryInv, SizesInv, TypeOK, Typed, Places, Owners, Texts, Malloc!TypeOK, HeapPhase
<1>2. MemoryInv => Typed
  BY DEF MemoryInv
<1> QED
  BY <1>1, <1>2, InitSizesInv, NextSizesInv, InitMemoryInv, NextMemoryInv, PTL DEF Spec

(***************************************************************************)
(* What a stream costs.                                                    *)
(***************************************************************************)

\* Before the stream is made nothing is cut off; from then on the arrays lie
\* behind one another, each twice the one before.
Arrays ==
    /\ tcurr = 2 * tokens.capacity - Capacity + Header * Cardinality(tblocks)
    /\ Capacity * 2^(Cardinality(tblocks) - 1) = tokens.capacity
CostInv ==
    Working => /\ IsFiniteSet(tblocks)
               /\ tokens.capacity = 0 => tblocks = {} /\ tcurr = 0
               /\ tokens.capacity > 0 => tblocks # {} /\ Arrays
               /\ pc \in {"start", "load", "copy", "lex init"} => tokens.capacity = 0

\* A cut that fits adds one block to those there are.
LEMMA CutAddsOne ==
    ASSUME Stream!TypeOK, IsFiniteSet(tblocks), NEW size \in Nat \ {0}, Stream!Cut(size, 1), ~aborted'
    PROVE  /\ IsFiniteSet(tblocks') /\ tcurr' = tcurr + size
           /\ Cardinality(tblocks') = Cardinality(tblocks) + 1
<1>1. tcurr \in Nat /\ Stream!AlignForward(tcurr, 1) = tcurr
  BY AlignedAlready DEF Stream!TypeOK
<1> DEFINE b == [from |-> tcurr, to |-> tcurr + size, alignment |-> 1]
<1>2. tcurr' = tcurr + size /\ tblocks' = tblocks \cup {b}
  BY <1>1 DEF Stream!Cut
<1>3. b \notin tblocks
  <2>1. ASSUME NEW c \in tblocks PROVE c.to <= tcurr
    BY DEF Stream!TypeOK
  <2>2. b.to = tcurr + size
    OBVIOUS
  <2> HIDE DEF b
  <2> QED
    BY <1>1, <2>1, <2>2
<1> HIDE DEF b
<1>4. IsFiniteSet(tblocks \cup {b}) /\ Cardinality(tblocks \cup {b}) = Cardinality(tblocks) + 1
  BY <1>3, FS_AddElement
<1> QED
  BY <1>2, <1>4

\* A push keeps what the stream costs.
LEMMA PushKeepsCost ==
    ASSUME SizesInv, IsFiniteSet(tblocks), tblocks # {}, tokens.capacity > 0, Arrays, PushToken, ~aborted'
    PROVE  IsFiniteSet(tblocks') /\ tblocks' # {} /\ tokens'.capacity \in Nat \ {0} /\ Arrays'
<1>1. tokens.capacity \in Nat /\ tokens.length \in Nat
  BY DEF SizesInv
<1>2. CASE tokens.length < tokens.capacity
  <2>1. tokens'.capacity = tokens.capacity /\ UNCHANGED <<tcurr, tblocks>>
    BY <1>2 DEF PushToken, SizesInv
  <2>2. Arrays'
    <3>1. \A cap : tokens.capacity = cap => tokens'.capacity = cap
      BY <2>1
    <3> QED
      BY <2>1, <3>1, Zenon DEF Arrays
  <2> QED
    BY <1>1, <2>1, <2>2
<1>3. CASE ~(tokens.length < tokens.capacity)
  <2>1. Stream!Cut(Header + 2 * tokens.capacity, 1) /\ tokens'.capacity = 2 * tokens.capacity
    BY <1>3 DEF PushToken
  <2>2. Header + 2 * tokens.capacity \in Nat \ {0}
    BY <1>1, SizesAssumption
  <2>3. /\ IsFiniteSet(tblocks') /\ tcurr' = tcurr + (Header + 2 * tokens.capacity)
        /\ Cardinality(tblocks') = Cardinality(tblocks) + 1
    BY <2>1, <2>2, CutAddsOne DEF SizesInv
  <2>4. Cardinality(tblocks) \in Nat \ {0}
    BY FS_CardinalityType, FS_EmptySet
  <2>5. tblocks' # {}
    <3>1. Cardinality(tblocks') # 0
      BY <2>3, <2>4
    <3> QED
      BY <3>1, FS_EmptySet
  <2>6. tcurr \in Nat
    BY DEF SizesInv, Stream!TypeOK
  <2>7. /\ tcurr + (Header + 2 * tokens.capacity)
              = 2 * (2 * tokens.capacity) - Capacity + Header * (Cardinality(tblocks) + 1)
        /\ Capacity * 2^((Cardinality(tblocks) + 1) - 1) = 2 * tokens.capacity
    <3>1. Header \in Nat /\ Capacity \in Nat
      BY SizesAssumption
    <3>2. PICK n \in Nat \ {0} : n = Cardinality(tblocks)
      BY <2>4
    <3>3. n - 1 \in Nat /\ (n - 1) + 1 = n /\ (n + 1) - 1 = n
      OBVIOUS
    <3>4. PICK p \in Nat : p = 2^(n - 1) /\ 2^n = 2 * p
      BY <3>3, PowersOfTwo, Zenon
    <3>5. tcurr = 2 * tokens.capacity - Capacity + Header * n /\ Capacity * p = tokens.capacity
      BY <3>2, <3>4, Zenon DEF Arrays
    <3>6. Capacity * (2 * p) = 2 * tokens.capacity
      BY <3>1, <3>5
    <3>7. tcurr + (Header + 2 * tokens.capacity) = 2 * (2 * tokens.capacity) - Capacity + Header * (n + 1)
      <4>1. PICK m \in Nat : m = Header * n /\ Header * (n + 1) = m + Header
        BY <3>1
      <4>2. tcurr = 2 * tokens.capacity - Capacity + m
        BY <3>5, <4>1
      <4> QED
        BY <1>1, <3>1, <4>1, <4>2
    <3> QED
      BY <3>2, <3>3, <3>4, <3>6, <3>7, Zenon
  <2>8. Arrays'
    BY <2>1, <2>3, <2>7, Zenon DEF Arrays
  <2>9. tokens'.capacity \in Nat \ {0}
    BY <1>1, <2>1
  <2> QED
    BY <2>3, <2>5, <2>8, <2>9
<1> QED
  BY <1>2, <1>3

\* Every step of main() keeps it.
LEMMA NextCostInv == Typed /\ SizesInv /\ CostInv /\ [Next]_vars => CostInv'
<1> SUFFICES ASSUME Typed, SizesInv, CostInv, [Next]_vars PROVE CostInv'
  OBVIOUS
<1> USE DEF Step
<1>1. CASE UNCHANGED vars
  BY <1>1, Zenon DEF vars, CostInv, Working, Running, Arrays
<1>2. CASE Next
  <2>1. CASE AllocFails
    <3>1. heap'.outcome = "null"
      BY <2>1 DEF AllocFails, Running, Typed, Malloc!Heap
    <3>2. ~Working'
      BY <3>1 DEF Working, Running
    <3> QED
      BY <3>2 DEF CostInv
  <2>2. CASE LexInit
    <3>1. Working /\ pc = "lex init" /\ pc' = "lex"
      BY <2>2 DEF LexInit, Working
    <3>2. tblocks = {} /\ tcurr = 0
      <4>1. tokens.capacity = 0
        BY <3>1 DEF CostInv
      <4> QED
        BY <3>1, <4>1 DEF CostInv
    <3>3. IsFiniteSet(tblocks) /\ Cardinality(tblocks) = 0
      BY <3>2, FS_EmptySet
    <3>4. CASE aborted'
      BY <3>4 DEF CostInv, Working, Running
    <3>5. CASE ~aborted'
      <4>1. Header + Capacity \in Nat \ {0} /\ Capacity \in Nat \ {0} /\ Header \in Nat
        BY SizesAssumption
      <4>8. tokens'.capacity = Capacity /\ Stream!Cut(Header + Capacity, 1)
        BY <2>2 DEF LexInit
      <4>9. /\ IsFiniteSet(tblocks') /\ tcurr' = tcurr + (Header + Capacity)
            /\ Cardinality(tblocks') = Cardinality(tblocks) + 1
        BY <3>3, <3>5, <4>1, <4>8, CutAddsOne DEF SizesInv
      <4>2. IsFiniteSet(tblocks') /\ tcurr' = Header + Capacity /\ Cardinality(tblocks') = 1
        BY <3>2, <3>3, <4>1, <4>9
      <4>3. tblocks' # {}
        BY <4>2, FS_EmptySet
      <4>4. Header + Capacity = 2 * Capacity - Capacity + Header * 1
        BY <4>1
      <4>5. Capacity * 2^(1 - 1) = Capacity
        <5>1. 1 - 1 = 0 /\ Capacity * 1 = Capacity
          BY <4>1
        <5> QED
          BY <5>1, PowersOfTwo, Zenon
      <4>6. Arrays'
        BY <4>8, <4>2, <4>4, <4>5, Zenon DEF Arrays
      <4>7. tokens'.capacity > 0 /\ tokens'.capacity # 0
        BY <4>1, <4>8
      <4> QED
        BY <3>1, <4>2, <4>3, <4>6, <4>7 DEF CostInv
    <3> QED
      BY <3>4, <3>5
  <2>3. CASE EndText \/ OtherToken
    <3>1. Working /\ pc \in {"lex", "text"} /\ pc' = "lex" /\ PushToken /\ tokens.capacity > 0
      BY <2>3 DEF EndText, OtherToken, Working, SizesInv
    <3>2. IsFiniteSet(tblocks) /\ tblocks # {} /\ Arrays
      BY <3>1 DEF CostInv
    <3>3. CASE aborted'
      BY <3>3 DEF CostInv, Working, Running
    <3>4. CASE ~aborted'
      <4>1. IsFiniteSet(tblocks') /\ tblocks' # {} /\ tokens'.capacity \in Nat \ {0} /\ Arrays'
        BY <3>1, <3>2, <3>4, PushKeepsCost
      <4>2. tokens'.capacity > 0 /\ tokens'.capacity # 0
        BY <4>1
      <4> QED
        BY <3>1, <4>1, <4>2 DEF CostInv
    <3> QED
      BY <3>3, <3>4
  <2>4. CASE Shutdown \/ ClearBlock \/ ClearEnd
    <3>1. ~Working'
      BY <2>4 DEF Shutdown, ClearBlock, ClearEnd, Working
    <3> QED
      BY <3>1 DEF CostInv
  <2>5. CASE \/ InitMemory \/ Load \/ NoFile \/ Copy \/ BeginText("number") \/ BeginText("name") \/ MoreText
             \/ LexError \/ LexEnd \/ ParseInit \/ MakeNode \/ ParseError \/ ParseEnd \/ PrintTree \/ Destroy
    <3>1. /\ UNCHANGED <<tokens, tcurr, tblocks>> /\ Working
          /\ pc' \in {"start", "load", "copy", "lex init"} => pc \in {"start", "load", "copy", "lex init"}
      BY <2>5 DEF InitMemory, Load, NoFile, Copy, BeginText, MoreText, LexError, LexEnd, ParseInit, MakeNode,
                  ParseError, ParseEnd, PrintTree, Destroy, Working
    <3>2. Arrays => Arrays'
      BY <3>1, Zenon DEF Arrays
    <3> QED
      BY <3>1, <3>2 DEF CostInv
  <2> QED
    BY <1>2, <2>1, <2>2, <2>3, <2>4, <2>5 DEF Next
<1> QED
  BY <1>1, <1>2

\* At any time a stream has cost its last array twice over, less its first one,
\* and a header for every array it ever had: nothing it outgrew is given back.
THEOREM StreamCostHolds == Spec => []StreamCost
<1>1. Init => SizesInv /\ CostInv
  <2> SUFFICES ASSUME Init PROVE CostInv
    BY InitSizesInv
  <2>1. tcurr = 0 /\ tblocks = {} /\ tokens.capacity = 0
    BY DEF Init, Stream!Init
  <2> QED
    BY <2>1, FS_EmptySet DEF CostInv
<1>2. CostInv => StreamCost
  BY Zenon DEF CostInv, StreamCost, Arrays
<1>3. MemoryInv => Typed
  BY DEF MemoryInv
<1> QED
  BY <1>1, <1>2, <1>3, NextSizesInv, NextCostInv, InitMemoryInv, NextMemoryInv, PTL DEF Spec

(***************************************************************************)
(* Which streams stay in the buffer.                                       *)
(***************************************************************************)

\* An array that was grown into is more than half full.
HalfFull ==
    \/ tokens.capacity \in {0, Capacity}
    \/ tokens.capacity <= 2 * (tokens.length - 1)

LEMMA PushHalfFull == SizesInv /\ HalfFull /\ PushToken => HalfFull'
<1> SUFFICES ASSUME SizesInv, HalfFull, PushToken PROVE HalfFull'
  OBVIOUS
<1>1. tokens \in [length : Nat, capacity : Nat] /\ tokens.length <= tokens.capacity /\ Capacity \in Nat
  BY SizesAssumption DEF SizesInv
<1>2. CASE tokens.length < tokens.capacity
  <2>1. tokens'.length = tokens.length + 1 /\ tokens'.capacity = tokens.capacity
    BY <1>1, <1>2 DEF PushToken
  <2> QED
    BY <1>1, <2>1 DEF HalfFull
<1>3. CASE ~(tokens.length < tokens.capacity)
  <2>1. CASE aborted'
    BY <1>3, <2>1 DEF PushToken, HalfFull
  <2>2. CASE ~aborted'
    <3>1. tokens' = [length |-> tokens.length + 1, capacity |-> 2 * tokens.capacity]
      BY <1>3, <2>2 DEF PushToken
    <3>2. tokens'.length = tokens.length + 1 /\ tokens'.capacity = 2 * tokens.capacity
      BY <3>1
    <3> QED
      BY <1>1, <1>3, <3>2 DEF HalfFull
  <2> QED
    BY <2>1, <2>2
<1> QED
  BY <1>2, <1>3

\* Only the making of the stream and the pushes to it change its array.
LEMMA NextHalfFull == SizesInv /\ HalfFull /\ [Next]_vars => HalfFull'
<1> SUFFICES ASSUME SizesInv, HalfFull, [Next]_vars PROVE HalfFull'
  OBVIOUS
<1>1. CASE LexInit
  BY <1>1 DEF LexInit, HalfFull
<1>2. CASE EndText \/ OtherToken
  BY <1>2, PushHalfFull DEF EndText, OtherToken
<1>3. ASSUME UNCHANGED tokens PROVE HalfFull'
  BY <1>3 DEF HalfFull
<1>4. CASE UNCHANGED vars
  BY <1>3, <1>4 DEF vars
<1>5. CASE \/ InitMemory \/ Load \/ NoFile \/ Copy \/ AllocFails \/ BeginText("number") \/ BeginText("name")
           \/ MoreText \/ LexError \/ LexEnd \/ ParseInit \/ MakeNode \/ ParseError \/ ParseEnd \/ PrintTree
           \/ Destroy \/ Shutdown \/ ClearBlock \/ ClearEnd
  BY <1>3, <1>5 DEF InitMemory, Load, NoFile, Copy, AllocFails, BeginText, MoreText, LexError, LexEnd, ParseInit,
                    MakeNode, ParseError, ParseEnd, PrintTree, Destroy, Shutdown, ClearBlock, ClearEnd
<1> QED
  BY <1>1, <1>2, <1>4, <1>5 DEF Next

\* What a stream costs is less than its length allows for, so its blocks end
\* inside.
LEMMA CostFits == SizesInv /\ CostInv /\ HalfFull => StreamFits
<1> DEFINE headers == Header * Cardinality(tblocks)
<1> SUFFICES ASSUME SizesInv, CostInv, HalfFull, Working, Capacity + headers < StreamRoom,
                    4 * (tokens.length - 1) - Capacity + headers < StreamRoom, NEW b \in tblocks
             PROVE  b.to < StreamRoom
  BY DEF StreamFits
<1>1. /\ tokens.length \in Nat /\ tokens.capacity \in Nat
      /\ tcurr \in Nat /\ b.to \in Nat /\ b.to <= tcurr
  BY DEF SizesInv, Stream!TypeOK, Stream!Block
<1>2. tokens.capacity > 0 /\ tcurr = 2 * tokens.capacity - Capacity + headers
  <2>1. tokens.capacity # 0 /\ (tokens.capacity > 0 => Arrays)
    BY Zenon DEF CostInv
  <2>2. tokens.capacity > 0
    BY <1>1, <2>1
  <2> QED
    BY <2>1, <2>2 DEF Arrays
<1>3. headers \in Nat
  <2>1. Cardinality(tblocks) \in Nat
    BY FS_CardinalityType DEF CostInv
  <2> QED
    BY <2>1, SizesAssumption
<1> HIDE DEF headers
<1>4. CASE tokens.capacity = Capacity
  BY <1>1, <1>2, <1>3, <1>4, SizesAssumption
<1>5. CASE tokens.capacity <= 2 * (tokens.length - 1)
  BY <1>1, <1>2, <1>3, <1>5, SizesAssumption
<1> QED
  BY <1>1, <1>2, <1>4, <1>5 DEF HalfFull

\* For every source, as long as four times its tokens and the headers are less
\* than the room, the stream lies in the linear buffer (linear_malloc,
\* memory.c:108), whether or not the build asks.
THEOREM StreamFitsHolds == Spec => []StreamFits
<1>1. Init => SizesInv /\ CostInv /\ HalfFull
  <2> SUFFICES ASSUME Init PROVE CostInv /\ HalfFull
    BY InitSizesInv
  <2>1. tcurr = 0 /\ tblocks = {} /\ tokens.capacity = 0
    BY DEF Init, Stream!Init
  <2> QED
    BY <2>1, FS_EmptySet DEF CostInv, HalfFull
<1>2. MemoryInv => Typed
  BY DEF MemoryInv
<1> QED
  BY <1>1, <1>2, CostFits, NextSizesInv, NextCostInv, NextHalfFull, InitMemoryInv, NextMemoryInv, PTL DEF Spec
=============================================================================
