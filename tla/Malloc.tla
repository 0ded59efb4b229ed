------------------------------- MODULE Malloc -------------------------------
(***************************************************************************)
(* The heap of the C library (src/lib/stdlib/malloc.c).                    *)
(*                                                                         *)
(* Small blocks lie in one area, a chain of chunks each after its header;  *)
(* malloc walks the chain from the beginning, joins free chunks it passes  *)
(* and takes the first that fits.  Other blocks are runs of pages, marked  *)
(* in page_map and asked for with _pg_alloc.  Sizes and addresses are in   *)
(* words of 4 bytes; memory is modelled to see who writes over whom: a     *)
(* word holds the mark of the block whose program filled it, or Header.    *)
(* calloc is malloc and a memset of the block.                             *)
(***************************************************************************)
EXTENDS Integers, FiniteSetsExt, SequencesExt

CONSTANTS Small,     \* words of the area of small blocks (NR_SMALL_PAGES pages)
          PageSize,  \* words of a page (1024)
          Pages,     \* pages from first_page to PAGE_HEAP_END
          Sizes,     \* sizes programs ask for
          MaxLive    \* bound: blocks at a time

HeadSize == 4        \* sizeof(struct small_head)
Align(n) == ((n + 3) \div 4) * 4

\* What the constants of an instance satisfy.
MallocAssumption ==
    /\ Small \in Nat /\ Small % 4 = 0 /\ Small >= HeadSize
    /\ {PageSize, Pages, MaxLive} \subseteq Nat \ {0}
    /\ Sizes \subseteq Nat

VARIABLES
    chunks,    \* the chain: size (with its header) and free, in order of address
    page_map,  \* pages marked as taken
    lost,      \* of these, the ones whose _pg_alloc failed
    live,      \* the program's blocks: mark, address, size, small or not
    mem        \* who wrote a word last

vars == <<chunks, page_map, lost, live, mem>>

Mark == 1..MaxLive
Header == 0
Blank == -1
Word == 0..(Small + Pages * PageSize - 1)
PageNo == 0..(Pages - 1)
Words(a, n) == a..(a + n - 1)
PageAddr(p) == Small + p * PageSize

TypeOK ==
    /\ chunks \in Seq([size : 1..Small, free : BOOLEAN])
    /\ page_map \in SUBSET PageNo
    /\ lost \in SUBSET page_map
    /\ \A b \in live : b.mark \in Mark /\ Words(b.at, b.size) \subseteq Word
    /\ mem \in [Word -> Mark \cup {Header, Blank}]

\* __libc_malloc_init.
Init ==
    /\ chunks = <<[size |-> Small, free |-> TRUE]>>
    /\ page_map = {}
    /\ lost = {}
    /\ live = {}
    /\ mem = [w \in Word |-> IF w < HeadSize THEN Header ELSE Blank]

----------------------------------------------------------------------------
(* Small blocks.                                                            *)

\* Where chunk i of a chain begins.
ChunkAt(cs, i) ==
    LET at[k \in 1..i] == IF k = 1 THEN 0 ELSE at[k - 1] + cs[k - 1].size
    IN  at[i]

Replace(cs, i, j, new) == SubSeq(cs, 1, i - 1) \o new \o SubSeq(cs, j + 1, Len(cs))

\* The walk of small_malloc for a chunk of s words: where it ends (0 for NULL) and the
\* chain it leaves.  A round joins a chunk with the next, takes it, or goes on.
Walk(s) ==
    LET after[n \in 0..(2 * Len(chunks))] ==
            IF n = 0 THEN [cs |-> chunks, i |-> 1, done |-> FALSE]
            ELSE LET w == after[n - 1]
                     cs == w.cs
                     c == cs[w.i]
                     end == w.i = Len(cs)
                 IN  IF w.done THEN w
                     ELSE IF ~end /\ c.free /\ cs[w.i + 1].free
                     THEN [w EXCEPT !.cs = Replace(cs, w.i, w.i + 1,
                               <<[size |-> c.size + cs[w.i + 1].size, free |-> TRUE]>>)]
                     ELSE IF c.free /\ c.size = s
                     THEN [w EXCEPT !.cs = [cs EXCEPT ![w.i].free = FALSE], !.done = TRUE]
                     ELSE IF c.free /\ c.size >= s + HeadSize
                     THEN [w EXCEPT !.cs = Replace(cs, w.i, w.i,
                               <<[size |-> s, free |-> FALSE], [size |-> c.size - s, free |-> TRUE]>>),
                                    !.done = TRUE]
                     ELSE IF end THEN [w EXCEPT !.i = 0, !.done = TRUE]
                     ELSE [w EXCEPT !.i = @ + 1]
    IN  after[2 * Len(chunks)]

\* The memory after the walk: the header of what a chunk was split from is new.
Headers(w) ==
    LET at == ChunkAt(w.cs, w.i + 1)
    IN  IF w.i < Len(w.cs) /\ w.cs[w.i + 1].free
        THEN [a \in Word |-> IF a \in Words(at, HeadSize) THEN Header ELSE mem[a]]
        ELSE mem

----------------------------------------------------------------------------
(* Other blocks.                                                            *)

\* Pages for n words and their size.
PageCount(n) == (n + 1 + PageSize - 1) \div PageSize

\* The first run of unmarked pages that holds n words and the size before them, or -1.
FindRun(n) ==
    LET runs == {p \in PageNo : Words(p, PageCount(n)) \subseteq PageNo \ page_map}
    IN  IF runs = {} THEN -1 ELSE Min(runs)

----------------------------------------------------------------------------
(* malloc, free, realloc.  Allot gives the block's address, -1 for NULL, and *)
(* the heap after it; ok is whether the kernel grants the pages.             *)

HeapState == [chunks |-> chunks, map |-> page_map, lost |-> lost, mem |-> mem]

Allot(n, ok) ==
    LET w == Walk(n + HeadSize)
        walked == n < PageSize - 1
        chain == IF walked THEN w.cs ELSE chunks
        p == FindRun(n)
        ps == Words(p, PageCount(n))
    IN  IF walked /\ w.i # 0
        THEN [at |-> ChunkAt(w.cs, w.i) + HeadSize, small |-> TRUE,
              heap |-> [HeapState EXCEPT !.chunks = chain, !.mem = Headers(w)]]
        ELSE IF p = -1
        THEN [at |-> -1, small |-> FALSE, heap |-> [HeapState EXCEPT !.chunks = chain]]
        ELSE IF ~ok
        THEN [at |-> -1, small |-> FALSE,
              heap |-> [HeapState EXCEPT !.chunks = chain, !.map = @ \cup ps, !.lost = @ \cup ps]]
        ELSE [at |-> PageAddr(p) + 1, small |-> FALSE,
              heap |-> [HeapState EXCEPT !.chunks = chain, !.map = @ \cup ps,
                                    !.mem = [@ EXCEPT ![PageAddr(p)] = Header]]]

\* The heap after a block is given back: a small one is marked, a large one's pages
\* are unmarked and go back to the kernel.
Given(h, b) ==
    IF b.small
    THEN [h EXCEPT !.chunks = [i \in DOMAIN h.chunks |->
             IF ChunkAt(h.chunks, i) = b.at - HeadSize THEN [h.chunks[i] EXCEPT !.free = TRUE]
             ELSE h.chunks[i]]]
    ELSE LET first == (b.at - 1 - Small) \div PageSize
             ps == Words(first, PageCount(b.size))
         IN  [h EXCEPT !.map = @ \ ps,
                       !.mem = [a \in Word |->
                           IF a >= Small /\ (a - Small) \div PageSize \in ps THEN Blank
                           ELSE h.mem[a]]]

SetHeap(h) ==
    /\ chunks' = h.chunks
    /\ page_map' = h.map
    /\ lost' = h.lost
    /\ mem' = h.mem

\* The program fills its block.
Filled(m, b) == [a \in Word |-> IF a \in Words(b.at, b.size) THEN b.mark ELSE m[a]]

NewMark == Min(Mark \ {b.mark : b \in live})

malloc(n, ok) ==
    /\ Cardinality(live) < MaxLive
    /\ \E r \in {Allot(Align(n), ok)} :
        IF r.at = -1
        THEN SetHeap(r.heap) /\ UNCHANGED live
        ELSE LET b == [mark |-> NewMark, at |-> r.at, size |-> Align(n), small |-> r.small]
             IN  /\ SetHeap([r.heap EXCEPT !.mem = Filled(@, b)])
                 /\ live' = live \cup {b}

free(b) ==
    /\ SetHeap(Given(HeapState, b))
    /\ live' = live \ {b}

\* Mutant: the last word is left.
Copied_Short(m, a, b, n) == [w \in Word |-> IF w \in Words(b, n - 1) THEN m[w - b + a] ELSE m[w]]

\* The memory after n words at a were copied to b.
Copied(m, a, b, n) == [w \in Word |-> IF w \in Words(b, n) THEN m[w - b + a] ELSE m[w]]

\* realloc: the lesser size is copied, and the old block is given back.  The program
\* fills what is new.
realloc(b, n, ok) ==
    IF b.size = Align(n) THEN UNCHANGED vars
    ELSE \E r \in {Allot(Align(n), ok)} :
        IF r.at = -1
        THEN SetHeap(r.heap) /\ UNCHANGED live
        ELSE LET c == [mark |-> b.mark, at |-> r.at, size |-> Align(n), small |-> r.small]
                 keep == Min({b.size, c.size})
                 more == [c EXCEPT !.at = @ + keep, !.size = @ - keep]
             IN  /\ SetHeap(Given([r.heap EXCEPT !.mem = Filled(Copied(@, b.at, c.at, keep), more)], b))
                 /\ live' = (live \ {b}) \cup {c}

Next ==
    \/ \E n \in Sizes, ok \in BOOLEAN : malloc(n, ok)
    \/ \E b \in live : free(b)
    \/ \E b \in live, n \in Sizes, ok \in BOOLEAN : realloc(b, n, ok)

Spec == Init /\ [][Next]_vars

----------------------------------------------------------------------------
(* Properties.                                                              *)

\* A block keeps what the program put into it, through every call for other blocks and
\* its own realloc, and no header of the chain is overwritten ("heap corruption
\* detected").
ContentsKept ==
    /\ \A b \in live : \A a \in Words(b.at, b.size) : mem[a] = b.mark
    /\ \A i \in DOMAIN chunks : \A a \in Words(ChunkAt(chunks, i), HeadSize) : mem[a] = Header

\* The chain covers the area, its taken chunks are the program's small blocks and no
\* others, and the marked pages are the other blocks' and those that were lost.
HeapRight ==
    /\ ChunkAt(chunks, Len(chunks) + 1) = Small
    /\ {<<ChunkAt(chunks, i) + HeadSize, chunks[i].size - HeadSize>> :
            i \in {j \in DOMAIN chunks : ~chunks[j].free}}
       = {<<b.at, b.size>> : b \in {c \in live : c.small}}
    /\ page_map = lost \cup UNION {Words((b.at - 1 - Small) \div PageSize, PageCount(b.size)) :
                                       b \in {c \in live : ~c.small}}

\* The free words from chunk i on, as far as there is no taken chunk.
FreeRun(i) ==
    LET js == {j \in i..Len(chunks) : \A k \in i..j : chunks[k].free}
    IN  ChunkAt(chunks, Max(js) + 1) - ChunkAt(chunks, i)

\* small_malloc fails only when no stretch between two taken chunks fits, however it
\* was cut up before: freeing joins nothing, the next walk does.
FindsRoom ==
    \A n \in Sizes :
        LET s == Align(n) + HeadSize
            starts == {i \in DOMAIN chunks : chunks[i].free /\ (i = 1 \/ ~chunks[i - 1].free)}
        IN  (Walk(s).i = 0) <=> \A i \in starts : FreeRun(i) # s /\ FreeRun(i) < s + HeadSize

\* The heap is right between any two calls.
MallocRight == TypeOK /\ ContentsKept /\ HeapRight /\ FindsRoom

\* A state but for the names of the blocks' marks and what words nobody uses hold.
Nameless ==
    <<chunks, page_map, lost, {<<b.at, b.size, b.small>> : b \in live}, ContentsKept>>
=============================================================================
