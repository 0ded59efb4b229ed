------------------------------ MODULE KernMem ------------------------------
(***************************************************************************)
(* Kernel memory: page frames, the kernel's address space and what is      *)
(* allocated in it (i386).                                                 *)
(*   src/kern/arch-i386/page.c    pg_alloc ... pg_dtphys                   *)
(*   src/kern/lib/malloc.c        kmalloc, free                            *)
(*   src/kern/lib/dma_malloc.c, phys_map.c                                 *)
(*                                                                         *)
(* Frames below D are kept in a map (pg_dma_map), the others on a stack    *)
(* (pg_flist).  The address space is N pages under page tables of T pages; *)
(* tables are allocated when first needed and stay.  The kernel is not     *)
(* preemptive and no interrupt handler allocates: a call is one action.    *)
(* krealloc is a kmalloc followed by a free.                               *)
(***************************************************************************)
EXTENDS Integers, SequencesExt

CONSTANTS N,         \* PAGE_DYN_COUNT, counted from PAGE_DYN
          T,         \* pages under a table (1024)
          Skip,      \* pages pg_adget skips where there is no table (4096)
          D,         \* pages of the DMA map (4096)
          W,         \* where pg_alloc_dma begins anew (15)
          Low,       \* free frames of the DMA map after pg_collect
          High,      \* the other free frames
          Sizes,     \* pages asked for
          MaxBlock   \* bound: allocations at a time

\* What the constants of an instance satisfy.
KernMemAssumption ==
    /\ {N, T, Skip, D, W} \subseteq Nat \ {0}
    /\ N % T = 0
    /\ Skip % T = 0
    /\ Low \subseteq 1..(D - 1)
    /\ IsFiniteSet(High)
    /\ High \subseteq Nat \ (0..(D - 1))
    /\ Sizes \subseteq Nat \ {0}
    /\ MaxBlock \in Nat

VARIABLES
    flist,     \* pg_flist up to pg_nfree
    dma,       \* pg_dma_map: the free frames
    dir,       \* frames of the page tables, 0 for none
    tab,       \* page table entries: None, Space, Device or a frame
    vfree,     \* pg_vfree
    blocks,    \* the allocations: kind, first page, pages
    user,      \* frames user memory has taken (module UserMem)
    bad        \* "panic", or "past": a range past the end of the address space

vars == <<flist, dma, dir, tab, vfree, blocks, user, bad>>

None == 0
Space == -1
Device == -2
KernPage == 0..(N - 1)
KernTable == 0..(N \div T - 1)
KernFrame == Low \cup High
Kinds == {"mem", "dma", "phys"}

TypeOK ==
    /\ flist \in Seq(High)
    /\ dma \in SUBSET Low
    /\ dir \in [KernTable -> KernFrame \cup {0}]
    /\ tab \in [KernPage -> KernFrame \cup {None, Space, Device}]
    /\ vfree \in 0..N
    /\ \A b \in blocks : /\ b.kind \in Kinds
                         /\ b.first \in KernPage
                         /\ b.n \in 1..N
    /\ user \in SUBSET KernFrame
    /\ bad \in {"", "panic", "past"}

\* pg_init: pg_collect frees every frame.
Init ==
    /\ flist = SetToSortSeq(High, LAMBDA x, y : x < y)
    /\ dma = Low
    /\ dir = [k \in KernTable |-> 0]
    /\ tab = [p \in KernPage |-> None]
    /\ vfree = N
    /\ blocks = {}
    /\ user = {}
    /\ bad = ""

----------------------------------------------------------------------------
(* Frames.  A pool is the pair of the stack and the map.                    *)

Pool == [flist |-> flist, dma |-> dma]

\* Where pg_alloc_dma finds s free frames in a row, or -1.  It looks for the end of
\* the row at frames below D.
DmaFind(free, s) ==
    LET start[i \in 0..D] ==
            IF i = 0 THEN 0
            ELSE IF (i - 1) \notin free THEN i
            ELSE IF (i - 1) % W = 0 THEN i - 1
            ELSE start[i - 1]
        hits == {i \in 0..(D - 1) : i - start[i] >= s}
    IN  IF hits = {} THEN -1 ELSE start[Min(hits)]

\* pg_alloc n times from a pool: the frames, and what is left.
Take(pool, n) ==
    LET taken[k \in 0..n] ==
            IF k = 0 THEN [pool |-> pool, got |-> <<>>]
            ELSE LET t == taken[k - 1]
                     f == DmaFind(t.pool.dma, 1)
                 IN  IF t.pool.flist # <<>>
                     THEN [pool |-> [t.pool EXCEPT !.flist = Front(@)],
                           got |-> Append(t.got, Last(t.pool.flist))]
                     ELSE IF f # -1
                     THEN [pool |-> [t.pool EXCEPT !.dma = @ \ {f}],
                           got |-> Append(t.got, f)]
                     ELSE t
    IN  taken[n]

\* pg_free of a sequence of frames.
Give(pool, frames) ==
    [flist |-> pool.flist \o SelectSeq(frames, LAMBDA f : f >= D),
     dma |-> pool.dma \cup {f \in Range(frames) : f < D}]

SetPool(pool) ==
    /\ flist' = pool.flist
    /\ dma' = pool.dma

----------------------------------------------------------------------------
(* Address space.                                                           *)

\* The search of pg_adget for s pages: the first page, or -1 when the space is
\* full.  The end of the space is looked at only while the run is too short.
Search(s) ==
    LET go[i \in 0..(N + Skip), st \in 0..N] ==
            IF i - st >= s THEN st
            ELSE IF i >= N THEN -1
            ELSE IF dir[i \div T] = 0 THEN go[i + Skip, st]
            ELSE IF tab[i] # None THEN go[i + 1, i + 1]
            ELSE go[i + 1, st]
    IN  go[0, 0]

\* The tables a range needs that are not there yet, in order.
Missing(first, s) ==
    SetToSortSeq({k \in (first \div T)..((first + s + T - 1) \div T - 1) : dir[k] = 0},
                 LAMBDA x, y : x < y)

\* Mutant: tables are kept only when there are frames for all of them.
Tables_All(ks, fs) ==
    [k \in KernTable |-> IF Len(fs) = Len(ks) /\ \E j \in 1..Len(fs) : ks[j] = k
                     THEN fs[CHOOSE j \in 1..Len(fs) : ks[j] = k]
                     ELSE dir[k]]

\* The directory with the first tables of ks in the frames fs.
Tables(ks, fs) ==
    [k \in KernTable |-> IF \E j \in 1..Len(fs) : ks[j] = k
                     THEN fs[CHOOSE j \in 1..Len(fs) : ks[j] = k]
                     ELSE dir[k]]

Pages(first, n) == first..(first + n - 1)

\* pg_adget(s) and then attaching n of its pages to the frames fs(pool).  When that
\* is ENOMEM the pages are given back, but the tables stay.
Place(kind, s, n, fs(_)) ==
    LET first == Search(s)
        need == Missing(first, s)
        t == Take(Pool, Len(need))
        r == fs(t.pool)
    IN  /\ bad = ""
        /\ Cardinality(blocks) < MaxBlock
        /\ first # -1
        /\ UNCHANGED user
        /\ IF first + s > N
           THEN bad' = "past" /\ UNCHANGED <<flist, dma, dir, tab, vfree, blocks>>
           ELSE IF Len(t.got) = Len(need) /\ r.res = "panic"
           THEN bad' = "panic" /\ UNCHANGED <<flist, dma, dir, tab, vfree, blocks>>
           ELSE IF Len(t.got) < Len(need) \/ r.res = "nomem"
           THEN /\ SetPool(t.pool)
                /\ dir' = Tables(need, t.got)
                /\ UNCHANGED <<tab, vfree, blocks, bad>>
           ELSE /\ SetPool(r.pool)
                /\ dir' = Tables(need, t.got)
                /\ tab' = [p \in KernPage |->
                              IF p \in Pages(first, n) THEN r.got[p - first + 1]
                              ELSE IF p \in Pages(first, s) THEN Space
                              ELSE tab[p]]
                /\ vfree' = vfree - s
                /\ blocks' = blocks \cup {[kind |-> kind, first |-> first, n |-> s]}
                /\ UNCHANGED bad

----------------------------------------------------------------------------
(* Allocations.                                                             *)

Enough(pool, n) == Len(pool.flist) + Cardinality(pool.dma) >= n

\* The result of attaching the frames of t, which should be n.
Result(t, n) == [res |-> IF Len(t.got) = n THEN "ok" ELSE "panic", pool |-> t.pool, got |-> t.got]
NoMem(pool) == [res |-> "nomem", pool |-> pool, got |-> <<>>]

\* pg_atmem: ENOMEM when there are too few frames; after that pg_alloc must not fail.
Attach(pool, n) ==
    IF Enough(pool, n) THEN Result(Take(pool, n), n) ELSE NoMem(pool)

kmalloc(n) == Place("mem", n, n, LAMBDA pool : Attach(pool, n))

\* pg_atdma.
AttachDma(pool, n) ==
    LET f == DmaFind(pool.dma, n)
    IN  IF f = -1 THEN NoMem(pool)
        ELSE [res |-> "ok",
              pool |-> [pool EXCEPT !.dma = @ \ (f..(f + n - 1))],
              got |-> [i \in 1..n |-> f + i - 1]]

\* A page more than asked for is reserved.
dma_malloc(n) == Place("dma", n + 1, n, LAMBDA pool : AttachDma(pool, n))

\* pg_atphys: the frames are a device's.
phys_map(n) == Place("phys", n, n, LAMBDA pool :
    [res |-> "ok", pool |-> pool, got |-> [i \in 1..n |-> Device]])

\* The pages pg_adput clears.
Unmapped(b) == Pages(b.first, b.n)

\* The frames of a block, which pg_dtmem and pg_dtdma free.
Frees(b) == SelectSeq([i \in 1..b.n |-> tab[b.first + i - 1]], LAMBDA f : f > 0)

\* free, dma_free and phys_unmap.
Release(b) ==
    /\ bad = ""
    /\ b \in blocks
    /\ SetPool(Give(Pool, Frees(b)))
    /\ tab' = [p \in KernPage |-> IF p \in Unmapped(b) THEN None ELSE tab[p]]
    /\ vfree' = vfree + b.n
    /\ blocks' = blocks \ {b}
    /\ UNCHANGED <<dir, user, bad>>

\* User memory takes a frame (pg_alloc) and gives it back (pg_free).
UserTakes ==
    LET t == Take(Pool, 1)
    IN  /\ bad = ""
        /\ t.got # <<>>
        /\ SetPool(t.pool)
        /\ user' = user \cup Range(t.got)
        /\ UNCHANGED <<dir, tab, vfree, blocks, bad>>

UserGives(f) ==
    /\ bad = ""
    /\ f \in user
    /\ SetPool(Give(Pool, <<f>>))
    /\ user' = user \ {f}
    /\ UNCHANGED <<dir, tab, vfree, blocks, bad>>

Next ==
    \/ \E n \in Sizes : kmalloc(n) \/ dma_malloc(n) \/ phys_map(n)
    \/ \E b \in blocks : Release(b)
    \/ UserTakes
    \/ \E f \in user : UserGives(f)

Spec == Init /\ [][Next]_vars

----------------------------------------------------------------------------
(* Properties.                                                              *)

Tabled == {k \in KernTable : dir[k] # 0}
Mapped == {p \in KernPage : tab[p] > 0}

\* Every frame is at exactly one place: free, a page table, a page of a block, or
\* user memory.  None is lost when an allocation fails halfway.
FramesOnce ==
    /\ Range(flist) \cup dma \cup user
           \cup {dir[k] : k \in Tabled} \cup {tab[p] : p \in Mapped} = KernFrame
    /\ Len(flist) + Cardinality(dma) + Cardinality(user)
           + Cardinality(Tabled) + Cardinality(Mapped) = Cardinality(KernFrame)

\* Blocks do not overlap, their pages and no others are marked in the page table,
\* all under tables that are there, and pg_vfree counts the rest.
SpaceRight ==
    /\ \A b, c \in blocks : b # c => Pages(b.first, b.n) \cap Pages(c.first, c.n) = {}
    /\ {p \in KernPage : tab[p] # None} = UNION {Pages(b.first, b.n) : b \in blocks}
    /\ \A p \in KernPage : tab[p] # None => dir[p \div T] # 0
    /\ vfree = Cardinality({p \in KernPage : tab[p] = None})

\* Frames and the address space are accounted for at every step.
KernMemRight == TypeOK /\ FramesOnce /\ SpaceRight

\* pg_atmem has counted the frames before it takes them: pg_alloc does not fail then.
NoPanic == bad # "panic"

\* pg_adget returns a range of the kernel's address space, while no request is larger
\* than a table: where a table is missing the search skips without a look at the end.
InSpace == bad # "past"
=============================================================================
