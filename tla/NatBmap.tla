------------------------------ MODULE NatBmap ------------------------------
(***************************************************************************)
(* The block map of one file of the native file system and the block       *)
(* bitmap it is allocated from (src/kern/fs/nat/bmap.c).                    *)
(*                                                                         *)
(* The bitmap is a row of blocks of which one is held in bam_buf; going to *)
(* another writes the held one back first.  A file's blocks are the leaves *)
(* of trees of Lev levels under the slots of its header, but for the first *)
(* NDir slots, which are blocks of the file themselves.  nat_bmap walks to *)
(* a logical block and may allocate on its way; the device may fail at any *)
(* step, and what was done until then stays.  nat_trunc frees the blocks   *)
(* one after the other.  A call is not interrupted by another one: the     *)
(* steps follow its loop.                                                  *)
(***************************************************************************)
EXTENDS Integers, Sequences, FiniteSets, SequencesExt

CONSTANTS NBam,      \* bam_size: blocks of the bitmap
          Per,       \* bits of a bitmap block (BLK_SIZE * 8)
          Other,     \* blocks of the super block, the bitmap and other files
          NDir,      \* ndirblks
          NMap,      \* slots of the header (NAT_NBLKS)
          Lev,       \* nindirlev
          Fan,       \* numbers in an indirect block (128)
          MaxLog,    \* bound: logical blocks asked for
          MaxErr     \* bound: failing transfers

\* What the constants of an instance satisfy.
BmapAssumption ==
    /\ {NBam, Per, NMap, Fan} \subseteq Nat \ {0}
    /\ Lev \in 1..8
    /\ NDir \in 0..NMap
    /\ 0 \in Other
    /\ Other \subseteq 0..(NBam * Per - 1)
    /\ MaxLog \in Nat
    /\ MaxErr \in Nat

VARIABLES
    bam,      \* the bitmap blocks on the device: sets of used blocks
    curr,     \* bam_curr: the bitmap block in bam_buf, or None
    buf,      \* bam_buf
    dirty,    \* bam_dirty
    bmap,     \* the header's slots, 0 for none
    imap,     \* the contents of indirect blocks
    blocks,   \* fso->blocks
    cache,    \* bmap_valid, bmap_log, bmap_phys
    walk,     \* the call in progress: [log, alloc, bn, indl], or NoWalk
    todo,     \* blocks nat_trunc has still to free, in its order
    errs,     \* failing transfers so far
    leaked    \* history: blocks the bitmap keeps that nobody refers to
              \* after a failing transfer

vars == <<bam, curr, buf, dirty, bmap, imap, blocks, cache, walk, todo, errs, leaked>>

FsBlk == 0..(NBam * Per - 1)
Bam == 0..(NBam - 1)
None == -1
Index == 0..(Fan - 1)
Slot == 0..(NMap - 1)
Log == 0..MaxLog
Of(i) == {b \in FsBlk : b \div Per = i}
Idle == walk.indl = -1 /\ todo = <<>>
NoWalk == [log |-> 0, alloc |-> FALSE, bn |-> 0, indl |-> -1]
Empty == [i \in Index |-> 0]
Shift(k) == Fan ^ k

TypeOK ==
    /\ bam \in [Bam -> SUBSET FsBlk]
    /\ curr \in Bam \cup {None}
    /\ buf \in SUBSET FsBlk
    /\ dirty \in BOOLEAN
    /\ bmap \in [Slot -> FsBlk]
    /\ imap \in [FsBlk -> [Index -> FsBlk]]
    /\ blocks \in Nat
    /\ cache \in [valid : BOOLEAN, log : Log, phys : FsBlk]
    /\ walk \in [log : Log, alloc : BOOLEAN, bn : FsBlk, indl : -1..Lev]
    /\ todo \in Seq(FsBlk)
    /\ errs \in 0..MaxErr
    /\ leaked \in SUBSET FsBlk

\* A new, empty file.
Init ==
    /\ bam = [i \in Bam |-> Other \cap Of(i)]
    /\ curr = None
    /\ buf = {}
    /\ dirty = FALSE
    /\ bmap = [s \in Slot |-> 0]
    /\ imap = [b \in FsBlk |-> Empty]
    /\ blocks = 1
    /\ cache = [valid |-> FALSE, log |-> 0, phys |-> 0]
    /\ walk = NoWalk
    /\ todo = <<>>
    /\ errs = 0
    /\ leaked = {}

----------------------------------------------------------------------------
(* The bitmap.                                                              *)

\* What the bitmap says, the held block included.
Used == UNION {IF i = curr THEN buf ELSE bam[i] : i \in Bam}

\* Mutant: the held block is dropped.
Synced_Drop == bam

\* nat_sync_bam: what the device holds afterwards.
Synced == IF dirty THEN [bam EXCEPT ![curr] = buf] ELSE bam

\* nat_switch_bam to block i: the held block is written back first.
SwitchTo(i) ==
    IF i = curr THEN [bam |-> bam, buf |-> buf, dirty |-> dirty]
                ELSE [bam |-> Synced, buf |-> Synced[i], dirty |-> FALSE]

\* The blocks nat_balloc looks at before it finds a free one in block i are
\* those below i: each is switched to in turn.
FreeIn(i) == Of(i) \ (IF i = curr THEN buf ELSE bam[i])
FoundIn == {i \in Bam : FreeIn(i) # {} /\ \A j \in 0..(i - 1) : FreeIn(j) = {}}

\* The bitmap after nat_balloc's walk has come to block i: the held block was
\* written back unless the walk ended in it at once.
AfterWalk(i) == IF curr = 0 /\ i = 0 THEN SwitchTo(0)
                ELSE [bam |-> Synced, buf |-> Synced[i], dirty |-> FALSE]

\* nat_balloc finds block b.
nat_balloc(b) ==
    \E i \in FoundIn :
        /\ b = Min(FreeIn(i))
        /\ bam' = AfterWalk(i).bam
        /\ buf' = AfterWalk(i).buf \cup {b}
        /\ dirty' = TRUE
        /\ curr' = i

\* nat_balloc finds nothing, in the last block.
NoSpace ==
    /\ FoundIn = {}
    /\ bam' = AfterWalk(NBam - 1).bam
    /\ buf' = AfterWalk(NBam - 1).buf
    /\ dirty' = AfterWalk(NBam - 1).dirty
    /\ curr' = NBam - 1

\* nat_switch_bam cannot read the block it wants: none is held then.
SwitchFails ==
    /\ errs < MaxErr
    /\ errs' = errs + 1
    /\ bam' = Synced
    /\ dirty' = FALSE
    /\ curr' = None
    /\ UNCHANGED buf

\* nat_balloc fails, by a bitmap block it cannot read or in the last one.
BallocFails ==
    \/ NoSpace /\ UNCHANGED errs
    \/ ~(curr = 0 /\ 0 \in FoundIn) /\ SwitchFails

\* nat_sync (sync, umount).
Sync ==
    /\ Idle
    /\ dirty
    /\ bam' = Synced
    /\ dirty' = FALSE
    /\ UNCHANGED <<curr, buf, bmap, imap, blocks, cache, walk, todo, errs, leaked>>

----------------------------------------------------------------------------
(* The walk of nat_bmap.                                                    *)

Hit(log, alloc) == cache.valid /\ cache.log = log /\ (~alloc \/ cache.phys # 0)

\* The slot of the header a logical block is under, and where a walk of the
\* remaining levels begins.
SlotOf(log) == IF log < NDir THEN log ELSE NDir + log \div Shift(Lev)
LevelsOf(log) == IF log < NDir THEN 0 ELSE Lev

\* The call, when the cached answer does not do: nat_bmap_dir with a block in the
\* slot or without allocation.
Start ==
    /\ Idle
    /\ \E log \in Log, alloc \in BOOLEAN :
           /\ ~Hit(log, alloc)
           /\ SlotOf(log) \in Slot
           /\ bmap[SlotOf(log)] # 0 \/ ~alloc
           /\ walk' = [log |-> log, alloc |-> alloc, bn |-> bmap[SlotOf(log)],
                       indl |-> LevelsOf(log)]
    /\ UNCHANGED <<bam, curr, buf, dirty, bmap, imap, blocks, cache, todo, errs, leaked>>

\* nat_bmap_dir fills the slot.
StartAlloc ==
    /\ Idle
    /\ \E log \in Log, b \in FsBlk :
           /\ ~Hit(log, TRUE)
           /\ SlotOf(log) \in Slot
           /\ bmap[SlotOf(log)] = 0
           /\ nat_balloc(b)
           /\ bmap' = [bmap EXCEPT ![SlotOf(log)] = b]
           /\ imap' = [imap EXCEPT ![b] = Empty]
           /\ walk' = [log |-> log, alloc |-> TRUE, bn |-> b, indl |-> LevelsOf(log)]
    /\ blocks' = blocks + 1
    /\ UNCHANGED <<cache, todo, errs, leaked>>

\* nat_bmap_dir gets no block.
StartFails ==
    /\ Idle
    /\ \E log \in Log :
           /\ ~Hit(log, TRUE)
           /\ SlotOf(log) \in Slot
           /\ bmap[SlotOf(log)] = 0
    /\ BallocFails
    /\ UNCHANGED <<bmap, imap, blocks, cache, walk, todo, leaked>>

\* The number of the indirect block the walk goes by next.
Entry == (walk.log \div Shift(walk.indl - 1)) % Fan

\* A level down, by an entry that is there, or into a hole.
Descend ==
    /\ walk.indl > 0
    /\ walk.bn # 0
    /\ imap[walk.bn][Entry] # 0 \/ ~walk.alloc
    /\ walk' = [walk EXCEPT !.bn = imap[walk.bn][Entry], !.indl = @ - 1]
    /\ UNCHANGED <<bam, curr, buf, dirty, bmap, imap, blocks, cache, todo, errs, leaked>>

\* A level down by a new block.
DescendAlloc ==
    /\ walk.indl > 0
    /\ walk.bn # 0
    /\ walk.alloc
    /\ imap[walk.bn][Entry] = 0
    /\ \E b \in FsBlk :
           /\ nat_balloc(b)
           /\ imap' = [imap EXCEPT ![b] = Empty, ![walk.bn][Entry] = b]
           /\ walk' = [walk EXCEPT !.bn = b, !.indl = @ - 1]
    /\ blocks' = blocks + 1
    /\ UNCHANGED <<bmap, cache, todo, errs, leaked>>

\* The errors of the loop end the call: the indirect block cannot be read, or
\* there is no block to allocate.
DescendFails ==
    /\ walk.indl > 0
    /\ walk.bn # 0
    /\ \/ /\ errs < MaxErr
          /\ errs' = errs + 1
          /\ UNCHANGED <<bam, curr, buf, dirty>>
       \/ /\ walk.alloc
          /\ imap[walk.bn][Entry] = 0
          /\ BallocFails
    /\ walk' = NoWalk
    /\ UNCHANGED <<bmap, imap, blocks, cache, todo, leaked>>

\* The walk is over: the answer is remembered.
Finish ==
    /\ walk.indl = 0 \/ (walk.indl > 0 /\ walk.bn = 0)
    /\ cache' = [valid |-> TRUE, log |-> walk.log, phys |-> walk.bn]
    /\ walk' = NoWalk
    /\ UNCHANGED <<bam, curr, buf, dirty, bmap, imap, blocks, todo, errs, leaked>>

----------------------------------------------------------------------------
(* Truncation.                                                              *)

\* The order nat_trunc frees the blocks of the map in: those under a block before
\* the block itself.  Nothing is found under the indirect blocks in `bad', which
\* nat_trunc_indir cannot read.
FreeOrder(bad) ==
    LET under[k \in 0..Lev, b \in FsBlk] ==
            IF b = 0 THEN <<>>
            ELSE IF k = 0 \/ b \in bad THEN <<b>>
            ELSE FlattenSeq([i \in 1..Fan |-> under[k - 1, imap[b][i - 1]]]) \o <<b>>
    IN  FlattenSeq([s \in 1..NMap |-> under[IF s <= NDir THEN 0 ELSE Lev, bmap[s - 1]]])

\* The blocks of the map.
Tree == Range(FreeOrder({}))

\* nat_trunc forgets the cached answer.
Forgotten == [cache EXCEPT !.valid = FALSE]

\* nat_trunc, but for the bitmap: the file is empty whatever fails.  At most one
\* indirect block cannot be read.
Trunc ==
    /\ Idle
    /\ \E bad \in {{}} \cup {{b} : b \in Tree} :
           /\ errs + Cardinality(bad) <= MaxErr
           /\ bad # {} => FreeOrder(bad) # FreeOrder({})
           /\ errs' = errs + Cardinality(bad)
           /\ todo' = FreeOrder(bad)
           /\ leaked' = leaked \cup (Tree \ Range(FreeOrder(bad)))
    /\ bmap' = [s \in Slot |-> 0]
    /\ cache' = Forgotten
    /\ blocks' = 1
    /\ UNCHANGED <<bam, curr, buf, dirty, imap, walk>>

\* nat_bfree of the next block: nat_write_bam clears its bit, in the bitmap block it
\* switches to.
nat_bfree ==
    /\ todo # <<>>
    /\ LET b == Head(todo)
           i == b \div Per
       IN  /\ bam' = SwitchTo(i).bam
           /\ buf' = SwitchTo(i).buf \ {b}
           /\ curr' = i
    /\ dirty' = TRUE
    /\ todo' = Tail(todo)
    /\ UNCHANGED <<bmap, imap, blocks, cache, walk, errs, leaked>>

\* nat_bfree cannot read the bitmap block; nat_trunc goes on all the same.
BfreeFails ==
    /\ todo # <<>>
    /\ Head(todo) \div Per # curr
    /\ SwitchFails
    /\ todo' = Tail(todo)
    /\ leaked' = leaked \cup {Head(todo)}
    /\ UNCHANGED <<bmap, imap, blocks, cache, walk>>

Next ==
    \/ Sync
    \/ Start
    \/ StartAlloc
    \/ StartFails
    \/ Descend
    \/ DescendAlloc
    \/ DescendFails
    \/ Finish
    \/ Trunc
    \/ nat_bfree
    \/ BfreeFails

Spec == Init /\ [][Next]_vars

----------------------------------------------------------------------------
(* Properties.                                                              *)

\* No block is at two places of the map, is the map's and somebody else's, or is
\* still to be freed by nat_trunc and in use again: at any step of a walk and after
\* any failure.
NoSharing ==
    /\ IsInjective(FreeOrder({}))
    /\ Tree \cap (Other \cup leaked \cup Range(todo)) = {}

\* Whatever bitmap block is held, the bitmap is exactly the blocks of the others,
\* of the file, those still to be freed, and those lost to failing transfers, which
\* wait for fsck: no block of the file can be allocated again.
BitmapRight == Used = Other \cup Tree \cup Range(todo) \cup leaked

\* Where a walk for a logical block ends.
Leaf(log) ==
    LET down[k \in 0..Lev, b \in FsBlk] ==
            IF k = 0 \/ b = 0 THEN b ELSE down[k - 1, imap[b][(log \div Shift(k - 1)) % Fan]]
    IN  down[LevelsOf(log), bmap[SlotOf(log)]]

\* The cached answer is what a walk would find now, and two logical blocks never
\* lead to one block.
MapRight ==
    /\ Idle /\ cache.valid => cache.phys = Leaf(cache.log)
    /\ \A k, l \in {x \in Log : SlotOf(x) \in Slot} : k # l /\ Leaf(k) # 0 => Leaf(k) # Leaf(l)

\* Blocks, bitmap and maps agree at every step.
BlocksRight == TypeOK /\ NoSharing /\ BitmapRight /\ MapRight
=============================================================================
