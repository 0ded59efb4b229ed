-------------------------------- MODULE NatFs --------------------------------
(***************************************************************************)
(* The native file system, src/kern/fs/nat: names, link counts, in-core    *)
(* objects and the block bitmap, above a cache that writes blocks to the   *)
(* medium when it likes, with power failures in between.                   *)
(*                                                                         *)
(* No file system call sleeps (disk drivers poll), so each one is a single *)
(* action.  A file is its header block; a directory is a header block and  *)
(* the blocks of its entries (the block map of large files is module       *)
(* NatBmap's).  What is written goes to blk, the blocks as the cache has   *)
(* them; module BlockCache shows that the cache keeps them.  Permissions,  *)
(* times and sizes are left out.  A path is the pair of the directory it   *)
(* leads to and its last name.                                             *)
(***************************************************************************)
EXTENDS Integers, FiniteSets

CONSTANTS NBlk,       \* data blocks of the medium
          Name,       \* names
          LongName,   \* those longer than NAT_NAME_MAX
          PerBlock,   \* NAT_D_PER_BLOCK
          MaxDir,     \* NAT_DIR_SIZE_MAX in blocks
          MaxRef,     \* bound: references to an open object
          MaxMount,   \* bound: mounts
          MayCrash,   \* the power may fail
          MayTrust    \* an unclean medium may be mounted without fsck

\* What the constants of an instance satisfy.
NatAssumption ==
    /\ NBlk \in Nat \ {0}
    /\ LongName \subseteq Name
    /\ PerBlock \in Nat \ {0}
    /\ MaxDir \in Nat
    /\ MaxRef \in Nat \ {0}
    /\ MaxMount \in Nat
    /\ MayCrash \in BOOLEAN
    /\ MayTrust \in BOOLEAN

VARIABLES
    phase,    \* unmounted, mounted, or closing: between nat_umount and blk_close
    blk,      \* the data blocks as the cache has them
    media,    \* the data blocks as the medium has them
    bam,      \* bam_buf: the blocks in use
    bamBlk,   \* the bitmap block as the cache has it
    bamMedia, \* ... as the medium has it
    clean,    \* ~dirty of the super block on the medium
    refs,     \* refcnt of struct fso, between calls
    core,     \* struct fso of the objects in core: their headers
    mounts,   \* bound
    harm      \* history: what has damaged the file system so far

vars == <<phase, blk, media, bam, bamBlk, bamMedia, clean, refs, core, mounts, harm>>

FsBlk == 1..NBlk
Root == 1
NoEnts == [n \in Name |-> 0]

\* What a block holds: an object's header, directory entries or anything else.
Junk == [kind |-> "junk", dir |-> FALSE, nlink |-> 0, map |-> {}, ents |-> NoEnts]
Header(isdir, nlink) == [Junk EXCEPT !.kind = "header", !.dir = isdir, !.nlink = nlink]
Entries(e) == [Junk EXCEPT !.kind = "entries", !.ents = e]

-----------------------------------------------------------------------------
(* The file system as the calls see it: s is a record of blk, bam and core. *)

S == [blk |-> blk, bam |-> bam, core |-> core]

\* fs_getfso: the object in core, or its header read from the cache.
Fso(s, i) == IF refs[i] > 0 THEN s.core[i] ELSE s.blk[i]

\* Mutant: an object that is still open is freed with its last name.
PutFso_Open(s, i, h) ==
    IF h.nlink = 0 THEN [s EXCEPT !.bam = @ \ ({i} \cup h.map), !.core[i] = h]
    ELSE IF refs[i] > 0 THEN [s EXCEPT !.core[i] = h]
    ELSE [s EXCEPT !.blk[i] = h]

\* A call is done with object i, whose header now is h: fs_putfso, and with
\* the last reference nat_putfso, which frees an object without names.
PutFso(s, i, h) ==
    IF refs[i] > 0 THEN [s EXCEPT !.core[i] = h]
    ELSE IF h.nlink = 0 THEN [s EXCEPT !.bam = @ \ ({i} \cup h.map)]
    ELSE [s EXCEPT !.blk[i] = h]

EntriesIn(e) == {n \in Name : e[n] # 0}

\* find_entry: the object a directory has under a name, 0 for ENOENT.
Found(s, d, n) ==
    LET B == {b \in Fso(s, d).map : s.blk[b].ents[n] # 0}
    IN  IF B = {} THEN 0 ELSE s.blk[CHOOSE b \in B : TRUE].ents[n]

SetEntry(s, d, n, i) ==
    LET b == CHOOSE c \in Fso(s, d).map : s.blk[c].ents[n] # 0
    IN  [s EXCEPT !.blk[b].ents[n] = i]

\* The memset of a directory entry.
EraseEntry(s, d, n) == SetEntry(s, d, n, 0)

IsEmpty(s, d) == \A n \in Name : Found(s, d, n) = 0

\* nat_balloc: the first free block.
Free(s) == FsBlk \ s.bam
FirstFree(s) == CHOOSE b \in Free(s) : \A c \in Free(s) : b =< c

\* Blocks of a directory with a free entry.
Room(s, d) == {b \in Fso(s, d).map : Cardinality(EntriesIn(s.blk[b].ents)) < PerBlock}

\* The result of new_entry(d, n, _), in the order of its tests.
NewEntryErr(s, d, n) ==
    IF n \in LongName THEN "ENAMETOOLONG"
    ELSE IF Found(s, d, n) # 0 THEN "EEXIST"
    ELSE IF Room(s, d) # {} THEN "ok"
    ELSE IF Cardinality(Fso(s, d).map) >= MaxDir THEN "EFBIG"
    ELSE IF Free(s) = {} THEN "ENOSPC"
    ELSE "ok"

\* new_entry, when it succeeds; a full directory gets a block, zeroed.
NewEntry(s, d, n, i) ==
    IF Room(s, d) # {}
    THEN LET b == CHOOSE c \in Room(s, d) : TRUE
         IN  [s EXCEPT !.blk[b].ents[n] = i]
    ELSE LET b == FirstFree(s)
             t == [s EXCEPT !.bam = @ \cup {b},
                            !.blk[b] = Entries([NoEnts EXCEPT ![n] = i])]
         IN  PutFso(t, d, [Fso(s, d) EXCEPT !.map = @ \cup {b}])

\* Directories below directory i, itself included.
Below(s, i) ==
    LET sub(D) == {Found(s, d, n) : d \in D, n \in Name} \ {0}
        reach[k \in 0..NBlk] ==
            IF k = 0 THEN {i}
            ELSE LET D == reach[k - 1] IN D \cup {j \in sub(D) : Fso(s, j).dir}
    IN  reach[NBlk]

\* The directories a path can lead to.
DirsFrom(s) == Below(s, Root)

-----------------------------------------------------------------------------
\* mkfs, on a medium not yet mounted.
Init ==
    /\ phase = "unmounted"
    /\ blk = [b \in FsBlk |-> IF b = Root THEN Header(TRUE, 1) ELSE Junk]
    /\ media = blk
    /\ bam = {}
    /\ bamBlk = {Root}
    /\ bamMedia = {Root}
    /\ clean = TRUE
    /\ refs = [b \in FsBlk |-> 0]
    /\ core = [b \in FsBlk |-> Junk]
    /\ mounts = 0
    /\ harm = {}

\* A call may be made.  What calls do to a file system that was torn by a
\* power failure and mounted unchecked is not modelled.
Ready == phase = "mounted" /\ harm \subseteq {"rename"}

Becomes(s) == blk' = s.blk /\ bam' = s.bam /\ core' = s.core

Same == UNCHANGED <<phase, media, bamBlk, bamMedia, clean, mounts>>

\* nat_creat for open(O_CREAT), which keeps the object, and for nat_mkdir,
\* which puts it.
Creat(d, n, isdir) ==
    LET i == FirstFree(S)
        t == [S EXCEPT !.bam = @ \cup {i}, !.blk[i] = Header(isdir, 1)]
        u == NewEntry(t, d, n, i)
    IN  /\ Ready
        /\ Free(S) # {}
        /\ NewEntryErr(t, d, n) = "ok"
        /\ IF isdir THEN Becomes(u) /\ UNCHANGED refs
           ELSE /\ Becomes([u EXCEPT !.core[i] = Header(isdir, 1)])
                /\ refs' = [refs EXCEPT ![i] = 1]
        /\ Same /\ UNCHANGED harm

\* nat_creat whose new_entry fails: the header was written, its block is free.
CreatFails(d, n, isdir) ==
    LET i == FirstFree(S)
        t == [S EXCEPT !.bam = @ \cup {i}, !.blk[i] = Header(isdir, 1)]
    IN  /\ Ready
        /\ Free(S) # {}
        /\ NewEntryErr(t, d, n) # "ok"
        /\ Becomes([t EXCEPT !.bam = bam])
        /\ Same /\ UNCHANGED <<refs, harm>>

\* fs_lookup for open().
Open(d, n) ==
    LET i == Found(S, d, n)
    IN  /\ Ready
        /\ i # 0
        /\ refs[i] < MaxRef
        /\ refs' = [refs EXCEPT ![i] = @ + 1]
        /\ core' = [core EXCEPT ![i] = Fso(S, i)]
        /\ Same /\ UNCHANGED <<blk, bam, harm>>

\* fs_putfso of an open object; nat_putfso with the last reference.
Close(i) ==
    /\ Ready
    /\ refs[i] > 0
    /\ refs' = [refs EXCEPT ![i] = @ - 1]
    /\ IF refs[i] > 1 THEN UNCHANGED <<blk, bam, core>>
       ELSE /\ IF core[i].nlink = 0
               THEN bam' = bam \ ({i} \cup core[i].map) /\ blk' = blk
               ELSE bam' = bam /\ blk' = [blk EXCEPT ![i] = core[i]]
            /\ core' = [core EXCEPT ![i] = Junk]
    /\ Same /\ UNCHANGED harm

\* nat_link of the object found at d1, n1; a failing new_entry changes nothing.
Link(d1, n1, d2, n2) ==
    LET i == Found(S, d1, n1)
        t == NewEntry(S, d2, n2, i)
    IN  /\ Ready
        /\ i # 0
        /\ ~Fso(S, i).dir
        /\ NewEntryErr(S, d2, n2) = "ok"
        /\ Becomes(PutFso(t, i, [Fso(t, i) EXCEPT !.nlink = @ + 1]))
        /\ Same /\ UNCHANGED <<refs, harm>>

\* An entry goes and its object loses a link: what unlink and rmdir share.
Removed(s, d, n) ==
    LET i == Found(s, d, n)
        t == EraseEntry(s, d, n)
    IN  PutFso(t, i, [Fso(t, i) EXCEPT !.nlink = @ - 1])

\* nat_unlink.
Unlink(d, n) ==
    /\ Ready
    /\ Found(S, d, n) # 0
    /\ ~Fso(S, Found(S, d, n)).dir
    /\ Becomes(Removed(S, d, n))
    /\ Same /\ UNCHANGED <<refs, harm>>

\* nat_rmdir.
Rmdir(d, n) ==
    /\ Ready
    /\ Found(S, d, n) # 0
    /\ Fso(S, Found(S, d, n)).dir
    /\ IsEmpty(S, Found(S, d, n))
    /\ Becomes(Removed(S, d, n))
    /\ Same /\ UNCHANGED <<refs, harm>>

\* The tests of nat_rename before it changes anything: two names, the new one
\* not below the old one (a comparison of the paths), and the old one exists.
RenameOk(d1, n1, d2, n2) ==
    /\ Ready
    /\ <<d1, n1>> # <<d2, n2>>
    /\ Found(S, d1, n1) # 0
    /\ d2 \notin Below(S, Found(S, d1, n1)) \/ ~Fso(S, Found(S, d1, n1)).dir

\* nat_rename to a new name.
Rename(d1, n1, d2, n2) ==
    /\ RenameOk(d1, n1, d2, n2)
    /\ NewEntryErr(S, d2, n2) = "ok"
    /\ Becomes(EraseEntry(NewEntry(S, d2, n2, Found(S, d1, n1)), d1, n1))
    /\ Same /\ UNCHANGED <<refs, harm>>

\* The entry n of d now names object i; the one it named loses a link.
Replaced(s, d, n, i) ==
    LET o == Found(s, d, n)
    IN  SetEntry(PutFso(s, o, [Fso(s, o) EXCEPT !.nlink = @ - 1]), d, n, i)

\* nat_rename to a name that exists: ENOTEMPTY for a directory in use.
RenameOver(d1, n1, d2, n2) ==
    LET i == Found(S, d1, n1)
        o == Found(S, d2, n2)
    IN  /\ RenameOk(d1, n1, d2, n2)
        /\ NewEntryErr(S, d2, n2) = "EEXIST"
        /\ Fso(S, o).dir => IsEmpty(S, o)
        /\ Becomes(EraseEntry(Replaced(S, d2, n2, i), d1, n1))
        /\ Same /\ UNCHANGED <<refs, harm>>

\* nat_rename when new_entry fails otherwise: the old entry goes all the same
\* and the object has no name left.
RenameLoses(d1, n1, d2, n2) ==
    /\ RenameOk(d1, n1, d2, n2)
    /\ NewEntryErr(S, d2, n2) \notin {"ok", "EEXIST"}
    /\ Becomes(EraseEntry(S, d1, n1))
    /\ harm' = harm \cup {"rename"}
    /\ Same /\ UNCHANGED refs

\* nat_syncfso of every object in core.
Flushed == [b \in FsBlk |-> IF refs[b] > 0 THEN core[b] ELSE blk[b]]

\* sys__sync1: fs_syncall (objects, then the bitmap), then blk_syncall.  (When
\* the power never fails nobody sees the medium before blk_close.)
Sync ==
    /\ phase = "mounted"
    /\ blk' = Flushed
    /\ media' = IF MayCrash THEN Flushed ELSE media
    /\ bamBlk' = bam
    /\ bamMedia' = IF MayCrash THEN bam ELSE bamMedia
    /\ UNCHANGED <<phase, bam, clean, refs, core, mounts, harm>>

\* The cache writes a block of its choice (visible after a power failure only).
Evict(b) ==
    /\ MayCrash
    /\ phase # "unmounted"
    /\ media[b] # blk[b]
    /\ media' = [media EXCEPT ![b] = blk[b]]
    /\ UNCHANGED <<phase, blk, bam, bamBlk, bamMedia, clean, refs, core, mounts, harm>>

EvictBam ==
    /\ MayCrash
    /\ phase # "unmounted"
    /\ bamMedia # bamBlk
    /\ bamMedia' = bamBlk
    /\ UNCHANGED <<phase, blk, media, bam, bamBlk, clean, refs, core, mounts, harm>>

\* nat_mount, read and write: the super block says dirty before anything else
\* is written.
Mount ==
    /\ phase = "unmounted"
    /\ mounts < MaxMount
    /\ clean \/ MayTrust
    /\ phase' = "mounted"
    /\ mounts' = mounts + 1
    /\ bam' = bamBlk
    /\ clean' = FALSE
    /\ harm' = IF clean THEN harm ELSE harm \cup {"unchecked"}
    /\ UNCHANGED <<blk, media, bamBlk, bamMedia, refs, core>>

\* fs_umount up to nat_umount: no object is in use; the bitmap goes to the
\* cache and the super block, clean again, straight to the medium.
Umount ==
    /\ phase = "mounted"
    /\ \A b \in FsBlk : refs[b] = 0
    /\ phase' = "closing"
    /\ bamBlk' = bam
    /\ clean' = TRUE
    /\ UNCHANGED <<blk, media, bam, bamMedia, refs, core, mounts, harm>>

\* The rest of fs_umount: blk_close writes what the cache still has.
CloseDev ==
    /\ phase = "closing"
    /\ phase' = "unmounted"
    /\ media' = blk
    /\ bamMedia' = bamBlk
    /\ bam' = {}
    /\ UNCHANGED <<blk, bamBlk, clean, refs, core, mounts, harm>>

\* Power failure: the medium is what is left.
Crash ==
    /\ MayCrash
    /\ phase # "unmounted"
    /\ phase' = "unmounted"
    /\ blk' = media
    /\ bamBlk' = bamMedia
    /\ bam' = {}
    /\ refs' = [b \in FsBlk |-> 0]
    /\ core' = [b \in FsBlk |-> Junk]
    /\ harm' = IF phase = "closing" THEN harm \cup {"torn"} ELSE harm
    /\ UNCHANGED <<media, bamMedia, clean, mounts>>

\* The calls; a path leads to a directory below the root.
Call ==
    LET Dirs == IF Ready THEN DirsFrom(S) ELSE {}
    IN  \/ \E d \in Dirs, n \in Name :
              \/ \E isdir \in BOOLEAN : Creat(d, n, isdir) \/ CreatFails(d, n, isdir)
              \/ Open(d, n) \/ Unlink(d, n) \/ Rmdir(d, n)
        \/ \E i \in FsBlk : Close(i)
        \/ \E d1, d2 \in Dirs, n1, n2 \in Name :
              \/ Link(d1, n1, d2, n2)
              \/ Rename(d1, n1, d2, n2)
              \/ RenameOver(d1, n1, d2, n2)
              \/ RenameLoses(d1, n1, d2, n2)

Next ==
    \/ Call
    \/ Sync
    \/ (\E b \in FsBlk : Evict(b)) \/ EvictBam
    \/ Mount \/ Umount \/ CloseDev
    \/ Crash

Spec == Init /\ [][Next]_vars

-----------------------------------------------------------------------------
(* Properties *)

\* Every variable has its type.
TypeOK ==
    LET Content == [kind : {"header", "entries", "junk"}, dir : BOOLEAN, nlink : Nat,
                    map : SUBSET FsBlk, ents : [Name -> FsBlk \cup {0}]]
    IN  /\ phase \in {"unmounted", "mounted", "closing"}
        /\ \A b \in FsBlk : blk[b] \in Content /\ media[b] \in Content /\ core[b] \in Content
        /\ bam \subseteq FsBlk /\ bamBlk \subseteq FsBlk /\ bamMedia \subseteq FsBlk
        /\ clean \in BOOLEAN
        /\ refs \in [FsBlk -> 0..MaxRef]
        /\ mounts \in 0..MaxMount
        /\ harm \subseteq {"rename", "torn", "unchecked"}

\* The objects of image m (headers in m) that names lead to, from the root.
Named(m) ==
    LET ent(d) == {m[b].ents[n] : b \in m[d].map, n \in Name} \ {0}
        reach[k \in 0..NBlk] ==
            IF k = 0 THEN {Root}
            ELSE LET R == reach[k - 1]
                 IN  R \cup UNION {ent(d) : d \in {i \in R : m[i].dir}}
    IN  reach[NBlk]

\* Directory entries that name object i.
EntriesOf(m, i) ==
    LET B == UNION {m[d].map : d \in {j \in Named(m) : m[j].dir}}
    IN  {<<b, n>> \in B \X Name : m[b].ents[n] = i}

\* Link counts are the numbers of names (fsck's check_nlink; the root has one
\* without an entry) for the objects X.
LinksRight(m, X) ==
    \A i \in X : m[i].nlink = Cardinality(EntriesOf(m, i)) + (IF i = Root THEN 1 ELSE 0)

\* No block has two uses (bdupref), names lead to headers, and the bitmap u
\* has exactly the blocks in use (check_bam), for the objects X.
BlocksRight(m, X, u) ==
    /\ \A i \in X : m[i].kind = "header" /\ m[i].map \cap X = {}
    /\ \A i, j \in X : i # j => m[i].map \cap m[j].map = {}
    /\ u = X \cup UNION {m[i].map : i \in X}

\* An image fsck would find nothing wrong with.
Consistent(m, u) == LinksRight(m, Named(m)) /\ BlocksRight(m, Named(m), u)

InCore == {i \in FsBlk : refs[i] > 0}

\* While mounted, and unless a rename has failed half way: the link count of
\* every object, in core or not, is the number of its names, whatever calls
\* created, linked, renamed, replaced and removed it, and whoever has it open.
LinkCounts ==
    phase = "mounted" /\ harm = {} => LinksRight(Flushed, Named(Flushed) \cup InCore)

\* While mounted, and unless a rename has failed half way: the bitmap has the
\* blocks of the objects with a name or open, and no block has two uses; so a
\* block is never given to a new object while another still uses it, and none
\* is lost: not the blocks of a directory moved below itself, nor those of an
\* object removed while it is open (nat_balloc, nat_putfso, nat_rename).
BitmapExact ==
    phase = "mounted" /\ harm = {} =>
        BlocksRight(Flushed, Named(Flushed) \cup InCore, bam)

\* Names, link counts and blocks agree.
FilesRight == TypeOK /\ LinkCounts /\ BitmapExact

=============================================================================
