------------------------------ MODULE MCStorage ------------------------------
(***************************************************************************)
(* The parts of the kernel that keep data on disks, as one run: a          *)
(* behaviour is a behaviour of the block cache, of the native file system, *)
(* with and without fsck, of the block map of a file, or of the mount      *)
(* table.  The block cache, under three loads, and the mount table are     *)
(* this module's own; each of the others is an instance of its module with *)
(* bounds of its own.                                                      *)
(***************************************************************************)
EXTENDS BlockCache, Mount, TLC

CONSTANTS hd0, fd0, sd0, sd1, half1, half2, val1, val2, name1, name2, name3

VARIABLES
    part,  \* the component this behaviour is of
    \* NatFs
    phase, blk, media, bam, bamBlk, bamMedia, clean, nat_refs, core, mounts,
    harm,
    \* NatFsck
    checks, unfixed,
    \* NatBmap
    bmap_bam, curr, bmap_buf, dirty, bmap, imap, blocks, cache, walk, todo,
    bmap_errs, leaked

natVars == <<phase, blk, media, bam, bamBlk, bamMedia, clean, nat_refs, core,
             mounts, harm>>
fsckVars == <<checks, unfixed>>
bmapVars == <<bmap_bam, curr, bmap_buf, dirty, bmap, imap, blocks, cache, walk,
              todo, bmap_errs, leaked>>
storageVars == <<part, vars, natVars, fsckVars, bmapVars, mountVars>>

\* What is on the media before anything was written.
Blank == [x \in Addr |-> [p \in Part |-> val1]]

\* Two devices share a cache that grows by a buffer; both blocks hash alike.
\* Which buffer is where does not depend on what is in it.
Lists ==
    /\ Next
    /\ \A d \in Dev : opens'[d] =< 1
    /\ disk' = Blank
    /\ latest' = Blank

\* One device with removable media.
OneDisk == Init /\ \A n \in Blk : disk[<<hd0, n>>] = Blank[<<hd0, n>>]
OneDevice ==
    /\ Next
    /\ opens'[hd0] = 0
    /\ \A b \in Buffers : buf'[b].refcnt =< 1
    /\ \A n \in Blk : disk'[<<hd0, n>>] = Blank[<<hd0, n>>]

\* Its blocks are written in halves, through one buffer; it may be opened twice.
Halves ==
    /\ OneDevice
    /\ count' = 1

\* Its blocks are written as a whole, one of them always with the same contents,
\* and the cache grows.
Whole(data) ==
    /\ data[<<fd0, 1>>][half1] = data[<<fd0, 1>>][half2]
    /\ data[<<fd0, 3>>] = Blank[<<fd0, 3>>]
Wholes ==
    /\ OneDevice
    /\ opens'[fd0] =< 1
    /\ Whole(latest')

\* A file system that fills up, with two names.
NatF == INSTANCE NatFs WITH
    NBlk <- 5, Name <- {name1, name2}, LongName <- {}, PerBlock <- 2,
    MaxDir <- 2, MaxRef <- 1, MaxMount <- 1, MayCrash <- FALSE,
    MayTrust <- FALSE, refs <- nat_refs

\* Power failures, fsck, and mounts of media nobody checked.
Checked == INSTANCE NatFsck WITH
    NBlk <- 4, Name <- {name3}, LongName <- {}, PerBlock <- 2, MaxDir <- 2,
    MaxRef <- 1, MaxMount <- 2, MayCrash <- TRUE, MayTrust <- TRUE,
    MaxFsck <- 1, refs <- nat_refs

\* A file with one direct block and two doubly indirect slots, a bitmap of two
\* blocks of which one is held, and a device that may fail once.
Bmap == INSTANCE NatBmap WITH
    NBam <- 2, Per <- 4, Other <- {0, 2, 5, 6}, NDir <- 1, NMap <- 3, Lev <- 2,
    Fan <- 2, MaxLog <- 3, MaxErr <- 1, bam <- bmap_bam, buf <- bmap_buf,
    errs <- bmap_errs

\* What the modules ask of their constants.
ASSUME Instances ==
    /\ CacheAssumption
    /\ NatF!NatAssumption
    /\ Checked!NatAssumption
    /\ Bmap!BmapAssumption
    /\ MountAssumption

\* The variables of a component that does not run mean nothing; the cache and
\* the mount table stay as they start.
NoBlockCache == Init /\ disk = Blank
NoNatFs ==
    /\ phase = 0 /\ blk = 0 /\ media = 0 /\ bam = 0 /\ bamBlk = 0
    /\ bamMedia = 0 /\ clean = 0 /\ nat_refs = 0 /\ core = 0 /\ mounts = 0
    /\ harm = 0
NoNatFsck ==
    /\ checks = 0 /\ unfixed = 0
NoNatBmap ==
    /\ bmap_bam = 0 /\ curr = 0 /\ bmap_buf = 0 /\ dirty = 0 /\ bmap = 0
    /\ imap = 0 /\ blocks = 0 /\ cache = 0 /\ walk = 0 /\ todo = 0
    /\ bmap_errs = 0 /\ leaked = 0
StorageInit ==
    \/ /\ part = "lists" /\ Init /\ disk = Blank
       /\ NoNatFs /\ NoNatFsck /\ NoNatBmap /\ MountInit
    \/ /\ part = "halves" /\ OneDisk
       /\ NoNatFs /\ NoNatFsck /\ NoNatBmap /\ MountInit
    \/ /\ part = "wholes" /\ OneDisk /\ Whole(disk)
       /\ NoNatFs /\ NoNatFsck /\ NoNatBmap /\ MountInit
    \/ /\ part = "names" /\ NatF!Init
       /\ NoBlockCache /\ NoNatFsck /\ NoNatBmap /\ MountInit
    \/ /\ part = "fsck" /\ Checked!FsckInit
       /\ NoBlockCache /\ NoNatBmap /\ MountInit
    \/ /\ part = "bmap" /\ Bmap!Init
       /\ NoBlockCache /\ NoNatFs /\ NoNatFsck /\ MountInit
    \/ /\ part = "mount" /\ MountInit
       /\ NoBlockCache /\ NoNatFs /\ NoNatFsck /\ NoNatBmap

ListsNext ==
    /\ part = "lists"
    /\ Lists
    /\ UNCHANGED <<part, natVars, fsckVars, bmapVars, mountVars>>

HalvesNext ==
    /\ part = "halves"
    /\ Halves
    /\ UNCHANGED <<part, natVars, fsckVars, bmapVars, mountVars>>

WholesNext ==
    /\ part = "wholes"
    /\ Wholes
    /\ UNCHANGED <<part, natVars, fsckVars, bmapVars, mountVars>>

NatFNext ==
    /\ part = "names"
    /\ NatF!Next
    /\ UNCHANGED <<part, vars, fsckVars, bmapVars, mountVars>>

CheckedNext ==
    /\ part = "fsck"
    /\ Checked!FsckNext
    /\ UNCHANGED <<part, vars, bmapVars, mountVars>>

BmapNext ==
    /\ part = "bmap"
    /\ Bmap!Next
    /\ UNCHANGED <<part, vars, natVars, fsckVars, mountVars>>

TableNext ==
    /\ part = "mount"
    /\ MountNext
    /\ UNCHANGED <<part, vars, natVars, fsckVars, bmapVars>>

StorageNext ==
    \/ ListsNext \/ HalvesNext \/ WholesNext \/ NatFNext \/ CheckedNext
    \/ BmapNext \/ TableNext

StorageSpec == StorageInit /\ [][StorageNext]_storageVars

----------------------------------------------------------------------------
(* Properties, besides CacheRight, DataRight and StoreSpec of the cache and *)
(* MountRight of the mount table.                                           *)

\* Link counts and the bitmap are exact, whatever calls created, linked,
\* renamed, replaced and removed objects and whoever has them open: the link
\* count of an object, in core or on disk, is the number of its names, and the
\* bitmap has exactly the blocks of the objects with a name or open, each with
\* one use (nat_link, nat_unlink, nat_rename, nat_balloc, nat_putfso), unless a
\* rename has failed half way.
FilesRight == part = "names" => NatF!FilesRight

\* A medium marked clean, by unmounting or by fsck -F, is consistent, however
\* calls, blocks written back in any order and power failures left it before;
\* except after a rename that failed half way, a power failure in the middle of
\* unmounting, an unmount of a medium mounted unchecked, or something fsck said
\* it cannot fix.
FsckRepairs == part = "fsck" => Checked!FsckRepairs

\* No block is at two places of a file's map, is the map's and somebody else's,
\* or is still to be freed by nat_trunc and in use again, at any step of a walk
\* and after any failure; whichever bitmap block is held, the bitmap is exactly
\* the blocks of others, of the file, those still to be freed, and those a
\* failing transfer has lost; and the answer nat_bmap keeps is what a walk
\* would find now (nat_chg_bam_blk, nat_balloc, nat_bfree, nat_bmap).
BlocksRight == part = "bmap" => Bmap!BlocksRight

\* Devices are only compared, names only looked up; each component has its own.
Symmetry == Permutations({sd0, sd1}) \cup Permutations({name1, name2})

\* "names" has one mount, so it never reads the medium, and whether an object's
\* header or the bitmap has already gone to the cache is not seen by any call.
StorageView ==
    IF part = "names" THEN <<part, phase, NatF!Flushed, bam, nat_refs, mounts, harm>>
    ELSE storageVars
===============================================================================
