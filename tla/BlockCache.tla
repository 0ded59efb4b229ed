----------------------------- MODULE BlockCache -----------------------------
(***************************************************************************)
(* The block cache of src/kern/block.c.  Disk drivers poll their hardware  *)
(* and never sleep, so each function runs to its end before another one    *)
(* starts; what is hard here is what is left in the cache when a device    *)
(* fails, when a buffer is taken for another block, when a device is       *)
(* synchronised, closed and given another medium, and when the power goes. *)
(*                                                                         *)
(* A block's contents are a function on Part: a write of less than a block *)
(* replaces some parts and must keep the others.  The order of the buffers *)
(* inside a hash list is left out: a search that found two buffers may     *)
(* return either of them here (OneCopy shows there is never a second one). *)
(***************************************************************************)
EXTENDS Integers, Sequences, FiniteSets

CONSTANTS Dev,        \* block devices (struct bdev)
          Blk,        \* block numbers of a device
          Part,       \* parts of a block a client writes by themselves
          Val,        \* contents of a part
          NoDev,      \* the NULL device of a buffer never used
          NrLists,    \* BLK_NR_LISTS
          InitBufs,   \* BLK_NBLK
          MaxBufs,    \* bound: buffers after blk_add
          MaxRef,     \* bound: references to one buffer, opens of one device
          MaxErr      \* bound: failing transfers

\* What the constants of an instance satisfy.
CacheAssumption ==
    /\ Blk \subseteq Nat
    /\ NoDev \notin Dev
    /\ Part # {}
    /\ Val # {}
    /\ NrLists \in Nat \ {0}
    /\ InitBufs \in Nat \ {0}
    /\ MaxBufs \in Nat
    /\ MaxBufs >= InitBufs
    /\ MaxRef \in Nat \ {0}
    /\ MaxErr \in Nat

VARIABLES
    count,    \* blk_count: buffers 1..count exist
    buf,      \* struct block: refcnt, valid, dirty, dev, nr, data
    chain,    \* the hash list a buffer is linked in, NoList before its first use
    lru,      \* blk_lru, least recently released first
    opens,    \* refcnt of struct bdev
    errs,     \* failing transfers so far (error_cnt of all devices)
    disk,     \* the media
    latest,   \* history: what the clients wrote last to each block
    lost      \* history: blocks a failing write left behind, until rewritten

vars == <<count, buf, chain, lru, opens, errs, disk, latest, lost>>

Buf == 1..MaxBufs
List == 0..(NrLists - 1)
NoList == NrLists
Addr == Dev \X Blk
Data == [Part -> Val]
Buffers == 1..count

Block == [refcnt : 0..MaxRef, valid : BOOLEAN, dirty : BOOLEAN,
          dev : Dev \cup {NoDev}, nr : Blk \cup {0}, data : Data]

\* The memset of blk_init and blk_add.
Zeroed == [refcnt |-> 0, valid |-> FALSE, dirty |-> FALSE, dev |-> NoDev,
           nr |-> 0, data |-> [p \in Part |-> CHOOSE v \in Val : TRUE]]

AddrOf(b) == <<buf[b].dev, buf[b].nr>>

-----------------------------------------------------------------------------
(* Lists *)

\* list_rm of a buffer from the LRU list, where it may stand anywhere; a buffer
\* with references is not in it, and blk_get leaves the list alone.
Without(s, b) ==
    IF \A i \in 1..Len(s) : s[i] # b THEN s
    ELSE LET k == CHOOSE i \in 1..Len(s) : s[i] = b
         IN  [i \in 1..(Len(s) - 1) |-> IF i < k THEN s[i] ELSE s[i + 1]]

InLru == {lru[i] : i \in 1..Len(lru)}

\* blk_check: a buffer is in the list of its block number.
HashOf(n) == n % NrLists

\* The search of blk_get: buffers that hold block n of device d.
Match(d, n) ==
    {b \in Buffers : /\ chain[b] = HashOf(n)
                     /\ buf[b].refcnt > 0 \/ buf[b].valid
                     /\ buf[b].nr = n
                     /\ buf[b].dev = d}

\* list_first(&blk_lru): the buffer taken for a block that is not cached.
Victim == IF lru = <<>> THEN {} ELSE {Head(lru)}

\* The buffers blk_get may return; none is ENOMEM.
Found(d, n) == IF Match(d, n) # {} THEN Match(d, n) ELSE Victim

-----------------------------------------------------------------------------
(* Transfers *)

\* blk_write of the dirty buffers W, of which those in F fail.
Written(W, F) ==
    [x \in Addr |-> IF \E b \in W \ F : AddrOf(b) = x
                    THEN buf[CHOOSE b \in W \ F : AddrOf(b) = x].data
                    ELSE disk[x]]

\* blk_write counts an error and the buffer stays clean: the data is in the
\* cache only.
WriteOut(W, F) ==
    /\ errs + Cardinality(F) =< MaxErr
    /\ disk' = Written(W, F)

LostBy(F) == {AddrOf(b) : b \in F}

\* The buffer blk_get takes is written first when it is dirty.
Evicted(d, n, b) == IF Match(d, n) = {} /\ buf[b].dirty THEN {b} ELSE {}

\* The buffer as blk_get returns it.
Taken(d, n, b) ==
    IF Match(d, n) # {}
    THEN [buf[b] EXCEPT !.refcnt = @ + 1]
    ELSE [buf[b] EXCEPT !.refcnt = 1, !.dev = d, !.nr = n,
                        !.valid = FALSE, !.dirty = FALSE]

\* blk_get(d, n) returns buffer b, a failing write of the evicted block in F;
\* `new' is the buffer as the caller leaves it, with or without its reference.
Get(d, n, b, F, new) ==
    /\ b \in Found(d, n)
    /\ new.refcnt =< MaxRef
    /\ F \subseteq Evicted(d, n, b)
    /\ WriteOut(Evicted(d, n, b), F)
    /\ buf' = [buf EXCEPT ![b] = new]
    /\ chain' = [chain EXCEPT ![b] = HashOf(n)]
    /\ lru' = IF new.refcnt = 0 THEN Append(Without(lru, b), b) ELSE Without(lru, b)

\* blk_read: the buffer as it comes from the device.
Filled(d, n, b) ==
    IF Taken(d, n, b).valid THEN Taken(d, n, b)
    ELSE [Taken(d, n, b) EXCEPT !.data = disk[<<d, n>>], !.valid = TRUE]

\* blk_put's part of a record.
Released(r) == [r EXCEPT !.refcnt = @ - 1]

\* Replace the parts P of a buffer and mark it, as every client does.
Stored(r, P, v) == [r EXCEPT !.data = [p \in Part |-> IF p \in P THEN v ELSE @[p]],
                             !.valid = TRUE, !.dirty = TRUE]

\* History of a write of v to the parts P of block x.
Note(x, P, v, F) ==
    /\ latest' = [latest EXCEPT ![x] = [p \in Part |-> IF p \in P THEN v ELSE @[p]]]
    /\ lost' = IF P = Part THEN (lost \cup LostBy(F)) \ {x} ELSE lost \cup LostBy(F)

-----------------------------------------------------------------------------
Init ==
    /\ count = InitBufs
    /\ buf = [b \in Buf |-> Zeroed]
    /\ chain = [b \in Buf |-> IF b =< InitBufs THEN 0 ELSE NoList]
    /\ lru = [i \in 1..InitBufs |-> i]
    /\ opens = [d \in Dev |-> 0]
    /\ errs = 0
    /\ disk \in [Addr -> Data]
    /\ latest = disk
    /\ lost = {}

\* blk_read; the caller keeps the reference.
Read(d, n, b, F) ==
    /\ opens[d] > 0
    /\ Get(d, n, b, F, Filled(d, n, b))
    /\ errs' = errs + Cardinality(F)
    /\ lost' = lost \cup LostBy(F)
    /\ UNCHANGED <<count, opens, latest>>

\* blk_read of a block the device cannot read: the buffer is put back.
ReadFails(d, n, b, F) ==
    /\ opens[d] > 0
    /\ ~Taken(d, n, b).valid
    /\ errs + Cardinality(F) + 1 =< MaxErr
    /\ Get(d, n, b, F, Released(Taken(d, n, b)))
    /\ errs' = errs + Cardinality(F) + 1
    /\ lost' = lost \cup LostBy(F)
    /\ UNCHANGED <<count, opens, latest>>

\* Mutant: a write of less than a block does not read the block first.
Based_NoRead(d, n, b, P) == Taken(d, n, b)

\* What a write starts from: blk_get for a whole block, blk_read for less.
Based(d, n, b, P) == IF P = Part THEN Taken(d, n, b) ELSE Filled(d, n, b)

\* blk_pwrite of the parts P.  (nat_write, nat_syncfso and the other clients
\* that get, fill and put a block do the same.)
Pwrite(d, n, b, F, P, v) ==
    /\ opens[d] > 0
    /\ Get(d, n, b, F, Released(Stored(Based(d, n, b, P), P, v)))
    /\ errs' = errs + Cardinality(F)
    /\ Note(<<d, n>>, P, v, F)
    /\ UNCHANGED <<count, opens>>

\* A client changes a block it holds (a directory entry, the super block).
Modify(b, P, v) ==
    /\ buf[b].refcnt > 0
    /\ buf[b].valid
    /\ buf' = [buf EXCEPT ![b] = Stored(@, P, v)]
    /\ Note(AddrOf(b), P, v, {})
    /\ UNCHANGED <<count, chain, lru, opens, errs, disk>>

\* blk_write of a block the caller holds.
Write(b, F) ==
    /\ buf[b].refcnt > 0
    /\ buf[b].valid
    /\ buf[b].dirty
    /\ F \subseteq {b}
    /\ WriteOut({b}, F)
    /\ buf' = [buf EXCEPT ![b].dirty = FALSE]
    /\ errs' = errs + Cardinality(F)
    /\ lost' = lost \cup LostBy(F)
    /\ UNCHANGED <<count, chain, lru, opens, latest>>

\* Mutant: every put appends the buffer to the LRU list.
Put_Always(b) ==
    /\ buf[b].refcnt > 0
    /\ buf' = [buf EXCEPT ![b] = Released(@)]
    /\ lru' = Append(Without(lru, b), b)
    /\ UNCHANGED <<count, chain, opens, errs, disk, latest, lost>>

\* blk_put.
Put(b) ==
    /\ buf[b].refcnt > 0
    /\ buf' = [buf EXCEPT ![b] = Released(@)]
    /\ lru' = IF buf[b].refcnt = 1 THEN Append(lru, b) ELSE lru
    /\ UNCHANGED <<count, chain, opens, errs, disk, latest, lost>>

\* One buffer of the loop in blk_syncdev and blk_syncall: SYNC_WRITE cleans
\* it, SYNC_INVALIDATE forgets it when it is clean.
Synced(r, write, inval) ==
    [r EXCEPT !.dirty = @ /\ ~write,
              !.valid = @ /\ ~(inval /\ (write \/ ~r.dirty))]

\* The buffers the loop visits: only the released ones.
SyncSet(D) == {b \in InLru : buf[b].dev \in D}

\* blk_syncdev for the devices D (blk_syncall for all of them); the errors of
\* blk_write are ignored.
Sync(D, write, inval, F) ==
    LET S == SyncSet(D)
        W == IF write THEN {b \in S : buf[b].dirty} ELSE {}
    IN  /\ F \subseteq W
        /\ WriteOut(W, F)
        /\ buf' = [b \in Buf |-> IF b \in S THEN Synced(buf[b], write, inval) ELSE buf[b]]
        /\ errs' = errs + Cardinality(F)
        /\ lost' = lost \cup LostBy(F)

\* blk_syncdev of one device (fs_activate and fs_dumount) or blk_syncall.
SyncAny(D, write, inval, F) ==
    /\ Sync(D, write, inval, F)
    /\ UNCHANGED <<count, chain, lru, opens, latest>>

\* blk_open; a failing open of the driver changes nothing.
Open(d) ==
    /\ opens[d] < MaxRef
    /\ opens' = [opens EXCEPT ![d] = @ + 1]
    /\ UNCHANGED <<count, buf, chain, lru, errs, disk, latest, lost>>

\* blk_close: the last close synchronises and forgets the device's blocks,
\* even when the driver then refuses to close (ok = FALSE).  File systems
\* release every block before they close their device.
Close(d, ok, F) ==
    /\ opens[d] > 0
    /\ \/ /\ opens[d] > 1
          /\ ok
          /\ F = {}
          /\ UNCHANGED <<buf, errs, disk, lost>>
       \/ /\ opens[d] = 1
          /\ \A b \in Buffers : buf[b].dev = d => buf[b].refcnt = 0
          /\ Sync({d}, TRUE, TRUE, F)
    /\ opens' = IF ok THEN [opens EXCEPT ![d] = @ - 1] ELSE opens
    /\ UNCHANGED <<count, chain, lru, latest>>

\* Mutant: the old buffers are forgotten, changes and all.
Added_Forget(n) ==
    [b \in Buf |-> IF b > count /\ b =< n THEN Zeroed
                   ELSE [buf[b] EXCEPT !.valid = FALSE, !.dirty = FALSE]]

\* The new buffers are zeroed.
Added(n) == [b \in Buf |-> IF b > count /\ b =< n THEN Zeroed ELSE buf[b]]

\* blk_add: new buffers go one by one to the front of the LRU list, and into
\* no hash list.
BlkAdd(n) ==
    /\ n > count
    /\ n =< MaxBufs
    /\ count' = n
    /\ buf' = Added(n)
    /\ lru' = [i \in 1..(n - count) |-> n + 1 - i] \o lru
    /\ UNCHANGED <<chain, opens, errs, disk, latest, lost>>

\* The medium of a closed drive is exchanged.
ExchangeMedium(d, data) ==
    /\ opens[d] = 0
    /\ disk' = [x \in Addr |-> IF x[1] = d THEN data ELSE disk[x]]
    /\ latest' = [x \in Addr |-> IF x[1] = d THEN data ELSE latest[x]]
    /\ lost' = {x \in lost : x[1] # d}
    /\ UNCHANGED <<count, buf, chain, lru, opens, errs>>

\* Power failure and reboot: only the media survive.
Crash ==
    /\ count' = InitBufs
    /\ buf' = [b \in Buf |-> Zeroed]
    /\ chain' = [b \in Buf |-> IF b =< InitBufs THEN 0 ELSE NoList]
    /\ lru' = [i \in 1..InitBufs |-> i]
    /\ opens' = [d \in Dev |-> 0]
    /\ latest' = disk
    /\ lost' = {}
    /\ UNCHANGED <<errs, disk>>

Next ==
    \/ \E d \in Dev, n \in Blk, b \in Buffers : \E F \in SUBSET {b} :
          \/ Read(d, n, b, F)
          \/ ReadFails(d, n, b, F)
          \/ \E P \in (SUBSET Part) \ {{}}, v \in Val : Pwrite(d, n, b, F, P, v)
    \/ \E b \in Buffers, P \in (SUBSET Part) \ {{}}, v \in Val : Modify(b, P, v)
    \/ \E b \in Buffers : \E F \in SUBSET {b} : Write(b, F)
    \/ \E b \in Buffers : Put(b)
    \/ \E D \in {{d} : d \in Dev} \cup {Dev}, write, inval \in BOOLEAN, F \in SUBSET Buffers :
          SyncAny(D, write, inval, F)
    \/ \E d \in Dev : Open(d)
    \/ \E d \in Dev, ok \in BOOLEAN, F \in SUBSET Buffers : Close(d, ok, F)
    \/ \E n \in Buf : BlkAdd(n)
    \/ \E d \in Dev, v \in Val : ExchangeMedium(d, [p \in Part |-> v])
    \/ Crash

Spec == Init /\ [][Next]_vars
-----------------------------------------------------------------------------
(* Properties *)

\* Every variable has its type, and buffers that do not exist are unused.
TypeOK ==
    /\ count \in InitBufs..MaxBufs
    /\ buf \in [Buf -> Block]
    /\ chain \in [Buf -> List \cup {NoList}]
    /\ lru \in Seq(Buf)
    /\ opens \in [Dev -> 0..MaxRef]
    /\ errs \in 0..MaxErr
    /\ disk \in [Addr -> Data]
    /\ latest \in [Addr -> Data]
    /\ lost \subseteq Addr
    /\ \A b \in Buf \ Buffers : buf[b] = Zeroed /\ chain[b] = NoList

\* The condition of blk_check (block.c:70-84): a buffer in use is in the hash
\* list of its number; and exactly the released buffers are in the LRU list,
\* each once (blk_get, blk_put).
ListsRight ==
    /\ \A b \in Buffers : buf[b].dev # NoDev => chain[b] = HashOf(buf[b].nr)
    /\ InLru = {b \in Buffers : buf[b].refcnt = 0}
    /\ \A i, j \in 1..Len(lru) : lru[i] = lru[j] => i = j

\* blk_get never gives a block a second buffer: two copies would let one
\* client's change overwrite another's.
OneCopy ==
    \A a, b \in Buffers :
        /\ buf[a].refcnt > 0 \/ buf[a].valid
        /\ buf[b].refcnt > 0 \/ buf[b].valid
        /\ AddrOf(a) = AddrOf(b)
        => a = b

\* What the lists of the cache promise, at every step and for every device.
CacheRight == TypeOK /\ ListsRight /\ OneCopy

\* What a reader of block x gets.
View(x) ==
    LET M == {b \in Match(x[1], x[2]) : buf[b].valid}
    IN  IF M = {} THEN disk[x] ELSE buf[CHOOSE b \in M : TRUE].data

\* A block reads as it was written last, through evictions, partial writes,
\* synchronisation, failing reads and exchanged media, unless the device has
\* refused to write it.
ReadsLatest == \A x \in Addr \ lost : View(x) = latest[x]

\* When a device is closed nothing of it is left in the cache (blk_close), so
\* the next medium is never mixed with this one, and what was written is on
\* the medium.
ClosedForgotten ==
    \A d \in Dev : opens[d] = 0 =>
        /\ \A b \in Buffers : buf[b].dev = d => ~buf[b].valid /\ buf[b].refcnt = 0
        /\ \A x \in Addr \ lost : x[1] = d => disk[x] = latest[x]

\* When no block is held, a step after which no buffer is dirty leaves every
\* block on its medium that the device did not refuse: what sync() and
\* shutdown rely on.
CleanIsStable ==
    (\A b \in Buffers : ~buf[b].dirty) => \A x \in Addr \ lost : disk[x] = latest[x]

\* What clients rely on: what they read, what a closed device leaves, what is safe.
DataRight == TypeOK /\ ReadsLatest /\ ClosedForgotten /\ CleanIsStable

\* The cache is a store of blocks.
Store == INSTANCE BlockStore WITH
            content <- [x \in Addr |-> View(x)], stable <- disk, refused <- lost

StoreInit == Store!SInit
StoreStep == [Store!SNext]_(Store!sVars)

\* Whatever the cache does, its clients see the store of blocks.
StoreSpec == Store!SSpec
=============================================================================
