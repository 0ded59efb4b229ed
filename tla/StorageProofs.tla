--------------------------- MODULE StorageProofs ---------------------------
(***************************************************************************)
(* The block cache and the mount table.                                    *)
(*                                                                         *)
(* For every set of devices, blocks, parts and values, and every number of *)
(* buffers and hash lists, the cache's lists are right, a block has one    *)
(* buffer, a block reads as it was written last, and the cache implements  *)
(* the store of blocks.  CacheInv, the inductive invariant of the lists,   *)
(* adds to CacheRight that a dirty buffer is valid and that a valid one    *)
(* holds a block.  DataInv adds what makes DataRight inductive: a clean    *)
(* buffer is as its medium has it, and a closed device has no buffer.  For *)
(* the refinement, each step is shown block by block to be a client's      *)
(* write (ChangeStep), one that clients do not see (BackStep), another     *)
(* medium or a power failure.                                              *)
(*                                                                         *)
(* The mount table is right for every size of the table, every set of      *)
(* devices and every delay.  MountInv says what MountRight rests on: no    *)
(* device is mounted twice, and a slot with open files is mounted and      *)
(* active (SlotsRight); a device is open as often as it has users, and     *)
(* what is marked or cached belongs to an active mount or to somebody who  *)
(* opened the device itself (UsersRight); only removable file systems are  *)
(* queued.                                                                 *)
(***************************************************************************)
EXTENDS BlockCache, Mount, FiniteSetTheorems, SequenceTheorems, TLAPS

-----------------------------------------------------------------------------
(* The LRU list.                                                           *)

\* Every place of a list holds another buffer.
Distinct(s) == \A i, j \in 1..Len(s) : s[i] = s[j] => i = j

\* The buffers in a list.
In(s) == {s[i] : i \in 1..Len(s)}

\* list_rm takes out the one place of b and keeps the others.
LEMMA WithoutRight ==
    ASSUME NEW s \in Seq(Buf), NEW b \in Buf, Distinct(s)
    PROVE  /\ Without(s, b) \in Seq(Buf)
           /\ Distinct(Without(s, b))
           /\ In(Without(s, b)) = In(s) \ {b}
<1>1. CASE \A i \in 1..Len(s) : s[i] # b
  BY <1>1 DEF Without, In
<1>2. CASE ~\A i \in 1..Len(s) : s[i] # b
  <2> DEFINE k == CHOOSE i \in 1..Len(s) : s[i] = b
             w == [i \in 1..(Len(s) - 1) |-> IF i < k THEN s[i] ELSE s[i + 1]]
  <2>1. k \in 1..Len(s) /\ s[k] = b
    BY <1>2
  <2>2. Without(s, b) = w
    BY <1>2 DEF Without
  <2>3. Len(s) \in Nat /\ Len(s) > 0 /\ \A i \in 1..Len(s) : s[i] \in Buf
    BY <2>1
  <2> HIDE DEF k
  <2>4. w \in [1..(Len(s) - 1) -> Buf]
    BY <2>1, <2>3
  <2>5. w \in Seq(Buf) /\ Len(w) = Len(s) - 1
    BY <2>3, <2>4, IsASeq, LenProperties
  <2>6. \A i \in 1..Len(w) : w[i] = IF i < k THEN s[i] ELSE s[i + 1]
    BY <2>5
  <2> HIDE DEF w
  <2>7. ASSUME NEW i \in 1..Len(w), NEW j \in 1..Len(w), w[i] = w[j] PROVE i = j
    <3> DEFINE i1 == IF i < k THEN i ELSE i + 1
               j1 == IF j < k THEN j ELSE j + 1
    <3>1. i \in Nat /\ j \in Nat /\ i <= Len(s) - 1 /\ j <= Len(s) - 1 /\ i >= 1 /\ j >= 1
      BY <2>3, <2>5
    <3>2. i1 \in 1..Len(s) /\ j1 \in 1..Len(s)
      BY <2>3, <3>1
    <3>3. w[i] = s[i1] /\ w[j] = s[j1]
      BY <2>6
    <3>4. i1 = j1
      <4> HIDE DEF i1, j1
      <4> QED BY <2>7, <3>2, <3>3 DEF Distinct
    <3> QED BY <2>1, <2>3, <3>1, <3>4
  <2>8. ASSUME NEW i \in 1..Len(w) PROVE w[i] \in In(s) \ {b}
    <3> DEFINE j == IF i < k THEN i ELSE i + 1
    <3>1. j \in 1..Len(s) /\ j # k /\ s[j] = w[i]
      BY <2>1, <2>3, <2>5, <2>6
    <3> QED BY <2>1, <3>1 DEF Distinct, In
  <2>9. ASSUME NEW i \in 1..Len(s), s[i] # b PROVE s[i] \in In(w)
    <3>1. CASE i < k
      <4>1. i \in 1..Len(w) /\ w[i] = s[i]
        BY <2>1, <2>3, <2>5, <2>6, <3>1
      <4> QED BY <4>1 DEF In
    <3>2. CASE i > k
      <4>1. i - 1 \in 1..Len(w) /\ w[i - 1] = s[i]
        BY <2>1, <2>3, <2>5, <2>6, <3>2
      <4> QED BY <4>1 DEF In
    <3> QED BY <2>1, <2>9, <3>1, <3>2
  <2>10. In(w) = In(s) \ {b}
    BY <2>8, <2>9 DEF In
  <2> QED BY <2>2, <2>5, <2>7, <2>10 DEF Distinct
<1>3. QED
  BY <1>1, <1>2

\* list_app of a buffer that is not in the list.
LEMMA AppendRight ==
    ASSUME NEW s \in Seq(Buf), NEW b \in Buf, Distinct(s), b \notin In(s)
    PROVE  /\ Append(s, b) \in Seq(Buf)
           /\ Distinct(Append(s, b))
           /\ In(Append(s, b)) = In(s) \cup {b}
<1> DEFINE w == Append(s, b)
<1>1. /\ w \in Seq(Buf) /\ Len(w) = Len(s) + 1 /\ Len(s) \in Nat
      /\ \A i \in 1..Len(s) : w[i] = s[i] /\ s[i] # b
      /\ w[Len(s) + 1] = b
  BY AppendProperties, LenProperties DEF In
<1> HIDE DEF w
<1>2. Distinct(w)
  <2> SUFFICES ASSUME NEW i \in 1..Len(w), NEW j \in 1..Len(w), w[i] = w[j] PROVE i = j
    BY DEF Distinct
  <2>1. /\ i \in 1..Len(s) \/ i = Len(s) + 1
        /\ j \in 1..Len(s) \/ j = Len(s) + 1
    BY <1>1
  <2> QED BY <1>1, <2>1 DEF Distinct
<1>3. In(w) \subseteq In(s) \cup {b}
  <2> SUFFICES ASSUME NEW i \in 1..Len(w) PROVE w[i] \in In(s) \cup {b}
    BY DEF In
  <2>1. i \in 1..Len(s) \/ i = Len(s) + 1
    BY <1>1
  <2> QED BY <1>1, <2>1 DEF In
<1>4. In(s) \cup {b} \subseteq In(w)
  <2>1. Len(s) + 1 \in 1..Len(w) /\ \A i \in 1..Len(s) : i \in 1..Len(w)
    BY <1>1
  <2> QED BY <1>1, <2>1 DEF In
<1>5. QED
  BY <1>1, <1>2, <1>3, <1>4 DEF w

\* Buffers go to the front of the LRU list, the last one first (list_pre in a loop).
LEMMA PrependRight ==
    ASSUME CacheAssumption, NEW s \in Seq(Buf), Distinct(s), NEW m \in Nat, NEW n \in Buf, m < n,
           In(s) \subseteq 1..m
    PROVE  LET w == [i \in 1..(n - m) |-> n + 1 - i] \o s
           IN  /\ w \in Seq(Buf)
               /\ Distinct(w)
               /\ In(w) = In(s) \cup (m + 1)..n
<1> DEFINE k == n - m
           f == [i \in 1..k |-> n + 1 - i]
           w == f \o s
<1>0. n \in Nat /\ MaxBufs \in Nat /\ n <= MaxBufs /\ k \in Nat /\ n = m + k
  BY DEF CacheAssumption, Buf
<1> HIDE DEF k
<1>1. f \in [1..k -> Buf] /\ \A i \in 1..k : f[i] = n + 1 - i
  BY <1>0 DEF Buf
<1>2. f \in Seq(Buf) /\ Len(f) = k
  BY <1>0, <1>1, IsASeq, LenProperties
<1> HIDE DEF f
<1>a. /\ w \in Seq(Buf) /\ Len(w) = Len(f) + Len(s)
      /\ \A i \in 1..(Len(f) + Len(s)) : w[i] = IF i <= Len(f) THEN f[i] ELSE s[i - Len(f)]
  BY <1>2, ConcatProperties
<1>b. Len(s) \in Nat
  BY LenProperties
<1>c. w \in Seq(Buf) /\ Len(w) = k + Len(s)
  BY <1>2, <1>a
<1>d. \A i \in 1..(k + Len(s)) : w[i] = IF i <= k THEN f[i] ELSE s[i - k]
  BY <1>2, <1>a
<1> HIDE DEF w
<1>e. ASSUME NEW i \in 1..k PROVE i \in 1..Len(w) /\ w[i] = n + 1 - i
  <2>1. i \in 1..(k + Len(s)) /\ i <= k
    BY <1>0, <1>b
  <2> QED BY <1>1, <1>c, <1>d, <2>1
<1>f. ASSUME NEW i \in 1..Len(s) PROVE k + i \in 1..Len(w) /\ w[k + i] = s[i]
  <2>1. k + i \in 1..(k + Len(s)) /\ ~(k + i <= k) /\ (k + i) - k = i
    BY <1>0, <1>b
  <2> QED BY <1>c, <1>d, <2>1
<1>g. ASSUME NEW i \in 1..Len(w) PROVE i \in 1..k \/ \E j \in 1..Len(s) : i = k + j
  <2>1. i > k => i - k \in 1..Len(s) /\ i = k + (i - k)
    BY <1>0, <1>b, <1>c
  <2> QED BY <1>0, <1>b, <1>c, <2>1
<1>4. \A i \in 1..Len(s) : s[i] \in 1..m
  BY DEF In
<1>5. Distinct(w)
  <2> SUFFICES ASSUME NEW i \in 1..Len(w), NEW j \in 1..Len(w), w[i] = w[j] PROVE i = j
    BY DEF Distinct
  <2>1. CASE i \in 1..k /\ j \in 1..k
    <3>1. n + 1 - i = n + 1 - j
      BY <1>e, <2>1
    <3> QED BY <1>0, <2>1, <3>1
  <2>2. ASSUME NEW i1 \in 1..Len(s), NEW j1 \in 1..Len(s), i = k + i1, j = k + j1 PROVE i = j
    <3>1. s[i1] = s[j1]
      BY <1>f, <2>2
    <3> QED BY <2>2, <3>1 DEF Distinct
  <2>3. ASSUME NEW i1 \in 1..k, NEW j1 \in 1..Len(s) PROVE w[i1] # w[k + j1]
    <3>1. w[i1] = n + 1 - i1 /\ w[k + j1] \in 1..m
      BY <1>4, <1>e, <1>f
    <3> QED BY <1>0, <3>1
  <2> QED BY <1>g, <2>1, <2>2, <2>3
<1>6. ASSUME NEW i \in 1..Len(w) PROVE w[i] \in In(s) \cup (m + 1)..n
  <2>1. ASSUME i \in 1..k PROVE w[i] \in (m + 1)..n
    <3>1. w[i] = n + 1 - i
      BY <1>e, <2>1
    <3> QED BY <1>0, <2>1, <3>1
  <2>2. ASSUME NEW j \in 1..Len(s), i = k + j PROVE w[i] \in In(s)
    BY <1>f, <2>2 DEF In
  <2> QED BY <1>g, <2>1, <2>2
<1>7. ASSUME NEW i \in 1..Len(s) PROVE s[i] \in In(w)
  BY <1>f DEF In
<1>8. ASSUME NEW c \in (m + 1)..n PROVE c \in In(w)
  <2>1. n + 1 - c \in 1..k /\ n + 1 - (n + 1 - c) = c
    BY <1>0
  <2>2. w[n + 1 - c] = c /\ n + 1 - c \in 1..Len(w)
    BY <1>e, <2>1
  <2> QED BY <2>2 DEF In
<1>9. In(w) = In(s) \cup (m + 1)..n
  BY <1>6, <1>7, <1>8 DEF In
<1>10. QED
  BY <1>5, <1>9, <1>c DEF w, f, k

-----------------------------------------------------------------------------
(* What the operators that the actions share return.                       *)

\* A buffer with any number of references.
Record == [refcnt : Nat, valid : BOOLEAN, dirty : BOOLEAN,
           dev : Dev \cup {NoDev}, nr : Blk \cup {0}, data : Data]

\* A buffer with few enough references, as the table holds it.
LEMMA RecordIsBlock ==
    ASSUME CacheAssumption
    PROVE  /\ Block \subseteq Record
           /\ \A r \in Record : r.refcnt <= MaxRef => r \in Block
           /\ Zeroed \in Block
<1>1. MaxRef \in Nat /\ (CHOOSE v \in Val : TRUE) \in Val
  BY DEF CacheAssumption
<1>2. Zeroed \in Block
  BY <1>1 DEF Zeroed, Block, Data
<1>3. Block \subseteq Record
  BY <1>1 DEF Block, Record
<1>4. ASSUME NEW r \in Record, r.refcnt <= MaxRef PROVE r \in Block
  BY <1>1, <1>4 DEF Record, Block
<1>5. QED
  BY <1>2, <1>3, <1>4

\* The hash of a block number is a list.
LEMMA HashType == ASSUME CacheAssumption, NEW n \in Nat PROVE HashOf(n) \in List
BY DEF CacheAssumption, HashOf, List

\* blk_get returns a buffer of the block, with one more reference.
LEMMA TakenShape ==
    ASSUME CacheAssumption, TypeOK, NEW d \in Dev, NEW n \in Blk, NEW b \in Buf
    PROVE  LET t == Taken(d, n, b)
           IN  /\ t \in Record /\ t.refcnt >= 1
               /\ b \in Match(d, n) \/ Match(d, n) = {} => t.dev = d /\ t.nr = n
               /\ t.data = buf[b].data
               /\ t.refcnt = IF Match(d, n) # {} THEN buf[b].refcnt + 1 ELSE 1
               /\ t.valid <=> Match(d, n) # {} /\ buf[b].valid
               /\ t.dirty <=> Match(d, n) # {} /\ buf[b].dirty
<1>1. buf[b] \in Record
  BY RecordIsBlock DEF TypeOK
<1>2. CASE Match(d, n) # {}
  <2>1. b \in Match(d, n) => buf[b].dev = d /\ buf[b].nr = n
    BY DEF Match
  <2> QED BY <1>1, <1>2, <2>1 DEF Taken, Record
<1>3. CASE Match(d, n) = {}
  <2> DEFINE t == [buf[b] EXCEPT !.refcnt = 1, !.dev = d, !.nr = n,
                                 !.valid = FALSE, !.dirty = FALSE]
  <2>1. Taken(d, n, b) = t
    BY <1>3 DEF Taken
  <2>2. /\ t \in Record /\ t.refcnt = 1 /\ t.dev = d /\ t.nr = n /\ t.data = buf[b].data
        /\ ~t.valid /\ ~t.dirty
    BY <1>1 DEF Record
  <2> HIDE DEF t
  <2> QED BY <1>3, <2>1, <2>2
<1>4. QED
  BY <1>2, <1>3

\* blk_read returns a valid buffer.
LEMMA FilledShape ==
    ASSUME CacheAssumption, TypeOK, NEW d \in Dev, NEW n \in Blk, NEW b \in Buf
    PROVE  LET t == Taken(d, n, b)
               f == Filled(d, n, b)
           IN  /\ f \in Record
               /\ f.dev = t.dev /\ f.nr = t.nr /\ f.refcnt = t.refcnt /\ f.valid
               /\ f.dirty <=> t.dirty
               /\ f.data = IF t.valid THEN t.data ELSE disk[<<d, n>>]
<1> DEFINE t == Taken(d, n, b)
<1>1. t \in Record
  BY TakenShape
<1>2. disk[<<d, n>>] \in Data
  BY DEF TypeOK, Addr
<1>3. Filled(d, n, b) = IF t.valid THEN t ELSE [t EXCEPT !.data = disk[<<d, n>>], !.valid = TRUE]
  BY DEF Filled
<1> HIDE DEF t
<1>4. QED
  BY <1>1, <1>2, <1>3 DEF Record, t

\* A client's change of a buffer.
LEMMA StoredShape ==
    ASSUME NEW r \in Record, NEW P \in SUBSET Part, NEW v \in Val
    PROVE  LET s == Stored(r, P, v)
           IN  /\ s \in Record /\ s.dev = r.dev /\ s.nr = r.nr /\ s.refcnt = r.refcnt
               /\ s.valid /\ s.dirty
               /\ s.data \in [Part -> Val]
<1> DEFINE D == [p \in Part |-> IF p \in P THEN v ELSE r.data[p]]
<1>1. D \in Data /\ \A p \in Part : D[p] = IF p \in P THEN v ELSE r.data[p]
  BY DEF Record, Data
<1>2. Stored(r, P, v) = [r EXCEPT !.data = D, !.valid = TRUE, !.dirty = TRUE]
  BY DEF Stored
<1> HIDE DEF D
<1>3. QED
  BY <1>1, <1>2 DEF Record, Data

\* The parts it does not write are kept.
LEMMA StoredData ==
    ASSUME NEW r \in Record, NEW P \in SUBSET Part, NEW v \in Val, NEW p \in Part
    PROVE  Stored(r, P, v).data[p] = IF p \in P THEN v ELSE r.data[p]
<1> DEFINE D == [q \in Part |-> IF q \in P THEN v ELSE r.data[q]]
<1>1. D[p] = IF p \in P THEN v ELSE r.data[p]
  OBVIOUS
<1>2. Stored(r, P, v) = [r EXCEPT !.data = D, !.valid = TRUE, !.dirty = TRUE]
  BY DEF Stored
<1> HIDE DEF D
<1>3. QED
  BY <1>1, <1>2 DEF Record

\* blk_put's part of a buffer.
LEMMA ReleasedShape ==
    ASSUME NEW r \in Record, r.refcnt >= 1
    PROVE  LET s == Released(r)
           IN  /\ s \in Record /\ s.dev = r.dev /\ s.nr = r.nr /\ s.refcnt = r.refcnt - 1
               /\ s.valid = r.valid /\ s.dirty = r.dirty /\ s.data = r.data
BY DEF Released, Record

-----------------------------------------------------------------------------
(* The lists and the one copy of a block.                                  *)

ListInv ==
    /\ count \in InitBufs..MaxBufs
    /\ buf \in [Buf -> Block]
    /\ chain \in [Buf -> List \cup {NoList}]
    /\ lru \in Seq(Buf)
    /\ \A b \in Buf \ Buffers : buf[b] = Zeroed /\ chain[b] = NoList
    /\ ListsRight
    /\ OneCopy

MediaOK ==
    /\ opens \in [Dev -> 0..MaxRef]
    /\ errs \in 0..MaxErr
    /\ disk \in [Addr -> Data]
    /\ latest \in [Addr -> Data]
    /\ lost \subseteq Addr

\* The two halves of CacheRight.
LEMMA CacheParts == CacheRight <=> ListInv /\ MediaOK
BY DEF CacheRight, TypeOK, ListInv, MediaOK

\* Buffers are slots of the table.
LEMMA BufferFacts ==
    ASSUME CacheAssumption, count \in InitBufs..MaxBufs
    PROVE  Buffers \subseteq Buf /\ IsFiniteSet(Buf) /\ count \in Nat
<1>1. InitBufs \in Nat /\ MaxBufs \in Nat /\ count \in Nat /\ count <= MaxBufs
  BY DEF CacheAssumption
<1>2. QED
  BY <1>1, FS_Interval DEF Buffers, Buf

\* The buffers of the LRU list are the released ones, and there once.
LEMMA LruFacts ==
    ASSUME ListsRight
    PROVE  Distinct(lru) /\ In(lru) = {b \in Buffers : buf[b].refcnt = 0}
BY DEF ListsRight, Distinct, In, InLru

\* blk_get finds a buffer of the block or takes a released one.
LEMMA FoundFacts ==
    ASSUME CacheAssumption, CacheRight, NEW d \in Dev, NEW n \in Blk, NEW b \in Found(d, n)
    PROVE  /\ b \in Match(d, n) \/ (Match(d, n) = {} /\ buf[b].refcnt = 0)
           /\ Match(d, n) = {} =>
                 \A c \in Buffers : buf[c].refcnt > 0 \/ buf[c].valid => AddrOf(c) # <<d, n>>
<1>1. CASE Match(d, n) # {}
  BY <1>1 DEF Found
<1>2. CASE Match(d, n) = {}
  <2>1. lru # <<>> /\ b = Head(lru) /\ lru \in Seq(Buf)
    BY <1>2 DEF Found, Victim, CacheRight, TypeOK
  <2>2. b = lru[1] /\ 1 \in 1..Len(lru)
    BY <2>1, HeadTailProperties, LenProperties
  <2>3. buf[b].refcnt = 0
    BY <2>2, LruFacts DEF CacheRight, In
  <2>4. ASSUME NEW c \in Buffers, buf[c].refcnt > 0 \/ buf[c].valid PROVE AddrOf(c) # <<d, n>>
    <3> SUFFICES ASSUME buf[c].dev = d, buf[c].nr = n PROVE FALSE
      BY DEF AddrOf
    <3>1. d # NoDev
      BY DEF CacheAssumption
    <3>2. chain[c] = HashOf(n)
      BY <3>1 DEF CacheRight, ListsRight
    <3>3. c \in Match(d, n)
      BY <2>4, <3>2 DEF Match
    <3> QED BY <1>2, <3>3
  <2> QED BY <1>2, <2>3, <2>4
<1>3. QED
  BY <1>1, <1>2

\* blk_get, and what its caller leaves in the buffer.
LEMMA GetLists ==
    ASSUME CacheAssumption, CacheRight, NEW d \in Dev, NEW n \in Blk, NEW b \in Buffers, NEW F,
           NEW new \in Record, new.dev = d, new.nr = n, Get(d, n, b, F, new), count' = count
    PROVE  ListInv'
<1>0. /\ count \in InitBufs..MaxBufs /\ buf \in [Buf -> Block] /\ lru \in Seq(Buf)
      /\ chain \in [Buf -> List \cup {NoList}]
      /\ \A c \in Buf \ Buffers : buf[c] = Zeroed /\ chain[c] = NoList
      /\ Buffers' = Buffers /\ Buffers \subseteq Buf
  BY BufferFacts DEF CacheRight, TypeOK, Buffers
<1>1. /\ b \in Found(d, n) /\ new \in Block
      /\ buf' = [buf EXCEPT ![b] = new] /\ chain' = [chain EXCEPT ![b] = HashOf(n)]
      /\ lru' = IF new.refcnt = 0 THEN Append(Without(lru, b), b) ELSE Without(lru, b)
  BY RecordIsBlock DEF Get
<1>2. /\ buf'[b] = new /\ chain'[b] = HashOf(n)
      /\ \A c \in Buf \ {b} : buf'[c] = buf[c] /\ chain'[c] = chain[c]
      /\ buf' \in [Buf -> Block]
  BY <1>0, <1>1
<1>3. chain' \in [Buf -> List \cup {NoList}]
  <2>1. HashOf(n) \in List
    BY HashType DEF CacheAssumption
  <2> QED BY <1>0, <1>1, <2>1
<1>4. Distinct(lru) /\ In(lru) = {c \in Buffers : buf[c].refcnt = 0}
  BY LruFacts DEF CacheRight
<1>5. /\ lru' \in Seq(Buf) /\ Distinct(lru')
      /\ In(lru') = IF new.refcnt = 0 THEN (In(lru) \ {b}) \cup {b} ELSE In(lru) \ {b}
  <2>1. /\ Without(lru, b) \in Seq(Buf) /\ Distinct(Without(lru, b))
        /\ In(Without(lru, b)) = In(lru) \ {b}
    BY <1>0, <1>4, WithoutRight
  <2>2. CASE new.refcnt = 0
    BY <1>0, <1>1, <2>1, <2>2, AppendRight
  <2>3. CASE new.refcnt # 0
    BY <1>1, <2>1, <2>3
  <2> QED BY <2>2, <2>3
<1>6. ListsRight'
  <2>1. \A c \in Buffers : buf'[c].dev # NoDev => chain'[c] = HashOf(buf'[c].nr)
    BY <1>0, <1>2 DEF CacheRight, ListsRight
  <2>2. In(lru') = {c \in Buffers : buf'[c].refcnt = 0}
    BY <1>0, <1>2, <1>4, <1>5
  <2> QED BY <1>0, <1>5, <2>1, <2>2 DEF ListsRight, Distinct, In, InLru
<1>7. OneCopy'
  <2> SUFFICES ASSUME NEW a \in Buffers, NEW c \in Buffers,
                      buf'[a].refcnt > 0 \/ buf'[a].valid, buf'[c].refcnt > 0 \/ buf'[c].valid,
                      <<buf'[a].dev, buf'[a].nr>> = <<buf'[c].dev, buf'[c].nr>>
               PROVE  a = c
    BY <1>0 DEF OneCopy, AddrOf
  <2>1. ASSUME NEW e \in Buffers, e # b, buf[e].refcnt > 0 \/ buf[e].valid
        PROVE  <<buf[e].dev, buf[e].nr>> # <<d, n>>
    <3>1. CASE b \in Match(d, n)
      <4>1. AddrOf(b) = <<d, n>> /\ (buf[b].refcnt > 0 \/ buf[b].valid)
        BY <3>1 DEF Match, AddrOf
      <4> QED BY <2>1, <4>1 DEF CacheRight, OneCopy, AddrOf
    <3>2. CASE Match(d, n) = {}
      BY <1>1, <2>1, <3>2, FoundFacts DEF AddrOf
    <3> QED BY <1>1, <3>1, <3>2, FoundFacts
  <2>2. <<new.dev, new.nr>> = <<d, n>>
    OBVIOUS
  <2>3. CASE a # b /\ c # b
    BY <1>0, <1>2, <2>3 DEF CacheRight, OneCopy, AddrOf
  <2>4. CASE a = b /\ c # b
    BY <1>0, <1>2, <2>1, <2>2, <2>4
  <2>5. CASE a # b /\ c = b
    BY <1>0, <1>2, <2>1, <2>2, <2>5
  <2> QED BY <2>3, <2>4, <2>5
<1>8. QED
  BY <1>0, <1>2, <1>3, <1>5, <1>6, <1>7 DEF ListInv

\* A step that changes neither lists, references nor addresses, and gives no
\* released buffer a content.
LEMMA CalmLists ==
    ASSUME CacheAssumption, CacheRight, UNCHANGED <<count, chain, lru>>, buf' \in [Buf -> Block],
           \A b \in Buf \ Buffers : buf'[b] = buf[b],
           \A b \in Buffers : /\ buf'[b].refcnt = buf[b].refcnt
                              /\ buf'[b].dev = buf[b].dev /\ buf'[b].nr = buf[b].nr
                              /\ buf'[b].valid => buf[b].refcnt > 0 \/ buf[b].valid
    PROVE  ListInv'
<1>1. Buffers' = Buffers /\ InLru' = InLru
  BY DEF Buffers, InLru
<1>2. ListsRight'
  BY <1>1 DEF CacheRight, ListsRight
<1>3. OneCopy'
  BY <1>1 DEF CacheRight, OneCopy, AddrOf
<1>4. QED
  BY <1>1, <1>2, <1>3 DEF CacheRight, TypeOK, ListInv

\* A changed buffer holds a block, and a buffer that holds one knows which.
Held ==
    \A b \in Buffers : /\ buf[b].dirty => buf[b].valid
                       /\ buf[b].valid => AddrOf(b) \in Addr

\* The inductive invariant of the lists.
CacheInv == CacheRight /\ Held

\* blk_write of changed buffers leaves contents on the media.
LEMMA WrittenType ==
    ASSUME CacheInv, NEW W \in SUBSET Buf, NEW F PROVE Written(W, F) \in [Addr -> Data]
<1>1. disk \in [Addr -> Data] /\ \A b \in Buf : buf[b].data \in Data
  BY DEF CacheInv, CacheRight, TypeOK, Block
<1>2. QED
  BY <1>1 DEF Written

\* The counter of errors stays within its bound.
LEMMA ErrsType ==
    ASSUME CacheAssumption, CacheInv, NEW F \in SUBSET Buf
    PROVE  /\ Cardinality(F) \in Nat
           /\ errs + Cardinality(F) <= MaxErr => errs + Cardinality(F) \in 0..MaxErr
<1>1. IsFiniteSet(F)
  BY BufferFacts, FS_Subset DEF CacheInv, CacheRight, TypeOK
<1>2. Cardinality(F) \in Nat /\ errs \in 0..MaxErr /\ MaxErr \in Nat
  BY <1>1, FS_CardinalityType DEF CacheInv, CacheRight, TypeOK, CacheAssumption
<1>3. QED
  BY <1>2

\* What blk_write fails to write are blocks.
LEMMA LostType ==
    ASSUME CacheInv, NEW F \in SUBSET {b \in Buffers : buf[b].dirty} PROVE LostBy(F) \subseteq Addr
BY DEF LostBy, CacheInv, Held

\* The buffer that blk_get gives up is written when it is dirty.
LEMMA EvictedFacts ==
    ASSUME NEW d, NEW n, NEW b \in Buffers
    PROVE  Evicted(d, n, b) \in SUBSET {c \in Buffers : buf[c].dirty}
BY DEF Evicted

\* blk_get and what its callers do with the buffer.
LEMMA GetCache ==
    ASSUME CacheAssumption, CacheInv, NEW d \in Dev, NEW n \in Blk, NEW b \in Buffers, NEW F,
           NEW new \in Record, new.dev = d, new.nr = n, new.dirty => new.valid,
           Get(d, n, b, F, new), UNCHANGED <<count, opens>>, errs' \in 0..MaxErr,
           latest' \in [Addr -> Data], lost' \subseteq lost \cup LostBy(F)
    PROVE  CacheInv'
<1>1. ListInv'
  BY GetLists DEF CacheInv
<1>2. F \subseteq Evicted(d, n, b) /\ disk' = Written(Evicted(d, n, b), F)
      /\ buf' = [buf EXCEPT ![b] = new]
  BY DEF Get, WriteOut
<1>3. Buffers \subseteq Buf /\ Buffers' = Buffers /\ buf \in [Buf -> Block]
  BY BufferFacts DEF CacheInv, CacheRight, TypeOK, Buffers
<1>4. Evicted(d, n, b) \in SUBSET {c \in Buffers : buf[c].dirty}
  BY EvictedFacts
<1>5. disk' \in [Addr -> Data] /\ LostBy(F) \subseteq Addr
  BY <1>2, <1>3, <1>4, WrittenType, LostType
<1>6. MediaOK'
  BY <1>5 DEF MediaOK, CacheInv, CacheRight, TypeOK
<1>7. Held'
  <2>1. /\ buf'[b] = new /\ <<new.dev, new.nr>> \in Addr
        /\ \A c \in Buffers \ {b} : buf'[c] = buf[c]
    BY <1>2, <1>3 DEF Addr
  <2> QED BY <1>3, <2>1 DEF CacheInv, Held, AddrOf
<1>8. QED
  BY <1>1, <1>6, <1>7 DEF CacheInv, CacheRight, TypeOK, ListInv, MediaOK

\* Reads, failing reads and writes through the cache.
LEMMA TransferCache ==
    ASSUME CacheAssumption, CacheInv, NEW d \in Dev, NEW n \in Blk, NEW b \in Buffers,
           NEW F \in SUBSET {b},
           \/ Read(d, n, b, F) \/ ReadFails(d, n, b, F)
           \/ \E P \in (SUBSET Part) \ {{}}, v \in Val : Pwrite(d, n, b, F, P, v)
    PROVE  CacheInv'
<1>0. b \in Buf /\ F \in SUBSET Buf /\ TypeOK /\ CacheRight
  BY BufferFacts DEF CacheInv, CacheRight, TypeOK
<1>1. b \in Found(d, n) /\ errs + Cardinality(F) <= MaxErr
  BY DEF Read, ReadFails, Pwrite, Get, WriteOut
<1>2. b \in Match(d, n) \/ Match(d, n) = {}
  BY <1>0, <1>1, FoundFacts
<1>3. /\ Taken(d, n, b) \in Record /\ Taken(d, n, b).dev = d /\ Taken(d, n, b).nr = n
      /\ Taken(d, n, b).refcnt >= 1
      /\ Taken(d, n, b).valid <=> Match(d, n) # {} /\ buf[b].valid
      /\ Taken(d, n, b).dirty <=> Match(d, n) # {} /\ buf[b].dirty
  BY <1>0, <1>2, TakenShape
<1>4. /\ Filled(d, n, b) \in Record /\ Filled(d, n, b).dev = d /\ Filled(d, n, b).nr = n
      /\ Filled(d, n, b).refcnt >= 1 /\ Filled(d, n, b).valid
  BY <1>0, <1>3, FilledShape
<1>5. /\ Cardinality(F) \in Nat /\ errs + Cardinality(F) \in 0..MaxErr
      /\ errs \in 0..MaxErr /\ MaxErr \in Nat
      /\ latest \in [Addr -> Data] /\ <<d, n>> \in Addr
  BY <1>0, <1>1, ErrsType DEF TypeOK, CacheAssumption, Addr
<1>6. CASE Read(d, n, b, F)
  BY <1>4, <1>5, <1>6, GetCache DEF Read
<1>7. CASE ReadFails(d, n, b, F)
  <2> DEFINE r == Released(Taken(d, n, b))
  <2>1. /\ r \in Record /\ r.dev = d /\ r.nr = n
        /\ r.valid = Taken(d, n, b).valid /\ r.dirty = Taken(d, n, b).dirty
    BY <1>3, ReleasedShape
  <2>2. r.dirty => r.valid
    BY <1>3, <2>1 DEF CacheInv, Held
  <2>3. /\ Get(d, n, b, F, r) /\ UNCHANGED <<count, opens, latest>>
        /\ errs' = errs + Cardinality(F) + 1 /\ errs + Cardinality(F) + 1 <= MaxErr
        /\ lost' = lost \cup LostBy(F)
    BY <1>7 DEF ReadFails
  <2> HIDE DEF r
  <2>4. errs' \in 0..MaxErr
    BY <1>5, <2>3
  <2> QED BY <1>5, <2>1, <2>2, <2>3, <2>4, GetCache
<1>8. ASSUME NEW P \in (SUBSET Part) \ {{}}, NEW v \in Val, Pwrite(d, n, b, F, P, v) PROVE CacheInv'
  <2> DEFINE base == Based(d, n, b, P)
             st == Stored(base, P, v)
             r == Released(st)
  <2>1. base \in Record /\ base.dev = d /\ base.nr = n /\ base.refcnt >= 1
    BY <1>3, <1>4 DEF Based
  <2> HIDE DEF base
  <2>a. /\ st \in Record /\ st.dev = base.dev /\ st.nr = base.nr /\ st.refcnt = base.refcnt
        /\ st.valid /\ st.dirty
    BY <2>1, StoredShape
  <2>2. st \in Record /\ st.dev = d /\ st.nr = n /\ st.refcnt >= 1 /\ st.valid /\ st.dirty
    BY <2>1, <2>a
  <2> HIDE DEF st
  <2>3. r \in Record /\ r.dev = d /\ r.nr = n /\ r.valid
    BY <2>2, ReleasedShape
  <2>4. /\ Get(d, n, b, F, r) /\ UNCHANGED <<count, opens>>
        /\ errs' = errs + Cardinality(F) /\ Note(<<d, n>>, P, v, F)
    BY <1>8 DEF Pwrite, r, st, base
  <2> HIDE DEF r
  <2>5. latest' \in [Addr -> Data] /\ lost' \subseteq lost \cup LostBy(F)
    <3>1. \A D \in Data : [p \in Part |-> IF p \in P THEN v ELSE D[p]] \in Data
      BY DEF Data
    <3> QED BY <1>5, <2>4, <3>1 DEF Note
  <2> QED BY <1>5, <2>3, <2>4, <2>5, GetCache
<1>9. QED
  BY <1>6, <1>7, <1>8

\* A buffer after its turn in blk_syncdev.
LEMMA SyncedShape ==
    ASSUME NEW r \in Block, NEW write \in BOOLEAN, NEW inval \in BOOLEAN
    PROVE  LET s == Synced(r, write, inval)
           IN  /\ s \in Block /\ s.refcnt = r.refcnt /\ s.dev = r.dev /\ s.nr = r.nr
               /\ s.data = r.data
               /\ s.dirty <=> r.dirty /\ ~write
               /\ s.valid <=> r.valid /\ ~(inval /\ (write \/ ~r.dirty))
BY DEF Synced, Block

\* The buffers of a list are buffers of the table.
LEMMA SyncSetFacts ==
    ASSUME CacheAssumption, CacheRight, NEW D
    PROVE  SyncSet(D) \in SUBSET Buffers /\ \A b \in SyncSet(D) : buf[b].dev \in D
BY DEF SyncSet, CacheRight, ListsRight

\* blk_syncdev and blk_syncall.
LEMMA SyncCache ==
    ASSUME CacheAssumption, CacheInv, NEW D, NEW write \in BOOLEAN, NEW inval \in BOOLEAN, NEW F,
           Sync(D, write, inval, F), UNCHANGED <<count, chain, lru, latest>>,
           opens' \in [Dev -> 0..MaxRef]
    PROVE  CacheInv'
<1> DEFINE S == SyncSet(D)
           W == IF write THEN {b \in S : buf[b].dirty} ELSE {}
<1>0. S \in SUBSET Buffers /\ Buffers \subseteq Buf /\ Buffers' = Buffers /\ buf \in [Buf -> Block]
  BY SyncSetFacts, BufferFacts DEF CacheInv, CacheRight, TypeOK, Buffers
<1>1. /\ F \subseteq W /\ disk' = Written(W, F) /\ errs + Cardinality(F) <= MaxErr
      /\ buf' = [b \in Buf |-> IF b \in S THEN Synced(buf[b], write, inval) ELSE buf[b]]
      /\ errs' = errs + Cardinality(F) /\ lost' = lost \cup LostBy(F)
  BY DEF Sync, WriteOut
<1> HIDE DEF S
<1>2. W \in SUBSET {b \in Buffers : buf[b].dirty}
  BY <1>0
<1> HIDE DEF W
<1>3. \A b \in Buf : /\ buf'[b] \in Block /\ buf'[b].refcnt = buf[b].refcnt
                     /\ buf'[b].dev = buf[b].dev /\ buf'[b].nr = buf[b].nr
                     /\ buf'[b].valid => buf[b].valid
                     /\ (buf[b].dirty => buf[b].valid) => (buf'[b].dirty => buf'[b].valid)
                     /\ b \notin Buffers => buf'[b] = buf[b]
  BY <1>0, <1>1, SyncedShape
<1>4. buf' \in [Buf -> Block]
  BY <1>1, <1>3
<1>5. ListInv'
  BY <1>0, <1>3, <1>4, CalmLists DEF CacheInv
<1>6. MediaOK'
  <2>1. F \in SUBSET Buf /\ W \in SUBSET Buf /\ F \in SUBSET {b \in Buffers : buf[b].dirty}
    BY <1>0, <1>1, <1>2
  <2>2. disk' \in [Addr -> Data] /\ errs' \in 0..MaxErr /\ LostBy(F) \subseteq Addr
    BY <1>1, <2>1, WrittenType, ErrsType, LostType
  <2> QED BY <1>1, <2>2 DEF MediaOK, CacheInv, CacheRight, TypeOK
<1>7. Held'
  BY <1>0, <1>3 DEF CacheInv, Held, AddrOf
<1>8. QED
  BY <1>5, <1>6, <1>7 DEF CacheInv, CacheRight, TypeOK, ListInv, MediaOK

\* Changes and writes of a block that a client holds.
LEMMA HolderCache ==
    ASSUME CacheAssumption, CacheInv, NEW b \in Buffers,
           \/ \E P \in (SUBSET Part) \ {{}}, v \in Val : Modify(b, P, v)
           \/ \E F \in SUBSET {b} : Write(b, F)
    PROVE  CacheInv'
<1>0. /\ b \in Buf /\ Buffers \subseteq Buf /\ buf \in [Buf -> Block] /\ buf[b] \in Block
      /\ buf[b].refcnt > 0 /\ buf[b].valid /\ AddrOf(b) \in Addr /\ CacheRight
      /\ latest \in [Addr -> Data]
  BY BufferFacts DEF CacheInv, CacheRight, TypeOK, Held, Modify, Write
<1>1. ASSUME NEW P \in SUBSET Part, NEW v \in Val, Modify(b, P, v) PROVE CacheInv'
  <2> DEFINE st == Stored(buf[b], P, v)
  <2>1. /\ buf' = [buf EXCEPT ![b] = st] /\ UNCHANGED <<count, chain, lru, opens, errs, disk>>
        /\ Note(AddrOf(b), P, v, {})
    BY <1>1 DEF Modify
  <2>2. buf[b] \in Record /\ MaxRef \in Nat /\ buf[b].refcnt <= MaxRef
    BY <1>0, RecordIsBlock DEF CacheAssumption, Block
  <2>3. /\ st \in Record /\ st.dev = buf[b].dev /\ st.nr = buf[b].nr
        /\ st.refcnt = buf[b].refcnt /\ st.valid
    BY <2>2, StoredShape
  <2>4. st \in Block
    BY <2>2, <2>3, RecordIsBlock
  <2> HIDE DEF st
  <2>5. /\ buf' \in [Buf -> Block] /\ buf'[b] = st
        /\ \A c \in Buf \ {b} : buf'[c] = buf[c]
    BY <1>0, <2>1, <2>4
  <2>6. ListInv'
    BY <1>0, <2>1, <2>3, <2>5, CalmLists
  <2>7. latest' \in [Addr -> Data] /\ lost' \subseteq lost
    <3>1. \A E \in Data : [p \in Part |-> IF p \in P THEN v ELSE E[p]] \in Data
      BY DEF Data
    <3>2. LostBy({}) = {}
      BY DEF LostBy
    <3> QED BY <1>0, <2>1, <3>1, <3>2 DEF Note
  <2>8. MediaOK'
    BY <2>1, <2>7 DEF MediaOK, CacheInv, CacheRight, TypeOK
  <2>9. Held'
    BY <1>0, <2>1, <2>3, <2>5 DEF CacheInv, Held, AddrOf, Buffers
  <2> QED BY <2>6, <2>8, <2>9 DEF CacheInv, CacheRight, TypeOK, ListInv, MediaOK
<1>2. ASSUME NEW F \in SUBSET {b}, Write(b, F) PROVE CacheInv'
  <2> DEFINE r == [buf[b] EXCEPT !.dirty = FALSE]
  <2>1. /\ buf' = [buf EXCEPT ![b] = r] /\ UNCHANGED <<count, chain, lru, opens, latest>>
        /\ disk' = Written({b}, F) /\ errs + Cardinality(F) <= MaxErr
        /\ errs' = errs + Cardinality(F) /\ lost' = lost \cup LostBy(F) /\ buf[b].dirty
    BY <1>2 DEF Write, WriteOut
  <2>2. /\ r \in Block /\ r.dev = buf[b].dev /\ r.nr = buf[b].nr /\ r.refcnt = buf[b].refcnt
        /\ r.valid = buf[b].valid /\ ~r.dirty
    BY <1>0 DEF Block
  <2> HIDE DEF r
  <2>5. /\ buf' \in [Buf -> Block] /\ buf'[b] = r
        /\ \A c \in Buf \ {b} : buf'[c] = buf[c]
    BY <1>0, <2>1, <2>2
  <2>6. ListInv'
    BY <1>0, <2>1, <2>2, <2>5, CalmLists
  <2>7. MediaOK'
    <3>1. F \in SUBSET Buf /\ {b} \in SUBSET Buf /\ F \in SUBSET {c \in Buffers : buf[c].dirty}
      BY <1>0, <2>1
    <3>2. disk' \in [Addr -> Data] /\ errs' \in 0..MaxErr /\ LostBy(F) \subseteq Addr
      BY <2>1, <3>1, WrittenType, ErrsType, LostType
    <3> QED BY <2>1, <3>2 DEF MediaOK, CacheInv, CacheRight, TypeOK
  <2>8. Held'
    BY <1>0, <2>1, <2>2, <2>5 DEF CacheInv, Held, AddrOf, Buffers
  <2> QED BY <2>6, <2>7, <2>8 DEF CacheInv, CacheRight, TypeOK, ListInv, MediaOK
<1>3. QED
  BY <1>1, <1>2

\* blk_put: the last reference gives the buffer back to the LRU list.
LEMMA PutCache == ASSUME CacheAssumption, CacheInv, NEW b \in Buffers, Put(b) PROVE CacheInv'
<1>0. /\ b \in Buf /\ Buffers \subseteq Buf /\ buf \in [Buf -> Block] /\ buf[b] \in Block
      /\ buf[b].refcnt > 0 /\ lru \in Seq(Buf) /\ CacheRight
      /\ UNCHANGED <<count, chain, opens, errs, disk, latest, lost>> /\ Buffers' = Buffers
      /\ lru' = IF buf[b].refcnt = 1 THEN Append(lru, b) ELSE lru
  BY BufferFacts DEF CacheInv, CacheRight, TypeOK, Put, Buffers
<1> DEFINE r == Released(buf[b])
<1>1. buf[b] \in Record /\ buf[b].refcnt \in 0..MaxRef /\ MaxRef \in Nat
  BY <1>0, RecordIsBlock DEF CacheAssumption, Block
<1>2. /\ r \in Record /\ r.dev = buf[b].dev /\ r.nr = buf[b].nr /\ r.refcnt = buf[b].refcnt - 1
      /\ r.valid = buf[b].valid /\ r.dirty = buf[b].dirty
  BY <1>0, <1>1, ReleasedShape
<1>3. r \in Block
  BY <1>1, <1>2, RecordIsBlock
<1>4. /\ buf' \in [Buf -> Block] /\ buf'[b] = r
      /\ \A c \in Buf \ {b} : buf'[c] = buf[c]
  BY <1>0, <1>3 DEF Put
<1> HIDE DEF r
<1>5. Distinct(lru) /\ In(lru) = {c \in Buffers : buf[c].refcnt = 0}
  BY <1>0, LruFacts DEF CacheRight
<1>6. /\ lru' \in Seq(Buf) /\ Distinct(lru')
      /\ In(lru') = IF buf[b].refcnt = 1 THEN In(lru) \cup {b} ELSE In(lru)
  <2>1. CASE buf[b].refcnt = 1
    <3>1. b \notin In(lru)
      BY <1>5, <2>1
    <3> QED BY <1>0, <1>5, <2>1, <3>1, AppendRight
  <2>2. CASE buf[b].refcnt # 1
    BY <1>0, <1>5, <2>2
  <2> QED BY <2>1, <2>2
<1>7. In(lru') = {c \in Buffers : buf'[c].refcnt = 0}
  <2>1. r.refcnt = 0 <=> buf[b].refcnt = 1
    BY <1>1, <1>2
  <2> QED BY <1>0, <1>4, <1>5, <1>6, <2>1
<1>8. ListsRight'
  <2>1. \A c \in Buffers : buf'[c].dev # NoDev => chain'[c] = HashOf(buf'[c].nr)
    BY <1>0, <1>2, <1>4 DEF CacheRight, ListsRight
  <2> QED BY <1>0, <1>6, <1>7, <2>1 DEF ListsRight, Distinct, In, InLru
<1>9. OneCopy'
  BY <1>0, <1>2, <1>4 DEF CacheRight, OneCopy, AddrOf
<1>10. Held'
  BY <1>0, <1>2, <1>4 DEF CacheInv, Held, AddrOf
<1>11. QED
  BY <1>0, <1>4, <1>6, <1>8, <1>9, <1>10 DEF CacheInv, CacheRight, TypeOK

\* No buffer has been used.
Empty ==
    /\ count = InitBufs
    /\ buf = [b \in Buf |-> Zeroed]
    /\ chain = [b \in Buf |-> IF b =< InitBufs THEN 0 ELSE NoList]
    /\ lru = [i \in 1..InitBufs |-> i]

\* blk_init.
LEMMA EmptyCache == ASSUME CacheAssumption, Empty PROVE ListInv /\ Held
<1> USE DEF Empty
<1>0. /\ InitBufs \in Nat \ {0} /\ MaxBufs \in Nat /\ InitBufs <= MaxBufs /\ NrLists \in Nat \ {0}
      /\ Buffers = 1..InitBufs /\ Buffers \subseteq Buf
  BY DEF CacheAssumption, Buffers, Buf
<1>1. \A b \in Buf : buf[b] = Zeroed /\ Zeroed \in Block
  BY RecordIsBlock
<1>2. Zeroed.refcnt = 0 /\ ~Zeroed.valid /\ ~Zeroed.dirty /\ Zeroed.dev = NoDev
  BY DEF Zeroed
<1>3. chain \in [Buf -> List \cup {NoList}]
  BY <1>0 DEF List
<1>4. \A b \in Buf \ Buffers : chain[b] = NoList
  BY <1>0 DEF Buf
<1>5. lru \in [1..InitBufs -> Buf]
  BY <1>0
<1>6. lru \in Seq(Buf) /\ Len(lru) = InitBufs
  BY <1>0, <1>5, IsASeq, LenProperties
<1>7. \A i \in 1..InitBufs : lru[i] = i
  OBVIOUS
<1>8. ListsRight
  <2>1. InLru = Buffers
    BY <1>0, <1>6, <1>7 DEF InLru
  <2> QED BY <1>0, <1>1, <1>2, <1>6, <1>7, <2>1 DEF ListsRight
<1>9. OneCopy
  BY <1>0, <1>1, <1>2 DEF OneCopy
<1>10. Held
  BY <1>0, <1>1, <1>2 DEF Held
<1>11. QED
  BY <1>0, <1>1, <1>3, <1>4, <1>6, <1>8, <1>9, <1>10 DEF ListInv

\* The same after a reboot.
LEMMA EmptyAgain == ASSUME CacheAssumption PROVE Empty' => (ListInv /\ Held)'
<1>1. Empty => ListInv /\ Held
  BY EmptyCache
<1>2. QED
  BY <1>1, PTL

\* A step that leaves the buffers alone.
LEMMA SameCache ==
    ASSUME CacheAssumption, CacheInv, UNCHANGED <<count, buf, chain, lru>>, MediaOK' PROVE CacheInv'
<1>1. Buffers \subseteq Buf /\ Buffers' = Buffers /\ buf \in [Buf -> Block]
  BY BufferFacts DEF CacheInv, CacheRight, TypeOK, Buffers
<1>2. ListInv'
  BY <1>1, CalmLists DEF CacheInv
<1>3. Held'
  BY <1>1 DEF CacheInv, Held, AddrOf
<1>4. QED
  BY <1>2, <1>3 DEF CacheInv, CacheRight, TypeOK, ListInv, MediaOK

\* The initial state.
LEMMA InitCache == ASSUME CacheAssumption, Init PROVE CacheInv
<1>1. ListInv /\ Held
  BY EmptyCache DEF Init, Empty
<1>2. MediaOK
  BY DEF Init, MediaOK, CacheAssumption
<1>3. QED
  BY <1>1, <1>2 DEF CacheInv, CacheRight, TypeOK, ListInv, MediaOK

\* blk_add.
LEMMA AddCache == ASSUME CacheAssumption, CacheInv, NEW n \in Buf, BlkAdd(n) PROVE CacheInv'
<1>0. /\ n > count /\ n <= MaxBufs /\ count' = n /\ buf' = Added(n)
      /\ lru' = [i \in 1..(n - count) |-> n + 1 - i] \o lru
      /\ UNCHANGED <<chain, opens, errs, disk, latest, lost>>
      /\ count \in Nat /\ count \in InitBufs..MaxBufs /\ n \in Nat /\ MaxBufs \in Nat
      /\ InitBufs \in Nat
      /\ buf \in [Buf -> Block] /\ lru \in Seq(Buf) /\ CacheRight
  BY BufferFacts DEF BlkAdd, CacheInv, CacheRight, TypeOK, Buf, CacheAssumption
<1>1. /\ Buffers' = 1..n /\ Buffers = 1..count /\ Buffers \subseteq Buffers'
      /\ Buffers' = Buffers \cup (count + 1)..n /\ Buffers' \subseteq Buf
      /\ Buffers \cap (count + 1)..n = {}
  BY <1>0 DEF Buffers, Buf
<1>2. /\ \A b \in Buffers : buf'[b] = buf[b]
      /\ \A b \in Buf \ Buffers : buf'[b] = Zeroed
      /\ buf' \in [Buf -> Block]
  <2>1. \A b \in Buf : buf'[b] = IF b > count /\ b =< n THEN Zeroed ELSE buf[b]
    BY <1>0 DEF Added
  <2>2. \A b \in Buf \ Buffers : buf[b] = Zeroed
    BY <1>0 DEF CacheRight, TypeOK
  <2>3. \A b \in Buffers : b \in Buf /\ ~(b > count)
    BY <1>0, <1>1
  <2>4. Zeroed \in Block
    BY RecordIsBlock
  <2>5. buf' \in [Buf -> Block]
    BY <1>0, <2>4 DEF Added
  <2> QED BY <2>1, <2>2, <2>3, <2>5
<1>3. Zeroed.refcnt = 0 /\ ~Zeroed.valid /\ ~Zeroed.dirty /\ Zeroed.dev = NoDev
  BY DEF Zeroed
<1>4. Distinct(lru) /\ In(lru) = {c \in Buffers : buf[c].refcnt = 0}
  BY <1>0, LruFacts DEF CacheRight
<1>5. lru' \in Seq(Buf) /\ Distinct(lru') /\ In(lru') = In(lru) \cup (count + 1)..n
  <2>1. In(lru) \subseteq 1..count
    BY <1>1, <1>4
  <2> QED BY <1>0, <1>4, <2>1, PrependRight
<1>6. In(lru') = {c \in Buffers' : buf'[c].refcnt = 0}
  BY <1>1, <1>2, <1>3, <1>4, <1>5
<1>7. ListsRight'
  <2>1. \A c \in Buffers' : buf'[c].dev # NoDev => chain'[c] = HashOf(buf'[c].nr)
    BY <1>0, <1>1, <1>2, <1>3 DEF CacheRight, ListsRight
  <2> QED BY <1>5, <1>6, <2>1 DEF ListsRight, Distinct, In, InLru
<1>8. OneCopy'
  BY <1>0, <1>1, <1>2, <1>3 DEF CacheRight, OneCopy, AddrOf
<1>9. Held'
  BY <1>1, <1>2, <1>3 DEF CacheInv, Held, AddrOf
<1>10. TypeOK'
  BY <1>0, <1>1, <1>2, <1>5 DEF CacheRight, TypeOK
<1>11. QED
  BY <1>7, <1>8, <1>9, <1>10 DEF CacheInv, CacheRight

\* Opening and closing devices, other media, and a power failure.
LEMMA DeviceCache ==
    ASSUME CacheAssumption, CacheInv,
           \/ \E d \in Dev : Open(d)
           \/ \E d \in Dev, ok \in BOOLEAN, F \in SUBSET Buffers : Close(d, ok, F)
           \/ \E d \in Dev, v \in Val : ExchangeMedium(d, [p \in Part |-> v])
           \/ Crash
    PROVE  CacheInv'
<1>0. MaxRef \in Nat /\ MaxErr \in Nat /\ opens \in [Dev -> 0..MaxRef] /\ CacheRight
  BY DEF CacheAssumption, CacheInv, CacheRight, TypeOK
<1>1. ASSUME NEW d \in Dev, Open(d) PROVE CacheInv'
  <2>1. opens' \in [Dev -> 0..MaxRef] /\ UNCHANGED <<count, buf, chain, lru, errs, disk, latest, lost>>
    BY <1>0, <1>1 DEF Open
  <2>2. MediaOK'
    BY <1>0, <2>1 DEF MediaOK, CacheRight, TypeOK
  <2> QED BY <2>1, <2>2, SameCache
<1>2. ASSUME NEW d \in Dev, NEW ok \in BOOLEAN, NEW F \in SUBSET Buffers, Close(d, ok, F)
      PROVE  CacheInv'
  <2>0. opens[d] > 0 /\ opens' = IF ok THEN [opens EXCEPT ![d] = @ - 1] ELSE opens
    BY <1>2 DEF Close
  <2>a. opens[d] - 1 \in 0..MaxRef
    BY <1>0, <2>0
  <2>1. /\ opens' \in [Dev -> 0..MaxRef] /\ UNCHANGED <<count, chain, lru, latest>>
        /\ Sync({d}, TRUE, TRUE, F) \/ UNCHANGED <<buf, errs, disk, lost>>
    BY <1>0, <1>2, <2>0, <2>a DEF Close
  <2>2. CASE Sync({d}, TRUE, TRUE, F)
    BY <2>1, <2>2, SyncCache
  <2>3. CASE UNCHANGED <<buf, errs, disk, lost>>
    <3>1. MediaOK'
      BY <1>0, <2>1, <2>3 DEF MediaOK, CacheRight, TypeOK
    <3> QED BY <2>1, <2>3, <3>1, SameCache
  <2> QED BY <2>1, <2>2, <2>3
<1>3. ASSUME NEW d \in Dev, NEW v \in Val, ExchangeMedium(d, [p \in Part |-> v]) PROVE CacheInv'
  <2>1. [p \in Part |-> v] \in Data
    BY DEF Data
  <2>2. /\ disk' \in [Addr -> Data] /\ latest' \in [Addr -> Data] /\ lost' \subseteq lost
        /\ UNCHANGED <<count, buf, chain, lru, opens, errs>>
    BY <1>0, <1>3, <2>1 DEF ExchangeMedium, CacheRight, TypeOK
  <2>3. MediaOK'
    BY <1>0, <2>2 DEF MediaOK, CacheRight, TypeOK
  <2> QED BY <2>2, <2>3, SameCache
<1>4. CASE Crash
  <2>1. ListInv' /\ Held'
    BY <1>4, EmptyAgain DEF Crash, Empty
  <2>2. MediaOK'
    BY <1>0, <1>4 DEF Crash, MediaOK, CacheRight, TypeOK
  <2> QED BY <2>1, <2>2 DEF CacheInv, CacheRight, TypeOK, ListInv, MediaOK
<1>5. QED
  BY <1>1, <1>2, <1>3, <1>4

\* Every step keeps the lists.
LEMMA NextCache == ASSUME CacheAssumption, CacheInv, [Next]_vars PROVE CacheInv'
<1>1. CASE Next
  <2>1. ASSUME NEW D \in {{d} : d \in Dev} \cup {Dev}, NEW write \in BOOLEAN, NEW inval \in BOOLEAN,
               NEW F \in SUBSET Buffers, SyncAny(D, write, inval, F)
        PROVE  CacheInv'
    <3>1. opens' \in [Dev -> 0..MaxRef]
      BY <2>1 DEF SyncAny, CacheInv, CacheRight, TypeOK
    <3> QED BY <2>1, <3>1, SyncCache DEF SyncAny
  <2> QED BY <1>1, <2>1, TransferCache, HolderCache, PutCache, AddCache, DeviceCache DEF Next
<1>2. CASE UNCHANGED vars
  <2>1. UNCHANGED <<count, buf, chain, lru>> /\ MediaOK'
    BY <1>2 DEF vars, CacheInv, CacheRight, TypeOK, MediaOK
  <2> QED BY <2>1, SameCache
<1>3. QED
  BY <1>1, <1>2

\* The lists are right and a block has one buffer, whatever clients, devices
\* and the power do (blk_get, blk_put, blk_add, blk_syncdev, blk_close).
THEOREM CacheCorrect == ASSUME CacheAssumption PROVE Spec => []CacheRight
<1>1. Init => CacheInv
  BY InitCache
<1>2. CacheInv /\ [Next]_vars => CacheInv'
  BY NextCache
<1>3. CacheInv => CacheRight
  BY DEF CacheInv
<1>4. QED
  BY <1>1, <1>2, <1>3, PTL DEF Spec

-----------------------------------------------------------------------------
(* The store of blocks, one block at a time.                               *)

\* Block x reads as before, unless the device has refused it.
Kept(x) == View(x)' = View(x) \/ (x \in lost' /\ View(x)' = disk'[x])

\* Block x is on its medium as it was, or as it reads.
Settled(x) == disk'[x] = disk[x] \/ disk'[x] = View(x)

\* A step that is not seen by clients.
BackStep ==
    /\ latest' = latest
    /\ \E bad \in SUBSET Addr : lost' = lost \cup bad
    /\ \A x \in Addr : Kept(x) /\ Settled(x)

\* A write of v to the parts P of block y.
ChangeStep(y, P, v) ==
    /\ latest' = [latest EXCEPT ![y] = [p \in Part |-> IF p \in P THEN v ELSE @[p]]]
    /\ \E bad \in SUBSET Addr :
          /\ lost' = IF P = Part THEN (lost \cup bad) \ {y} ELSE lost \cup bad
          /\ \A x \in Addr \ {y} :
                View(x)' = View(x) \/ (x \in lost \cup bad /\ View(x)' = disk'[x])
    /\ \A x \in Addr : Settled(x)
    /\ View(y)' \in [Part -> Val]
    /\ \A p \in Part : View(y)'[p] = IF p \in P THEN v ELSE View(y)[p]

\* A step clients do not see is one of the store.
LEMMA BackStore ==
    ASSUME MediaOK, MediaOK', BackStep PROVE Store!SNext
<1> DEFINE done == {x \in Addr : disk'[x] # disk[x]}
           changed == {x \in Addr : View(x)' # View(x)}
           content == [x \in Addr |-> View(x)]
<1>1. PICK bad \in SUBSET Addr : lost' = lost \cup bad
  BY DEF BackStep
<1>2. disk \in [Addr -> Data] /\ disk' \in [Addr -> Data]
  BY DEF MediaOK
<1>3. \A x \in Addr : Kept(x) /\ Settled(x)
  BY DEF BackStep
<1>4. \A x \in Addr : disk'[x] = IF x \in done THEN content[x] ELSE disk[x]
  BY <1>3 DEF Settled
<1>5. disk' = [x \in Addr |-> IF x \in done THEN content[x] ELSE disk[x]]
  BY <1>2, <1>4
<1>6. \A x \in Addr : View(x)' = IF x \in changed THEN disk'[x] ELSE content[x]
  BY <1>3 DEF Kept
<1>7. [x \in Addr |-> View(x)'] = [x \in Addr |-> IF x \in changed THEN disk'[x] ELSE content[x]]
  BY <1>6
<1>8. changed \in SUBSET (lost \cup bad) /\ done \in SUBSET Addr
  BY <1>1, <1>3 DEF Kept
<1>9. Store!Settle
  BY <1>5, <1>8 DEF Store!Settle
<1>10. [x \in Addr |-> View(x)'] = Store!Forget(changed)
  BY <1>7 DEF Store!Forget
<1>11. latest' = latest
  BY DEF BackStep
<1>12. Store!WriteBack
  <2> HIDE DEF changed
  <2> QED BY <1>1, <1>8, <1>9, <1>10, <1>11 DEF Store!WriteBack
<1>13. QED
  BY <1>12 DEF Store!SNext

\* A client's write is one of the store.
LEMMA ChangeStore ==
    ASSUME MediaOK, MediaOK', NEW y \in Addr, NEW P \in SUBSET Part, NEW v \in Val,
           ChangeStep(y, P, v)
    PROVE  Store!SNext
<1> DEFINE done == {x \in Addr : disk'[x] # disk[x]}
           changed == {x \in Addr \ {y} : View(x)' # View(x)}
           content == [x \in Addr |-> View(x)]
           kept == [x \in Addr |-> IF x \in changed THEN disk'[x] ELSE content[x]]
<1>1. PICK bad \in SUBSET Addr :
          /\ lost' = IF P = Part THEN (lost \cup bad) \ {y} ELSE lost \cup bad
          /\ \A x \in Addr \ {y} :
                View(x)' = View(x) \/ (x \in lost \cup bad /\ View(x)' = disk'[x])
  BY DEF ChangeStep
<1>2. disk \in [Addr -> Data] /\ disk' \in [Addr -> Data]
  BY DEF MediaOK
<1>3. /\ \A x \in Addr : Settled(x)
      /\ View(y)' \in [Part -> Val]
      /\ \A p \in Part : View(y)'[p] = IF p \in P THEN v ELSE View(y)[p]
      /\ latest' = [latest EXCEPT ![y] = [p \in Part |-> IF p \in P THEN v ELSE @[p]]]
  BY DEF ChangeStep
<1>4. \A x \in Addr : disk'[x] = IF x \in done THEN content[x] ELSE disk[x]
  BY <1>3 DEF Settled
<1>5. disk' = [x \in Addr |-> IF x \in done THEN content[x] ELSE disk[x]]
  BY <1>2, <1>4
<1>6. \A x \in Addr \ {y} : View(x)' = kept[x]
  BY <1>1
<1>7. kept[y] = View(y)
  OBVIOUS
<1>8. View(y)' = [p \in Part |-> IF p \in P THEN v ELSE kept[y][p]]
  <2>1. \A p \in Part : View(y)'[p] = IF p \in P THEN v ELSE kept[y][p]
    BY <1>3, <1>7
  <2> HIDE DEF kept
  <2> QED BY <1>3, <2>1
<1>9. [x \in Addr |-> View(x)'] = [kept EXCEPT ![y] = [p \in Part |-> IF p \in P THEN v ELSE @[p]]]
  <2>1. kept = [x \in Addr |-> kept[x]]
    OBVIOUS
  <2> HIDE DEF kept
  <2> QED BY <1>6, <1>8, <2>1
<1>10. changed \in SUBSET (lost \cup bad) /\ done \in SUBSET Addr
  BY <1>1
<1>11. Store!Settle
  BY <1>5, <1>10 DEF Store!Settle
<1>12. kept = Store!Forget(changed)
  BY DEF Store!Forget
<1>13. [x \in Addr |-> View(x)'] = Store!Changed(Store!Forget(changed), y, P, v)
  <2> HIDE DEF kept, changed
  <2> QED BY <1>9, <1>12 DEF Store!Changed
<1>14. latest' = Store!Changed(latest, y, P, v)
  BY <1>3 DEF Store!Changed
<1>15. Store!Write(y, P, v)
  <2> HIDE DEF kept, changed
  <2> QED BY <1>1, <1>10, <1>11, <1>13, <1>14 DEF Store!Write
<1>16. QED
  BY <1>15 DEF Store!SNext

\* A block that is not refused still reads as it was written last.
LEMMA BackReads == ASSUME ReadsLatest, BackStep PROVE ReadsLatest'
BY DEF ReadsLatest, BackStep, Kept

\* The same for a client's write, of all parts or of some.
LEMMA ChangeReads ==
    ASSUME MediaOK, ReadsLatest, NEW y \in Addr, NEW P \in SUBSET Part, NEW v \in Val,
           ChangeStep(y, P, v)
    PROVE  ReadsLatest'
<1>1. PICK bad \in SUBSET Addr :
          /\ lost' = IF P = Part THEN (lost \cup bad) \ {y} ELSE lost \cup bad
          /\ \A x \in Addr \ {y} :
                View(x)' = View(x) \/ (x \in lost \cup bad /\ View(x)' = disk'[x])
  BY DEF ChangeStep
<1>2. /\ latest \in [Addr -> Data]
      /\ latest' = [latest EXCEPT ![y] = [p \in Part |-> IF p \in P THEN v ELSE @[p]]]
  BY DEF ChangeStep, MediaOK
<1>3. latest'[y] = [p \in Part |-> IF p \in P THEN v ELSE latest[y][p]]
      /\ \A x \in Addr \ {y} : latest'[x] = latest[x]
  BY <1>2
<1>4. ASSUME NEW x \in Addr \ {y}, x \notin lost' PROVE View(x)' = latest'[x]
  BY <1>1, <1>3, <1>4 DEF ReadsLatest
<1>5. ASSUME y \notin lost' PROVE View(y)' = latest'[y]
  <2>1. \A p \in Part : View(y)'[p] = IF p \in P THEN v ELSE latest[y][p]
    <3>1. P = Part \/ y \notin lost
      BY <1>1, <1>5
    <3>2. P = Part \/ View(y) = latest[y]
      BY <3>1 DEF ReadsLatest
    <3> QED BY <3>2 DEF ChangeStep
  <2>2. View(y)' \in [Part -> Val]
    BY DEF ChangeStep
  <2> QED BY <1>3, <2>1, <2>2
<1>6. QED
  BY <1>4, <1>5 DEF ReadsLatest

-----------------------------------------------------------------------------
(* What a buffer holds.                                                    *)

\* A block reads as its one valid buffer has it, else as its medium has it.
ViewRight ==
    \A x \in Addr :
        /\ \A b \in Buffers : buf[b].valid /\ AddrOf(b) = x => View(x) = buf[b].data
        /\ (\A b \in Buffers : ~(buf[b].valid /\ AddrOf(b) = x)) => View(x) = disk[x]

\* The search of blk_get finds the valid buffer of a block.
LEMMA ViewIs == ASSUME CacheAssumption, CacheInv PROVE ViewRight
<1> SUFFICES ASSUME NEW x \in Addr
             PROVE  /\ \A b \in Buffers : buf[b].valid /\ AddrOf(b) = x => View(x) = buf[b].data
                    /\ (\A b \in Buffers : ~(buf[b].valid /\ AddrOf(b) = x)) => View(x) = disk[x]
  BY DEF ViewRight
<1> DEFINE M == {b \in Match(x[1], x[2]) : buf[b].valid}
<1>1. x = <<x[1], x[2]>> /\ x[1] \in Dev /\ x[1] # NoDev
  BY DEF Addr, CacheAssumption
<1>2. M = {b \in Buffers : buf[b].valid /\ AddrOf(b) = x}
  <2>1. \A b \in Buffers : AddrOf(b) = x <=> buf[b].dev = x[1] /\ buf[b].nr = x[2]
    BY <1>1 DEF AddrOf
  <2>2. \A b \in Buffers : AddrOf(b) = x => chain[b] = HashOf(x[2])
    BY <1>1, <2>1 DEF CacheInv, CacheRight, ListsRight
  <2> QED BY <2>1, <2>2 DEF Match
<1>3. \A a, b \in M : a = b
  BY <1>2 DEF CacheInv, CacheRight, OneCopy
<1>4. View(x) = IF M = {} THEN disk[x] ELSE buf[CHOOSE b \in M : TRUE].data
  BY DEF View
<1> HIDE DEF M
<1>5. ASSUME NEW b \in M PROVE (CHOOSE c \in M : TRUE) = b
  BY <1>3
<1>6. QED
  BY <1>2, <1>4, <1>5

\* The same after a step.
LEMMA ViewNext == ASSUME CacheAssumption PROVE CacheInv' => ViewRight'
<1>1. CacheInv => ViewRight
  BY ViewIs
<1>2. QED
  BY <1>1, PTL

\* blk_write of changed buffers puts each of them on its medium.
LEMMA WrittenFacts ==
    ASSUME CacheAssumption, CacheInv, NEW W \in SUBSET {b \in Buffers : buf[b].dirty}, NEW F
    PROVE  /\ \A b \in W \ F : Written(W, F)[AddrOf(b)] = buf[b].data /\ AddrOf(b) \in Addr
           /\ \A x \in Addr : (\A b \in W \ F : AddrOf(b) # x) => Written(W, F)[x] = disk[x]
<1>1. \A a, b \in W \ F : AddrOf(a) = AddrOf(b) => a = b
  BY DEF CacheInv, CacheRight, OneCopy, Held
<1>2. ASSUME NEW b \in W \ F PROVE Written(W, F)[AddrOf(b)] = buf[b].data /\ AddrOf(b) \in Addr
  <2>1. AddrOf(b) \in Addr
    BY DEF CacheInv, Held
  <2> DEFINE x == AddrOf(b)
  <2>2. (CHOOSE c \in W \ F : AddrOf(c) = x) = b
    BY <1>1
  <2>3. \E c \in W \ F : AddrOf(c) = x
    OBVIOUS
  <2> HIDE DEF x
  <2>4. Written(W, F)[x] = buf[b].data
    BY <2>1, <2>2, <2>3 DEF Written, x
  <2> QED BY <2>1, <2>4 DEF x
<1>3. QED
  BY <1>2 DEF Written

\* A clean buffer is as its medium has it.
CleanRight ==
    \A b \in Buffers : buf[b].valid /\ ~buf[b].dirty /\ AddrOf(b) \notin lost
                       => buf[b].data = disk[AddrOf(b)]

\* A closed device has nothing in the cache.
Forgotten ==
    \A d \in Dev : opens[d] = 0 =>
        \A b \in Buffers : buf[b].dev = d => ~buf[b].valid /\ buf[b].refcnt = 0

\* The inductive invariant of the contents.
DataInv == CacheInv /\ ReadsLatest /\ CleanRight /\ Forgotten

\* It says what clients rely on.
LEMMA DataInvEnough == ASSUME CacheAssumption, DataInv PROVE DataRight
<1>1. ViewRight /\ TypeOK /\ ReadsLatest
  BY ViewIs DEF DataInv, CacheInv, CacheRight
<1>2. ASSUME NEW d \in Dev, opens[d] = 0, NEW x \in Addr \ lost, x[1] = d PROVE disk[x] = latest[x]
  <2>1. \A b \in Buffers : ~(buf[b].valid /\ AddrOf(b) = x)
    BY <1>2 DEF DataInv, Forgotten, AddrOf
  <2> QED BY <1>1, <2>1 DEF ViewRight, ReadsLatest
<1>3. ClosedForgotten
  BY <1>2 DEF ClosedForgotten, DataInv, Forgotten
<1>4. CleanIsStable
  <2> SUFFICES ASSUME \A b \in Buffers : ~buf[b].dirty, NEW x \in Addr \ lost
               PROVE  disk[x] = latest[x]
    BY DEF CleanIsStable
  <2>1. View(x) = latest[x]
    BY <1>1 DEF ReadsLatest
  <2>2. CASE \E b \in Buffers : buf[b].valid /\ AddrOf(b) = x
    BY <1>1, <2>1, <2>2 DEF ViewRight, DataInv, CleanRight
  <2>3. CASE \A b \in Buffers : ~(buf[b].valid /\ AddrOf(b) = x)
    BY <1>1, <2>1, <2>3 DEF ViewRight
  <2> QED BY <2>2, <2>3
<1>5. QED
  BY <1>1, <1>3, <1>4 DEF DataRight

-----------------------------------------------------------------------------
(* Steps that leave the buffers to their blocks.                           *)

\* The buffers W are written, those in F without success, and buffers that
\* are clean or written may be forgotten.
Quiet(W, F) ==
    /\ W \in SUBSET {b \in Buffers : buf[b].dirty}
    /\ F \in SUBSET W
    /\ disk' = Written(W, F)
    /\ lost' = lost \cup LostBy(F)
    /\ latest' = latest
    /\ Buffers \subseteq Buffers'
    /\ \A b \in Buffers :
          /\ buf'[b].dev = buf[b].dev /\ buf'[b].nr = buf[b].nr /\ buf'[b].data = buf[b].data
          /\ buf'[b].valid => buf[b].valid
          /\ buf'[b].dirty <=> buf[b].dirty /\ b \notin W
          /\ buf[b].valid /\ ~buf'[b].valid => ~buf[b].dirty \/ b \in W
    /\ \A b \in Buffers' \ Buffers : ~buf'[b].valid

\* Nothing is written.
LEMMA NoneWritten == ASSUME MediaOK PROVE Written({}, {}) = disk /\ LostBy({}) = {}
BY DEF Written, LostBy, MediaOK

\* Clients do not see a quiet step.
LEMMA QuietBack ==
    ASSUME CacheAssumption, DataInv, CacheInv', NEW W, NEW F, Quiet(W, F) PROVE BackStep
<1>0. CacheInv /\ ViewRight /\ ViewRight' /\ W \in SUBSET {b \in Buffers : buf[b].dirty}
      /\ F \in SUBSET W
  BY ViewIs, ViewNext DEF DataInv, Quiet
<1>1. LostBy(F) \in SUBSET Addr
  <2>1. F \in SUBSET {b \in Buffers : buf[b].dirty}
    BY <1>0
  <2> QED BY <1>0, <2>1, LostType
<1>2. /\ \A b \in W \ F : disk'[AddrOf(b)] = buf[b].data /\ AddrOf(b) \in Addr
      /\ \A x \in Addr : (\A b \in W \ F : AddrOf(b) # x) => disk'[x] = disk[x]
  <2>1. disk' = Written(W, F)
    BY DEF Quiet
  <2> QED BY <1>0, <2>1, WrittenFacts
<1>3. ASSUME NEW x \in Addr, NEW b \in Buffers, buf[b].valid, AddrOf(b) = x
      PROVE  Kept(x) /\ Settled(x)
  <2>1. View(x) = buf[b].data
    BY <1>0, <1>3 DEF ViewRight
  <2>2. \A c \in Buffers : buf[c].valid /\ AddrOf(c) = x => c = b
    BY <1>0, <1>3 DEF CacheInv, CacheRight, OneCopy
  <2>3. Settled(x)
    <3>1. CASE \E c \in W \ F : AddrOf(c) = x
      <4>1. PICK c \in W \ F : AddrOf(c) = x
        BY <3>1
      <4>2. c = b
        BY <1>0, <2>2, <4>1 DEF CacheInv, Held
      <4> QED BY <1>2, <1>3, <2>1, <4>1, <4>2 DEF Settled
    <3>2. CASE \A c \in W \ F : AddrOf(c) # x
      BY <1>2, <3>2 DEF Settled
    <3> QED BY <3>1, <3>2
  <2>4. CASE buf'[b].valid
    <3>1. b \in Buffers' /\ AddrOf(b)' = x /\ buf'[b].data = buf[b].data
      BY <1>3 DEF Quiet, AddrOf
    <3>2. View(x)' = buf'[b].data
      BY <1>0, <2>4, <3>1 DEF ViewRight
    <3> QED BY <2>1, <2>3, <3>1, <3>2 DEF Kept
  <2>5. CASE ~buf'[b].valid
    <3>1. \A c \in Buffers' : ~(buf'[c].valid /\ AddrOf(c)' = x)
      BY <2>2, <2>5 DEF Quiet, AddrOf
    <3>2. View(x)' = disk'[x]
      BY <1>0, <3>1 DEF ViewRight
    <3>3. CASE b \in F
      BY <1>3, <2>3, <3>2, <3>3 DEF Kept, Quiet, LostBy
    <3>4. CASE b \in W \ F
      BY <1>2, <1>3, <2>1, <2>3, <3>2, <3>4 DEF Kept
    <3>5. CASE b \notin W
      <4>1. ~buf[b].dirty
        BY <1>3, <2>5, <3>5 DEF Quiet
      <4>2. disk'[x] = disk[x]
        BY <1>0, <1>2, <2>2, <3>5 DEF CacheInv, Held
      <4>3. x \in lost \/ buf[b].data = disk[x]
        BY <1>3, <4>1 DEF DataInv, CleanRight
      <4> QED BY <2>1, <2>3, <3>2, <4>2, <4>3 DEF Kept, Quiet
    <3> QED BY <3>3, <3>4, <3>5
  <2> QED BY <2>4, <2>5
<1>4. ASSUME NEW x \in Addr, \A b \in Buffers : ~(buf[b].valid /\ AddrOf(b) = x)
      PROVE  Kept(x) /\ Settled(x)
  <2>1. View(x) = disk[x]
    BY <1>0, <1>4 DEF ViewRight
  <2>2. disk'[x] = disk[x]
    BY <1>0, <1>2, <1>4 DEF CacheInv, Held
  <2>3. \A c \in Buffers' : ~(buf'[c].valid /\ AddrOf(c)' = x)
    BY <1>4 DEF Quiet, AddrOf
  <2>4. View(x)' = disk'[x]
    BY <1>0, <2>3 DEF ViewRight
  <2> QED BY <2>1, <2>2, <2>4 DEF Kept, Settled
<1>5. \A x \in Addr : Kept(x) /\ Settled(x)
  BY <1>3, <1>4
<1>6. QED
  BY <1>1, <1>5 DEF BackStep, Quiet

\* A quiet step leaves clean buffers as their media have them.
LEMMA QuietClean ==
    ASSUME CacheAssumption, DataInv, CacheInv', NEW W, NEW F, Quiet(W, F) PROVE CleanRight'
<1>0. CacheInv /\ W \in SUBSET {b \in Buffers : buf[b].dirty} /\ F \in SUBSET W
  BY DEF DataInv, Quiet
<1>1. /\ \A b \in W \ F : disk'[AddrOf(b)] = buf[b].data /\ AddrOf(b) \in Addr
      /\ \A x \in Addr : (\A b \in W \ F : AddrOf(b) # x) => disk'[x] = disk[x]
  <2>1. disk' = Written(W, F)
    BY DEF Quiet
  <2> QED BY <1>0, <2>1, WrittenFacts
<1> SUFFICES ASSUME NEW b \in Buffers', buf'[b].valid, ~buf'[b].dirty, AddrOf(b)' \notin lost'
             PROVE  buf'[b].data = disk'[AddrOf(b)']
  BY DEF CleanRight
<1>2. /\ b \in Buffers /\ buf[b].valid /\ AddrOf(b)' = AddrOf(b) /\ buf'[b].data = buf[b].data
      /\ AddrOf(b) \in Addr /\ AddrOf(b) \notin lost /\ AddrOf(b) \notin LostBy(F)
  BY <1>0 DEF Quiet, AddrOf, CacheInv, Held
<1>3. CASE b \in W
  <2>1. b \notin F
    BY <1>2 DEF LostBy
  <2> QED BY <1>1, <1>2, <1>3, <2>1
<1>4. CASE b \notin W
  <2>1. ~buf[b].dirty
    BY <1>2, <1>4 DEF Quiet
  <2>2. \A c \in W \ F : AddrOf(c) # AddrOf(b)
    BY <1>0, <1>2, <1>4 DEF CacheInv, CacheRight, OneCopy, Held
  <2> QED BY <1>1, <1>2, <2>1, <2>2 DEF DataInv, CleanRight
<1>5. QED
  BY <1>3, <1>4

\* A quiet step keeps the invariant and is one of the store.
LEMMA QuietData ==
    ASSUME CacheAssumption, DataInv, CacheInv', NEW W, NEW F, Quiet(W, F), Forgotten'
    PROVE  DataInv' /\ StoreStep
<1>1. BackStep /\ CleanRight'
  BY QuietBack, QuietClean
<1>2. MediaOK /\ MediaOK' /\ ReadsLatest
  BY DEF DataInv, CacheInv, CacheRight, TypeOK, MediaOK
<1>3. ReadsLatest'
  BY <1>1, <1>2, BackReads
<1>4. Store!SNext
  BY <1>1, <1>2, BackStore
<1>5. StoreStep
  BY <1>4 DEF StoreStep
<1>6. QED
  BY <1>1, <1>3, <1>5 DEF DataInv

\* A closed device stays forgotten when no buffer is filled.
LEMMA StillForgotten ==
    ASSUME CacheAssumption, DataInv, \A d \in Dev : opens'[d] = 0 => opens[d] = 0,
           \A b \in Buffers : /\ buf'[b].dev = buf[b].dev
                              /\ buf'[b].valid => buf[b].valid
                              /\ buf[b].refcnt = 0 => buf'[b].refcnt = 0,
           \A b \in Buffers' \ Buffers : buf'[b].dev = NoDev
    PROVE  Forgotten'
<1>1. NoDev \notin Dev
  BY DEF CacheAssumption
<1>2. ASSUME NEW d \in Dev, opens'[d] = 0, NEW b \in Buffers', buf'[b].dev = d
      PROVE  ~buf'[b].valid /\ buf'[b].refcnt = 0
  <2>1. b \in Buffers /\ buf[b].dev = d /\ opens[d] = 0
    BY <1>1, <1>2
  <2>2. ~buf[b].valid /\ buf[b].refcnt = 0
    BY <2>1 DEF DataInv, Forgotten
  <2> QED BY <2>1, <2>2
<1>3. QED
  BY <1>2 DEF Forgotten

\* blk_syncdev and blk_syncall are quiet.
LEMMA SyncQuiet ==
    ASSUME CacheAssumption, DataInv, NEW D, NEW write \in BOOLEAN, NEW inval \in BOOLEAN, NEW F,
           Sync(D, write, inval, F), UNCHANGED <<count, chain, lru, latest>>
    PROVE  /\ \E W : Quiet(W, F)
           /\ Buffers' = Buffers
           /\ \A b \in Buffers : /\ buf'[b].dev = buf[b].dev /\ buf'[b].refcnt = buf[b].refcnt
                                 /\ buf'[b].valid => buf[b].valid
                                 /\ b \in SyncSet(D) /\ write /\ inval => ~buf'[b].valid
<1> DEFINE S == SyncSet(D)
           W == IF write THEN {b \in S : buf[b].dirty} ELSE {}
<1>0. S \in SUBSET Buffers /\ Buffers \subseteq Buf /\ Buffers' = Buffers /\ buf \in [Buf -> Block]
      /\ latest' = latest
  BY SyncSetFacts, BufferFacts DEF DataInv, CacheInv, CacheRight, TypeOK, Buffers
<1>1. /\ F \in SUBSET W /\ disk' = Written(W, F)
      /\ buf' = [b \in Buf |-> IF b \in S THEN Synced(buf[b], write, inval) ELSE buf[b]]
      /\ lost' = lost \cup LostBy(F)
  BY DEF Sync, WriteOut
<1> HIDE DEF S
<1>2. W \in SUBSET {b \in Buffers : buf[b].dirty} /\ \A b \in S : b \in W <=> write /\ buf[b].dirty
  BY <1>0
<1>3. W \in SUBSET S
  OBVIOUS
<1> HIDE DEF W
<1>4. ASSUME NEW b \in Buffers
      PROVE  /\ buf'[b].dev = buf[b].dev /\ buf'[b].nr = buf[b].nr /\ buf'[b].data = buf[b].data
             /\ buf'[b].refcnt = buf[b].refcnt
             /\ buf'[b].valid => buf[b].valid
             /\ buf'[b].dirty <=> buf[b].dirty /\ b \notin W
             /\ buf[b].valid /\ ~buf'[b].valid => ~buf[b].dirty \/ b \in W
             /\ b \in S /\ write /\ inval => ~buf'[b].valid
  <2>1. CASE b \in S
    <3>1. buf'[b] = Synced(buf[b], write, inval) /\ buf[b] \in Block
      BY <1>0, <1>1, <2>1
    <3>2. b \in W <=> write /\ buf[b].dirty
      BY <1>2, <2>1
    <3> QED BY <3>1, <3>2, SyncedShape
  <2>2. CASE b \notin S
    <3>1. buf'[b] = buf[b] /\ b \notin W
      BY <1>0, <1>1, <1>3, <2>2
    <3> QED BY <2>2, <3>1
  <2> QED BY <2>1, <2>2
<1>5. Quiet(W, F)
  BY <1>0, <1>1, <1>2, <1>4 DEF Quiet
<1>6. QED
  BY <1>0, <1>4, <1>5 DEF S

\* Synchronisation, and opening and closing devices.
LEMMA SyncData ==
    ASSUME CacheAssumption, DataInv, CacheInv',
           \/ \E D \in {{d} : d \in Dev} \cup {Dev}, write, inval \in BOOLEAN, F \in SUBSET Buffers :
                 SyncAny(D, write, inval, F)
           \/ \E d \in Dev : Open(d)
           \/ \E d \in Dev, ok \in BOOLEAN, F \in SUBSET Buffers : Close(d, ok, F)
    PROVE  DataInv' /\ StoreStep
<1>0. opens \in [Dev -> 0..MaxRef] /\ MaxRef \in Nat /\ MediaOK
  BY DEF DataInv, CacheInv, CacheRight, TypeOK, MediaOK, CacheAssumption
<1>1. ASSUME NEW D, NEW write \in BOOLEAN, NEW inval \in BOOLEAN, NEW F, SyncAny(D, write, inval, F)
      PROVE  DataInv' /\ StoreStep
  <2>1. Sync(D, write, inval, F) /\ UNCHANGED <<count, chain, lru, latest, opens>>
    BY <1>1 DEF SyncAny
  <2>2. PICK W : Quiet(W, F)
    BY <2>1, SyncQuiet
  <2>3. /\ Buffers' = Buffers
        /\ \A b \in Buffers : /\ buf'[b].dev = buf[b].dev /\ buf'[b].refcnt = buf[b].refcnt
                              /\ buf'[b].valid => buf[b].valid
    BY <2>1, SyncQuiet
  <2>4. Forgotten'
    BY <2>1, <2>3, StillForgotten
  <2> QED BY <2>2, <2>4, QuietData
<1>2. ASSUME UNCHANGED <<count, buf, disk, latest, lost>>,
             \A d \in Dev : opens'[d] = 0 => opens[d] = 0
      PROVE  DataInv' /\ StoreStep
  <2>1. Buffers' = Buffers
    BY <1>2 DEF Buffers
  <2>2. Quiet({}, {})
    BY <1>0, <1>2, <2>1, NoneWritten DEF Quiet
  <2>3. Forgotten'
    BY <1>2, <2>1, StillForgotten
  <2> QED BY <2>2, <2>3, QuietData
<1>3. ASSUME NEW d \in Dev, Open(d) PROVE DataInv' /\ StoreStep
  <2>1. opens' = [opens EXCEPT ![d] = @ + 1] /\ UNCHANGED <<count, buf, disk, latest, lost>>
    BY <1>3 DEF Open
  <2>2. \A e \in Dev : opens[e] \in Nat /\ (opens'[e] = opens[e] \/ opens'[e] = opens[e] + 1)
    BY <1>0, <2>1
  <2>3. \A e \in Dev : opens'[e] = 0 => opens[e] = 0
    BY <2>2
  <2> QED BY <1>2, <2>1, <2>3
<1>4. ASSUME NEW d \in Dev, NEW ok \in BOOLEAN, NEW F \in SUBSET Buffers, Close(d, ok, F)
      PROVE  DataInv' /\ StoreStep
  <2>1. opens[d] \in Nat /\ opens[d] > 0 /\ opens' = IF ok THEN [opens EXCEPT ![d] = @ - 1] ELSE opens
    BY <1>0, <1>4 DEF Close
  <2>2. \A e \in Dev \ {d} : opens'[e] = opens[e]
    BY <1>0, <2>1
  <2>a. /\ \/ opens[d] > 1 /\ UNCHANGED <<buf, disk, lost>>
           \/ /\ opens[d] = 1 /\ Sync({d}, TRUE, TRUE, F)
              /\ \A b \in Buffers : buf[b].dev = d => buf[b].refcnt = 0
        /\ UNCHANGED <<count, chain, lru, latest>>
    BY <1>4, Zenon DEF Close
  <2>3. CASE opens[d] > 1
    <3>0. opens[d] # 1
      BY <2>1, <2>3
    <3>1. UNCHANGED <<count, buf, disk, latest, lost>>
      BY <2>a, <3>0, Zenon
    <3>2. opens'[d] = opens[d] \/ opens'[d] = opens[d] - 1
      BY <1>0, <2>1
    <3>3. opens'[d] # 0
      BY <2>1, <2>3, <3>2
    <3> QED BY <1>2, <2>2, <3>1, <3>3
  <2>4. CASE opens[d] = 1
    <3>0. ~(opens[d] > 1)
      BY <2>1, <2>4
    <3>1. /\ \A b \in Buffers : buf[b].dev = d => buf[b].refcnt = 0
          /\ Sync({d}, TRUE, TRUE, F) /\ UNCHANGED <<count, chain, lru, latest>>
      BY <2>a, <3>0, Zenon
    <3>2. PICK W : Quiet(W, F)
      BY <3>1, SyncQuiet
    <3>3. /\ Buffers' = Buffers
          /\ \A b \in Buffers : /\ buf'[b].dev = buf[b].dev /\ buf'[b].refcnt = buf[b].refcnt
                                /\ buf'[b].valid => buf[b].valid
                                /\ b \in SyncSet({d}) => ~buf'[b].valid
      BY <3>1, SyncQuiet
    <3>4. \A b \in Buffers : buf[b].dev = d => b \in SyncSet({d})
      BY <3>1 DEF SyncSet, DataInv, CacheInv, CacheRight, ListsRight
    <3>5. ASSUME NEW e \in Dev, opens'[e] = 0, NEW b \in Buffers, buf'[b].dev = e
          PROVE  ~buf'[b].valid /\ buf'[b].refcnt = 0
      <4>1. CASE e = d
        BY <3>1, <3>3, <3>4, <3>5, <4>1
      <4>2. CASE e # d
        <5>1. opens[e] = 0 /\ buf[b].dev = e
          BY <2>2, <3>3, <3>5, <4>2
        <5>2. ~buf[b].valid /\ buf[b].refcnt = 0
          BY <5>1 DEF DataInv, Forgotten
        <5> QED BY <3>3, <5>2
      <4> QED BY <4>1, <4>2
    <3>6. Forgotten'
      BY <3>3, <3>5 DEF Forgotten
    <3> QED BY <3>2, <3>6, QuietData
  <2> QED BY <2>1, <2>3, <2>4
<1>5. QED
  BY <1>1, <1>3, <1>4

\* Putting a block back, new buffers, and no step at all.
LEMMA CalmData ==
    ASSUME CacheAssumption, DataInv, CacheInv',
           \/ \E b \in Buffers : Put(b)
           \/ \E n \in Buf : BlkAdd(n)
           \/ UNCHANGED vars
    PROVE  DataInv' /\ StoreStep
<1>0. /\ MediaOK /\ Buffers \subseteq Buf /\ buf \in [Buf -> Block] /\ count \in Nat
      /\ NoDev \notin Dev
  BY BufferFacts DEF DataInv, CacheInv, CacheRight, TypeOK, MediaOK, CacheAssumption
<1>1. ASSUME UNCHANGED <<opens, disk, latest, lost>>, Buffers \subseteq Buffers',
             \A b \in Buffers : /\ buf'[b].dev = buf[b].dev /\ buf'[b].nr = buf[b].nr
                                /\ buf'[b].data = buf[b].data
                                /\ buf'[b].valid <=> buf[b].valid
                                /\ buf'[b].dirty <=> buf[b].dirty
                                /\ buf[b].refcnt = 0 => buf'[b].refcnt = 0,
             \A b \in Buffers' \ Buffers : buf'[b].dev = NoDev /\ ~buf'[b].valid
      PROVE  DataInv' /\ StoreStep
  <2>1. Quiet({}, {})
    BY <1>0, <1>1, NoneWritten DEF Quiet
  <2>2. Forgotten'
    BY <1>1, StillForgotten
  <2> QED BY <2>1, <2>2, QuietData
<1>2. ASSUME NEW b \in Buffers, Put(b) PROVE DataInv' /\ StoreStep
  <2>1. /\ buf' = [buf EXCEPT ![b] = Released(buf[b])] /\ buf[b].refcnt > 0
        /\ UNCHANGED <<count, opens, disk, latest, lost>> /\ Buffers' = Buffers
    BY <1>2 DEF Put, Buffers
  <2>2. buf[b] \in Record /\ buf[b].refcnt >= 1
    <3>1. buf[b] \in Block
      BY <1>0
    <3>2. buf[b].refcnt \in Nat
      BY <3>1, RecordIsBlock DEF Record
    <3> QED BY <2>1, <3>1, <3>2, RecordIsBlock
  <2> DEFINE r == Released(buf[b])
  <2>3. /\ r.dev = buf[b].dev /\ r.nr = buf[b].nr /\ r.data = buf[b].data
        /\ r.valid = buf[b].valid /\ r.dirty = buf[b].dirty
    BY <2>2, ReleasedShape
  <2>4. buf'[b] = r /\ \A c \in Buffers \ {b} : buf'[c] = buf[c]
    BY <1>0, <2>1
  <2> HIDE DEF r
  <2>5. \A c \in Buffers : /\ buf'[c].dev = buf[c].dev /\ buf'[c].nr = buf[c].nr
                           /\ buf'[c].data = buf[c].data
                           /\ buf'[c].valid <=> buf[c].valid
                           /\ buf'[c].dirty <=> buf[c].dirty
                           /\ buf[c].refcnt = 0 => buf'[c].refcnt = 0
    BY <2>1, <2>2, <2>3, <2>4
  <2> QED BY <1>1, <2>1, <2>5
<1>3. ASSUME NEW n \in Buf, BlkAdd(n) PROVE DataInv' /\ StoreStep
  <2>1. /\ n \in Nat /\ n > count /\ count' = n /\ buf' = Added(n)
        /\ UNCHANGED <<opens, disk, latest, lost>>
    BY <1>3 DEF BlkAdd, Buf
  <2>2. Buffers \subseteq Buffers' /\ Buffers' \subseteq Buf
    BY <1>0, <1>3, <2>1 DEF Buffers, Buf, CacheAssumption
  <2>3. \A b \in Buffers : buf'[b] = buf[b]
    BY <1>0, <2>1 DEF Added, Buffers
  <2>4. \A b \in Buffers' \ Buffers : buf'[b] = Zeroed
    BY <1>0, <2>1, <2>2 DEF Added, Buffers
  <2>5. Zeroed.dev = NoDev /\ ~Zeroed.valid
    BY DEF Zeroed
  <2> QED BY <1>1, <2>1, <2>2, <2>3, <2>4, <2>5
<1>4. CASE UNCHANGED vars
  <2>1. Buffers' = Buffers /\ buf' = buf /\ UNCHANGED <<opens, disk, latest, lost>>
    BY <1>4 DEF vars, Buffers
  <2> QED BY <1>1, <2>1
<1>5. QED
  BY <1>2, <1>3, <1>4

\* Changes and writes of a block that a client holds.
LEMMA HolderData ==
    ASSUME CacheAssumption, DataInv, CacheInv', NEW b \in Buffers,
           \/ \E P \in (SUBSET Part) \ {{}}, v \in Val : Modify(b, P, v)
           \/ \E F \in SUBSET {b} : Write(b, F)
    PROVE  DataInv' /\ StoreStep
<1>0. /\ Buffers \subseteq Buf /\ buf \in [Buf -> Block] /\ buf[b] \in Block
      /\ buf[b].refcnt > 0 /\ buf[b].valid /\ AddrOf(b) \in Addr
      /\ MediaOK /\ MediaOK' /\ ViewRight /\ ViewRight' /\ ReadsLatest /\ CacheInv
  BY BufferFacts, ViewIs, ViewNext
  DEF DataInv, CacheInv, CacheRight, TypeOK, MediaOK, Held, Modify, Write
<1>1. ASSUME NEW F \in SUBSET {b}, Write(b, F) PROVE DataInv' /\ StoreStep
  <2> DEFINE r == [buf[b] EXCEPT !.dirty = FALSE]
  <2>1. /\ buf' = [buf EXCEPT ![b] = r] /\ UNCHANGED <<count, chain, lru, opens, latest>>
        /\ disk' = Written({b}, F) /\ lost' = lost \cup LostBy(F) /\ buf[b].dirty
        /\ Buffers' = Buffers
    BY <1>1 DEF Write, WriteOut, Buffers
  <2>2. /\ r.dev = buf[b].dev /\ r.nr = buf[b].nr /\ r.refcnt = buf[b].refcnt
        /\ r.data = buf[b].data /\ r.valid = buf[b].valid /\ ~r.dirty
    BY <1>0 DEF Block
  <2>3. buf'[b] = r /\ \A c \in Buffers \ {b} : buf'[c] = buf[c]
    BY <1>0, <2>1
  <2> HIDE DEF r
  <2>4. Quiet({b}, F)
    BY <2>1, <2>2, <2>3 DEF Quiet
  <2>5. Forgotten'
    BY <2>1, <2>2, <2>3, StillForgotten
  <2> QED BY <2>4, <2>5, QuietData
<1>2. ASSUME NEW P \in SUBSET Part, NEW v \in Val, Modify(b, P, v) PROVE DataInv' /\ StoreStep
  <2> DEFINE y == AddrOf(b)
             st == Stored(buf[b], P, v)
  <2>1. /\ buf' = [buf EXCEPT ![b] = st] /\ UNCHANGED <<count, chain, lru, opens, errs, disk>>
        /\ Note(y, P, v, {}) /\ Buffers' = Buffers
    BY <1>2 DEF Modify, Buffers
  <2>2. /\ st.dev = buf[b].dev /\ st.nr = buf[b].nr /\ st.refcnt = buf[b].refcnt
        /\ st.valid /\ st.dirty /\ st.data \in [Part -> Val]
        /\ \A p \in Part : st.data[p] = IF p \in P THEN v ELSE buf[b].data[p]
    <3>1. buf[b] \in Record
      BY <1>0, RecordIsBlock
    <3>2. /\ st.dev = buf[b].dev /\ st.nr = buf[b].nr /\ st.refcnt = buf[b].refcnt
          /\ st.valid /\ st.dirty /\ st.data \in [Part -> Val]
      BY <3>1, StoredShape
    <3>3. \A p \in Part : st.data[p] = IF p \in P THEN v ELSE buf[b].data[p]
      BY <3>1, StoredData
    <3> QED BY <3>2, <3>3
  <2>3. buf'[b] = st /\ \A c \in Buffers \ {b} : buf'[c] = buf[c]
    BY <1>0, <2>1
  <2> HIDE DEF st
  <2>4. /\ AddrOf(b)' = y
        /\ \A c \in Buffers \ {b} : AddrOf(c)' = AddrOf(c) /\ (buf[c].valid => AddrOf(c) # y)
    <3>1. \A c \in Buffers \ {b} : buf[c].valid => AddrOf(c) # y
      BY <1>0 DEF CacheInv, CacheRight, OneCopy
    <3>2. AddrOf(b)' = y
      BY <2>2, <2>3 DEF AddrOf
    <3>3. \A c \in Buffers \ {b} : AddrOf(c)' = AddrOf(c)
      BY <2>3 DEF AddrOf
    <3> QED BY <3>1, <3>2, <3>3
  <2>5. View(y) = buf[b].data /\ View(y)' = st.data
    BY <1>0, <2>1, <2>2, <2>3, <2>4 DEF ViewRight
  <2> HIDE DEF y
  <2>6. ASSUME NEW x \in Addr \ {y} PROVE View(x)' = View(x)
    <3>1. CASE \E c \in Buffers : buf[c].valid /\ AddrOf(c) = x
      <4>1. PICK c \in Buffers : buf[c].valid /\ AddrOf(c) = x
        BY <3>1
      <4>2. c # b
        BY <4>1 DEF y
      <4>3. buf'[c] = buf[c] /\ AddrOf(c)' = x
        BY <2>3, <2>4, <4>1, <4>2
      <4> QED BY <1>0, <2>1, <4>1, <4>3 DEF ViewRight
    <3>2. CASE \A c \in Buffers : ~(buf[c].valid /\ AddrOf(c) = x)
      <4>1. \A c \in Buffers : ~(buf'[c].valid /\ AddrOf(c)' = x)
        BY <2>3, <2>4, <3>2
      <4> QED BY <1>0, <2>1, <3>2, <4>1 DEF ViewRight
    <3> QED BY <3>1, <3>2
  <2>7. LostBy({}) = {} /\ {} \in SUBSET Addr
    BY DEF LostBy
  <2>8. ChangeStep(y, P, v)
    BY <2>1, <2>2, <2>5, <2>6, <2>7 DEF ChangeStep, Note, Settled
  <2>9. y \in Addr
    BY <1>0 DEF y
  <2>10. ReadsLatest' /\ Store!SNext
    BY <1>0, <2>8, <2>9, ChangeReads, ChangeStore
  <2>11. CleanRight'
    <3> SUFFICES ASSUME NEW c \in Buffers, buf'[c].valid, ~buf'[c].dirty, AddrOf(c)' \notin lost'
                 PROVE  buf'[c].data = disk'[AddrOf(c)']
      BY <2>1 DEF CleanRight
    <3>1. c # b
      BY <2>2, <2>3
    <3>2. buf'[c] = buf[c] /\ AddrOf(c)' = AddrOf(c) /\ buf[c].valid /\ AddrOf(c) # y
      BY <2>3, <2>4, <3>1
    <3>3. AddrOf(c) \notin lost
      BY <2>1, <2>7, <3>2 DEF Note
    <3> QED BY <2>1, <3>2, <3>3 DEF DataInv, CleanRight
  <2>12. Forgotten'
    <3>1. \A c \in Buffers : /\ buf'[c].dev = buf[c].dev
                             /\ buf'[c].valid => buf[c].valid
                             /\ buf[c].refcnt = 0 => buf'[c].refcnt = 0
      BY <1>0, <2>2, <2>3
    <3> QED BY <2>1, <3>1, StillForgotten
  <2> QED BY <2>10, <2>11, <2>12 DEF DataInv, StoreStep
<1>3. QED
  BY <1>1, <1>2

\* Another medium in a closed drive.
LEMMA ExchangeData ==
    ASSUME CacheAssumption, DataInv, CacheInv', NEW d \in Dev, NEW data \in [Part -> Val],
           ExchangeMedium(d, data)
    PROVE  DataInv' /\ StoreStep
<1>0. ViewRight /\ ViewRight' /\ CacheInv
  BY ViewIs, ViewNext DEF DataInv
<1> DEFINE X == {x \in Addr : x[1] = d}
<1>1. /\ opens[d] = 0
      /\ disk' = [x \in Addr |-> IF x \in X THEN data ELSE disk[x]]
      /\ latest' = [x \in Addr |-> IF x \in X THEN data ELSE latest[x]]
      /\ lost' = lost \ X
      /\ Buffers' = Buffers /\ UNCHANGED <<buf, opens>>
  <2>1. {x \in lost : x[1] # d} = lost \ X
    BY DEF DataInv, CacheInv, CacheRight, TypeOK
  <2> QED BY <2>1 DEF ExchangeMedium, Buffers
<1>2. \A b \in Buffers : buf[b].valid => AddrOf(b) \notin X /\ AddrOf(b)' = AddrOf(b)
  BY <1>1 DEF DataInv, Forgotten, AddrOf
<1> HIDE DEF X
<1>3. \A x \in Addr : x \in X => View(x) = disk[x] /\ View(x)' = data
  <2> SUFFICES ASSUME NEW x \in Addr, x \in X PROVE View(x) = disk[x] /\ View(x)' = data
    OBVIOUS
  <2>1. \A b \in Buffers : ~(buf[b].valid /\ AddrOf(b) = x)
    BY <1>2
  <2>2. \A b \in Buffers' : ~(buf'[b].valid /\ AddrOf(b)' = x)
    BY <1>1, <1>2
  <2>3. View(x) = disk[x] /\ View(x)' = disk'[x]
    BY <1>0, <2>1, <2>2 DEF ViewRight
  <2> QED BY <1>1, <2>3
<1>4. \A x \in Addr : x \notin X => View(x)' = View(x)
  <2> SUFFICES ASSUME NEW x \in Addr, x \notin X PROVE View(x)' = View(x)
    OBVIOUS
  <2>1. disk'[x] = disk[x]
    BY <1>1
  <2>2. CASE \E b \in Buffers : buf[b].valid /\ AddrOf(b) = x
    <3>1. PICK b \in Buffers : buf[b].valid /\ AddrOf(b) = x
      BY <2>2
    <3>2. b \in Buffers' /\ buf'[b].valid /\ AddrOf(b)' = x /\ buf'[b].data = buf[b].data
      BY <1>1, <1>2, <3>1
    <3> QED BY <1>0, <3>1, <3>2 DEF ViewRight
  <2>3. CASE \A b \in Buffers : ~(buf[b].valid /\ AddrOf(b) = x)
    <3>1. \A b \in Buffers' : ~(buf'[b].valid /\ AddrOf(b)' = x)
      BY <1>1, <1>2, <2>3
    <3> QED BY <1>0, <2>1, <2>3, <3>1 DEF ViewRight
  <2> QED BY <2>2, <2>3
<1>5. Store!SNext
  <2> DEFINE content == [x \in Addr |-> View(x)]
  <2>1. \A x \in X \ lost : content[x] = disk[x]
    BY <1>3 DEF X
  <2>2. [x \in Addr |-> View(x)'] = [x \in Addr |-> IF x \in X THEN data ELSE content[x]]
    BY <1>3, <1>4
  <2>3. Store!Exchange(X, data)
    BY <1>1, <2>1, <2>2 DEF Store!Exchange
  <2>4. X \in SUBSET Addr
    BY DEF X
  <2> QED BY <2>3, <2>4 DEF Store!SNext
<1>6. ReadsLatest'
  <2>1. \A x \in Addr \ lost' : View(x)' = latest'[x]
    BY <1>1, <1>3, <1>4 DEF DataInv, ReadsLatest
  <2> QED BY <2>1 DEF ReadsLatest
<1>7. CleanRight'
  BY <1>0, <1>1, <1>2 DEF DataInv, CleanRight, CacheInv, Held
<1>8. Forgotten'
  BY <1>1 DEF DataInv, Forgotten
<1>9. QED
  BY <1>5, <1>6, <1>7, <1>8 DEF DataInv, StoreStep

\* A cache without contents.
LEMMA EmptyData ==
    ASSUME CacheAssumption, MediaOK, Empty, latest = disk, lost = {}
    PROVE  /\ ReadsLatest /\ CleanRight /\ Forgotten
           /\ \A x \in Addr : View(x) = disk[x]
<1>1. CacheInv
  BY EmptyCache DEF CacheInv, CacheRight, TypeOK, ListInv, MediaOK
<1>2. \A b \in Buffers : ~buf[b].valid /\ buf[b].refcnt = 0
  BY <1>1, BufferFacts DEF Empty, Zeroed, CacheInv, CacheRight, TypeOK
<1>3. \A x \in Addr : View(x) = disk[x]
  BY <1>1, <1>2, ViewIs DEF ViewRight
<1>4. QED
  BY <1>2, <1>3 DEF ReadsLatest, CleanRight, Forgotten

\* The same after a reboot.
LEMMA EmptyDataAgain ==
    ASSUME CacheAssumption
    PROVE  (MediaOK /\ Empty /\ latest = disk /\ lost = {})' =>
           (ReadsLatest /\ CleanRight /\ Forgotten /\ \A x \in Addr : View(x) = disk[x])'
<1>1. (MediaOK /\ Empty /\ latest = disk /\ lost = {}) =>
      (ReadsLatest /\ CleanRight /\ Forgotten /\ \A x \in Addr : View(x) = disk[x])
  BY EmptyData
<1>2. QED
  BY <1>1, PTL

\* A power failure is one of the store.
LEMMA CrashData ==
    ASSUME CacheAssumption, DataInv, CacheInv', Crash PROVE DataInv' /\ StoreStep
<1>1. Empty' /\ latest' = disk /\ disk' = disk /\ lost' = {}
  BY DEF Crash, Empty
<1>2. MediaOK' /\ MediaOK
  BY DEF DataInv, CacheInv, CacheRight, TypeOK, MediaOK
<1>3. (ReadsLatest /\ CleanRight /\ Forgotten)' /\ \A x \in Addr : View(x)' = disk'[x]
  BY <1>1, <1>2, EmptyDataAgain
<1>4. [x \in Addr |-> View(x)'] = disk
  <2>1. disk \in [Addr -> Data]
    BY <1>2 DEF MediaOK
  <2> QED BY <1>1, <1>3, <2>1
<1>5. Store!PowerFailure
  BY <1>1, <1>4 DEF Store!PowerFailure
<1>6. Store!SNext
  BY <1>5 DEF Store!SNext
<1>7. QED
  BY <1>3, <1>6 DEF DataInv, StoreStep

-----------------------------------------------------------------------------
(* Steps that take a buffer.                                               *)

\* The buffer blk_get returns holds the block as it reads, or nothing.
LEMMA GetBuffer ==
    ASSUME CacheAssumption, CacheInv, NEW d \in Dev, NEW n \in Blk, NEW b \in Buffers, NEW F,
           NEW new, Get(d, n, b, F, new)
    PROVE  /\ \A c \in Buffers : buf[c].valid /\ AddrOf(c) = <<d, n>> => c = b
           /\ Taken(d, n, b).valid <=> buf[b].valid /\ AddrOf(b) = <<d, n>>
           /\ Evicted(d, n, b) \in SUBSET {c \in Buffers : buf[c].dirty}
           /\ \A c \in Evicted(d, n, b) : c = b /\ AddrOf(c) # <<d, n>>
           /\ buf[b].dirty /\ AddrOf(b) # <<d, n>> => b \in Evicted(d, n, b)
           /\ F \in SUBSET Evicted(d, n, b) /\ disk' = Written(Evicted(d, n, b), F)
           /\ buf'[b] = new /\ \A c \in Buffers \ {b} : buf'[c] = buf[c]
<1>0. CacheRight /\ TypeOK /\ b \in Buf /\ Buffers \subseteq Buf /\ buf \in [Buf -> Block]
  BY BufferFacts DEF CacheInv, CacheRight, TypeOK
<1>1. b \in Found(d, n) /\ F \in SUBSET Evicted(d, n, b) /\ disk' = Written(Evicted(d, n, b), F)
      /\ buf' = [buf EXCEPT ![b] = new]
  BY DEF Get, WriteOut
<1>2. /\ b \in Match(d, n) \/ Match(d, n) = {}
      /\ Match(d, n) = {} =>
            \A c \in Buffers : buf[c].refcnt > 0 \/ buf[c].valid => AddrOf(c) # <<d, n>>
  BY <1>0, <1>1, FoundFacts
<1>3. b \in Match(d, n) => AddrOf(b) = <<d, n>> /\ (buf[b].refcnt > 0 \/ buf[b].valid)
  BY DEF Match, AddrOf
<1>4. \A c \in Buffers : buf[c].valid /\ AddrOf(c) = <<d, n>> => c = b
  BY <1>2, <1>3 DEF CacheInv, CacheRight, OneCopy
<1>5. Taken(d, n, b).valid <=> Match(d, n) # {} /\ buf[b].valid
  BY <1>0, TakenShape
<1>6. Taken(d, n, b).valid <=> buf[b].valid /\ AddrOf(b) = <<d, n>>
  BY <1>2, <1>3, <1>5
<1>7. Evicted(d, n, b) \in SUBSET {c \in Buffers : buf[c].dirty}
  BY EvictedFacts
<1>8. \A c \in Evicted(d, n, b) : c = b /\ AddrOf(c) # <<d, n>>
  BY <1>2, <1>7 DEF Evicted, CacheInv, Held
<1>9. buf[b].dirty /\ AddrOf(b) # <<d, n>> => b \in Evicted(d, n, b)
  BY <1>2, <1>3 DEF Evicted
<1>10. buf'[b] = new /\ \A c \in Buffers \ {b} : buf'[c] = buf[c]
  BY <1>0, <1>1
<1>11. QED
  BY <1>1, <1>4, <1>6, <1>7, <1>8, <1>9, <1>10

\* What taking a buffer for the block y shows of it and of the others.
GetSeen(y, b, F, new) ==
    /\ LostBy(F) \in SUBSET (Addr \ {y})
    /\ \A x \in Addr \ {y} :
          /\ Settled(x)
          /\ View(x)' = View(x) \/ (x \in lost \cup LostBy(F) /\ View(x)' = disk'[x])
    /\ disk'[y] = disk[y]
    /\ View(y)' = IF new.valid THEN new.data ELSE disk[y]
    /\ \A c \in Buffers \ {b} :
          /\ buf'[c] = buf[c]
          /\ buf[c].valid /\ ~buf[c].dirty /\ AddrOf(c) \notin lost
             => buf[c].data = disk'[AddrOf(c)]

LEMMA GetView ==
    ASSUME CacheAssumption, DataInv, CacheInv', NEW d \in Dev, NEW n \in Blk, NEW b \in Buffers,
           NEW F, NEW new, new.dev = d, new.nr = n, Get(d, n, b, F, new), count' = count
    PROVE  /\ GetSeen(<<d, n>>, b, F, new)
           /\ View(<<d, n>>) = IF Taken(d, n, b).valid THEN buf[b].data ELSE disk[<<d, n>>]
<1> DEFINE y == <<d, n>>
           E == Evicted(d, n, b)
<1>0. CacheInv /\ ViewRight /\ ViewRight' /\ y \in Addr /\ Buffers' = Buffers
  BY ViewIs, ViewNext DEF DataInv, Addr, Buffers
<1>1. /\ \A c \in Buffers : buf[c].valid /\ AddrOf(c) = y => c = b
      /\ Taken(d, n, b).valid <=> buf[b].valid /\ AddrOf(b) = y
      /\ E \in SUBSET {c \in Buffers : buf[c].dirty}
      /\ \A c \in E : c = b /\ AddrOf(c) # y
      /\ buf[b].dirty /\ AddrOf(b) # y => b \in E
      /\ F \in SUBSET E /\ disk' = Written(E, F)
      /\ buf'[b] = new /\ \A c \in Buffers \ {b} : buf'[c] = buf[c]
  BY <1>0, GetBuffer
<1>2. AddrOf(b)' = y
  BY <1>1 DEF AddrOf
<1>3. \A c \in Buffers \ {b} : AddrOf(c)' = AddrOf(c)
  BY <1>1 DEF AddrOf
<1> HIDE DEF y, E
<1>4. /\ \A c \in E \ F : disk'[AddrOf(c)] = buf[c].data /\ AddrOf(c) \in Addr
      /\ \A x \in Addr : (\A c \in E \ F : AddrOf(c) # x) => disk'[x] = disk[x]
  <2>1. E \in SUBSET {c \in Buffers : buf[c].dirty} /\ disk' = Written(E, F)
    BY <1>1
  <2> QED BY <1>0, <2>1, WrittenFacts
<1>5. LostBy(F) \in SUBSET (Addr \ {y})
  <2>1. F \in SUBSET {c \in Buffers : buf[c].dirty}
    BY <1>1
  <2>2. LostBy(F) \subseteq Addr
    BY <1>0, <2>1, LostType
  <2> QED BY <1>1, <2>2 DEF LostBy
<1>6. disk'[y] = disk[y]
  BY <1>0, <1>1, <1>4
<1>7. View(y) = IF Taken(d, n, b).valid THEN buf[b].data ELSE disk[y]
  <2>1. CASE buf[b].valid /\ AddrOf(b) = y
    BY <1>0, <1>1, <2>1 DEF ViewRight
  <2>2. CASE ~(buf[b].valid /\ AddrOf(b) = y)
    <3>1. \A c \in Buffers : ~(buf[c].valid /\ AddrOf(c) = y)
      BY <1>1, <2>2
    <3>2. View(y) = disk[y]
      BY <1>0, <3>1 DEF ViewRight
    <3> QED BY <1>1, <2>2, <3>2
  <2> QED BY <2>1, <2>2
<1>8. View(y)' = IF new.valid THEN new.data ELSE disk[y]
  <2>1. CASE new.valid
    BY <1>0, <1>1, <1>2, <2>1 DEF ViewRight
  <2>2. CASE ~new.valid
    <3>1. \A c \in Buffers' : ~(buf'[c].valid /\ AddrOf(c)' = y)
      BY <1>0, <1>1, <1>3, <2>2
    <3> QED BY <1>0, <1>6, <2>2, <3>1 DEF ViewRight
  <2> QED BY <2>1, <2>2
<1>9. ASSUME NEW x \in Addr \ {y}
      PROVE  /\ Settled(x)
             /\ View(x)' = View(x) \/ (x \in lost \cup LostBy(F) /\ View(x)' = disk'[x])
  <2>1. CASE buf[b].valid /\ AddrOf(b) = x
    <3>1. View(x) = buf[b].data
      BY <1>0, <2>1 DEF ViewRight
    <3>2. \A c \in Buffers : buf[c].valid /\ AddrOf(c) = x => c = b
      BY <1>0, <2>1 DEF CacheInv, CacheRight, OneCopy
    <3>3. \A c \in Buffers' : ~(buf'[c].valid /\ AddrOf(c)' = x)
      BY <1>0, <1>1, <1>2, <1>3, <3>2
    <3>4. View(x)' = disk'[x]
      BY <1>0, <3>3 DEF ViewRight
    <3>5. CASE b \in F
      <4>1. x \in LostBy(F)
        BY <2>1, <3>5 DEF LostBy
      <4>2. disk'[x] = disk[x]
        BY <1>1, <1>4, <3>5
      <4> QED BY <3>4, <4>1, <4>2 DEF Settled
    <3>6. CASE b \in E \ F
      <4>1. disk'[x] = buf[b].data
        BY <1>4, <2>1, <3>6
      <4> QED BY <3>1, <3>4, <4>1 DEF Settled
    <3>7. CASE b \notin E
      <4>1. ~buf[b].dirty
        BY <1>1, <2>1, <3>7
      <4>2. disk'[x] = disk[x]
        BY <1>1, <1>4, <3>7
      <4>3. x \in lost \/ buf[b].data = disk[x]
        BY <2>1, <4>1 DEF DataInv, CleanRight
      <4> QED BY <3>1, <3>4, <4>2, <4>3 DEF Settled
    <3> QED BY <1>1, <3>5, <3>6, <3>7
  <2>2. CASE ~(buf[b].valid /\ AddrOf(b) = x)
    <3>1. disk'[x] = disk[x]
      BY <1>0, <1>1, <1>4, <2>2 DEF CacheInv, Held
    <3>2. CASE \E c \in Buffers : buf[c].valid /\ AddrOf(c) = x
      <4>1. PICK c \in Buffers : buf[c].valid /\ AddrOf(c) = x
        BY <3>2
      <4>2. c # b
        BY <2>2, <4>1
      <4>3. c \in Buffers' /\ buf'[c].valid /\ AddrOf(c)' = x /\ buf'[c].data = buf[c].data
        BY <1>0, <1>1, <1>3, <4>1, <4>2
      <4>4. View(x) = buf[c].data /\ View(x)' = buf'[c].data
        BY <1>0, <4>1, <4>3 DEF ViewRight
      <4> QED BY <3>1, <4>3, <4>4 DEF Settled
    <3>3. CASE \A c \in Buffers : ~(buf[c].valid /\ AddrOf(c) = x)
      <4>1. \A c \in Buffers' : ~(buf'[c].valid /\ AddrOf(c)' = x)
        BY <1>0, <1>1, <1>2, <1>3, <3>3
      <4>2. View(x) = disk[x] /\ View(x)' = disk'[x]
        BY <1>0, <3>3, <4>1 DEF ViewRight
      <4> QED BY <3>1, <4>2 DEF Settled
    <3> QED BY <3>2, <3>3
  <2> QED BY <2>1, <2>2
<1>10. ASSUME NEW c \in Buffers \ {b}, buf[c].valid, ~buf[c].dirty, AddrOf(c) \notin lost
       PROVE  buf[c].data = disk'[AddrOf(c)]
  <2>1. AddrOf(c) \in Addr /\ buf[c].data = disk[AddrOf(c)]
    BY <1>0, <1>10 DEF CacheInv, Held, DataInv, CleanRight
  <2>2. \A e \in E : AddrOf(e) # AddrOf(c)
    BY <1>0, <1>1, <1>10 DEF CacheInv, CacheRight, OneCopy, Held
  <2> QED BY <1>4, <2>1, <2>2
<1>11. QED
  BY <1>1, <1>5, <1>6, <1>7, <1>8, <1>9, <1>10 DEF GetSeen, y

\* A device in use is not closed by taking a buffer for it.
LEMMA GetForgotten ==
    ASSUME CacheAssumption, DataInv, NEW d \in Dev, NEW b \in Buffers, opens[d] > 0,
           UNCHANGED <<opens, count>>, buf'[b].dev = d, \A c \in Buffers \ {b} : buf'[c] = buf[c]
    PROVE  Forgotten'
<1>1. Buffers' = Buffers
  BY DEF Buffers
<1>2. opens[d] # 0
  BY DEF DataInv, CacheInv, CacheRight, TypeOK, CacheAssumption
<1>3. ASSUME NEW e \in Dev, opens'[e] = 0, NEW c \in Buffers', buf'[c].dev = e
      PROVE  ~buf'[c].valid /\ buf'[c].refcnt = 0
  <2>1. c \in Buffers \ {b} /\ opens[e] = 0
    BY <1>1, <1>2, <1>3
  <2>2. buf[c].dev = e /\ buf'[c] = buf[c]
    BY <1>3, <2>1
  <2> QED BY <2>1, <2>2 DEF DataInv, Forgotten
<1>4. QED
  BY <1>3 DEF Forgotten

\* Reads, and reads that fail: clients see nothing.
LEMMA ReadData ==
    ASSUME CacheAssumption, DataInv, CacheInv', NEW d \in Dev, NEW n \in Blk, NEW b \in Buffers,
           NEW F \in SUBSET {b}, Read(d, n, b, F) \/ ReadFails(d, n, b, F)
    PROVE  DataInv' /\ StoreStep
<1> DEFINE y == <<d, n>>
           t == Taken(d, n, b)
<1>0. /\ TypeOK /\ MediaOK /\ MediaOK' /\ b \in Buf /\ ReadsLatest /\ y \in Addr /\ CacheInv
  BY BufferFacts DEF DataInv, CacheInv, CacheRight, TypeOK, MediaOK, Addr
<1>1. PICK new : /\ Get(d, n, b, F, new)
                 /\ new = Filled(d, n, b) \/ (new = Released(t) /\ ~t.valid)
                 /\ UNCHANGED <<count, opens, latest>> /\ lost' = lost \cup LostBy(F) /\ opens[d] > 0
  BY DEF Read, ReadFails
<1>2. b \in Match(d, n) \/ Match(d, n) = {}
  BY <1>1, FoundFacts DEF Get, DataInv, CacheInv
<1>3. /\ t \in Record /\ t.dev = d /\ t.nr = n /\ t.refcnt >= 1 /\ t.data = buf[b].data
      /\ t.dirty <=> Match(d, n) # {} /\ buf[b].dirty
  BY <1>0, <1>2, TakenShape
<1>4. /\ Filled(d, n, b).dev = d /\ Filled(d, n, b).nr = n /\ Filled(d, n, b).valid
      /\ Filled(d, n, b).dirty <=> t.dirty
      /\ Filled(d, n, b).data = IF t.valid THEN t.data ELSE disk[y]
  BY <1>0, <1>3, FilledShape
<1>5. Released(t).dev = d /\ Released(t).nr = n /\ Released(t).valid = t.valid
  BY <1>3, ReleasedShape
<1> HIDE DEF y, t
<1>6. /\ new.dev = d /\ new.nr = n
      /\ new.valid => new.data = (IF t.valid THEN buf[b].data ELSE disk[y]) /\ (new.dirty <=> t.dirty)
      /\ ~new.valid => ~t.valid
  BY <1>1, <1>3, <1>4, <1>5
<1>7. GetSeen(y, b, F, new) /\ View(y) = IF t.valid THEN buf[b].data ELSE disk[y]
  BY <1>1, <1>6, GetView DEF y, t
<1>8. View(y)' = View(y)
  BY <1>6, <1>7 DEF GetSeen
<1>9. BackStep
  <2>1. LostBy(F) \in SUBSET Addr
    BY <1>7 DEF GetSeen
  <2>2. \A x \in Addr : Kept(x) /\ Settled(x)
    BY <1>1, <1>7, <1>8 DEF GetSeen, Kept, Settled
  <2> QED BY <1>1, <2>1, <2>2 DEF BackStep
<1>10. ReadsLatest' /\ Store!SNext
  BY <1>0, <1>9, BackReads, BackStore
<1>11. /\ buf'[b] = new /\ \A c \in Buffers \ {b} : buf'[c] = buf[c]
       /\ t.valid <=> buf[b].valid /\ AddrOf(b) = y
  BY <1>0, <1>1, GetBuffer DEF y, t
<1>12. CleanRight'
  <2> SUFFICES ASSUME NEW c \in Buffers, buf'[c].valid, ~buf'[c].dirty, AddrOf(c)' \notin lost'
               PROVE  buf'[c].data = disk'[AddrOf(c)']
    BY <1>1 DEF CleanRight, Buffers
  <2>1. CASE c = b
    <3>1. AddrOf(c)' = y /\ y \notin lost /\ new.valid /\ ~new.dirty
      BY <1>1, <1>6, <1>11, <2>1 DEF AddrOf, y
    <3>2. disk'[y] = disk[y] /\ new.data = IF t.valid THEN buf[b].data ELSE disk[y]
      BY <1>6, <1>7, <3>1 DEF GetSeen
    <3>3. t.valid => ~buf[b].dirty
      <4>1. t.valid => Match(d, n) # {}
        BY <1>0, TakenShape DEF t
      <4> QED BY <1>3, <1>6, <3>1, <4>1
    <3>4. t.valid => buf[b].data = disk[y]
      BY <1>11, <3>1, <3>3 DEF DataInv, CleanRight
    <3> QED BY <1>11, <2>1, <3>1, <3>2, <3>4
  <2>2. CASE c # b
    <3>1. buf'[c] = buf[c] /\ AddrOf(c)' = AddrOf(c) /\ AddrOf(c) \notin lost
      BY <1>1, <1>11, <2>2 DEF AddrOf
    <3> QED BY <1>7, <2>2, <3>1 DEF GetSeen
  <2> QED BY <2>1, <2>2
<1>13. Forgotten'
  BY <1>1, <1>6, <1>11, GetForgotten
<1>14. QED
  BY <1>10, <1>12, <1>13 DEF DataInv, StoreStep

\* A write through the cache is a client's write, of the whole block or over
\* the block as it reads.
LEMMA PwriteData ==
    ASSUME CacheAssumption, DataInv, CacheInv', NEW d \in Dev, NEW n \in Blk, NEW b \in Buffers,
           NEW F \in SUBSET {b}, NEW P \in SUBSET Part, NEW v \in Val, Pwrite(d, n, b, F, P, v)
    PROVE  DataInv' /\ StoreStep
<1> DEFINE y == <<d, n>>
           t == Taken(d, n, b)
           base == Based(d, n, b, P)
           st == Stored(base, P, v)
           r == Released(st)
<1>0. /\ TypeOK /\ MediaOK /\ MediaOK' /\ b \in Buf /\ ReadsLatest /\ y \in Addr /\ CacheInv
  BY BufferFacts DEF DataInv, CacheInv, CacheRight, TypeOK, MediaOK, Addr
<1>1. /\ Get(d, n, b, F, r) /\ UNCHANGED <<count, opens>> /\ Note(y, P, v, F) /\ opens[d] > 0
  BY DEF Pwrite
<1>2. b \in Match(d, n) \/ Match(d, n) = {}
  BY <1>1, FoundFacts DEF Get, DataInv, CacheInv
<1>3. t \in Record /\ t.dev = d /\ t.nr = n /\ t.refcnt >= 1 /\ t.data = buf[b].data
  BY <1>0, <1>2, TakenShape
<1>4. /\ Filled(d, n, b) \in Record /\ Filled(d, n, b).dev = d /\ Filled(d, n, b).nr = n
      /\ Filled(d, n, b).refcnt >= 1
      /\ Filled(d, n, b).data = IF t.valid THEN t.data ELSE disk[y]
  BY <1>0, <1>3, FilledShape
<1>5. /\ base \in Record /\ base.dev = d /\ base.nr = n /\ base.refcnt >= 1
      /\ P = Part \/ base.data = IF t.valid THEN buf[b].data ELSE disk[y]
  BY <1>3, <1>4 DEF Based
<1> HIDE DEF base
<1>6. /\ st \in Record /\ st.dev = base.dev /\ st.nr = base.nr /\ st.refcnt = base.refcnt
      /\ st.valid /\ st.dirty /\ st.data \in [Part -> Val]
  BY <1>5, StoredShape
<1>7. \A p \in Part : st.data[p] = IF p \in P THEN v ELSE base.data[p]
  BY <1>5, StoredData
<1> HIDE DEF st
<1>8. st \in Record /\ st.refcnt >= 1
  BY <1>5, <1>6
<1>9. /\ r.dev = d /\ r.nr = n /\ r.valid = st.valid /\ r.dirty = st.dirty /\ r.data = st.data
  BY <1>5, <1>6, <1>8, ReleasedShape
<1> HIDE DEF y, t, r
<1>10. GetSeen(y, b, F, r) /\ View(y) = IF t.valid THEN buf[b].data ELSE disk[y]
  BY <1>1, <1>9, GetView DEF y, t
<1>11. View(y)' = st.data
  BY <1>6, <1>9, <1>10 DEF GetSeen
<1>12. \A p \in Part : View(y)'[p] = IF p \in P THEN v ELSE View(y)[p]
  <2> SUFFICES ASSUME NEW p \in Part PROVE View(y)'[p] = IF p \in P THEN v ELSE View(y)[p]
    OBVIOUS
  <2>1. CASE p \in P
    BY <1>7, <1>11, <2>1
  <2>2. CASE p \notin P
    <3>1. base.data = View(y)
      BY <1>5, <1>10, <2>2
    <3> QED BY <1>7, <1>11, <2>2, <3>1
  <2> QED BY <2>1, <2>2
<1>13. ChangeStep(y, P, v)
  <2>1. LostBy(F) \in SUBSET Addr
    BY <1>10 DEF GetSeen
  <2>2. /\ latest' = [latest EXCEPT ![y] = [p \in Part |-> IF p \in P THEN v ELSE @[p]]]
        /\ lost' = IF P = Part THEN (lost \cup LostBy(F)) \ {y} ELSE lost \cup LostBy(F)
    BY <1>1 DEF Note
  <2>3. \A x \in Addr : Settled(x)
    BY <1>10 DEF GetSeen, Settled
  <2>4. \A x \in Addr \ {y} :
           View(x)' = View(x) \/ (x \in lost \cup LostBy(F) /\ View(x)' = disk'[x])
    BY <1>10 DEF GetSeen
  <2>5. View(y)' \in [Part -> Val]
    BY <1>6, <1>11
  <2> QED BY <1>12, <2>1, <2>2, <2>3, <2>4, <2>5 DEF ChangeStep
<1>14. ReadsLatest' /\ Store!SNext
  BY <1>0, <1>13, ChangeReads, ChangeStore DEF y
<1>15. buf'[b] = r /\ \A c \in Buffers \ {b} : buf'[c] = buf[c]
  BY <1>0, <1>1, GetBuffer DEF y, t
<1>16. CleanRight'
  <2> SUFFICES ASSUME NEW c \in Buffers, buf'[c].valid, ~buf'[c].dirty, AddrOf(c)' \notin lost'
               PROVE  buf'[c].data = disk'[AddrOf(c)']
    BY <1>1 DEF CleanRight, Buffers
  <2>1. c # b
    BY <1>6, <1>9, <1>15
  <2>2. buf'[c] = buf[c] /\ AddrOf(c)' = AddrOf(c) /\ buf[c].valid
    BY <1>15, <2>1 DEF AddrOf
  <2>3. AddrOf(c) # y
    BY <1>0, <1>1, <2>1, <2>2, GetBuffer DEF y
  <2>4. AddrOf(c) \notin lost
    BY <1>1, <2>2, <2>3 DEF Note
  <2> QED BY <1>10, <2>1, <2>2, <2>4 DEF GetSeen
<1>17. Forgotten'
  BY <1>1, <1>9, <1>15, GetForgotten
<1>18. QED
  BY <1>14, <1>16, <1>17 DEF DataInv, StoreStep

-----------------------------------------------------------------------------
(* The theorems about the contents.                                        *)

\* Every step keeps the contents right and is one of the store.
LEMMA NextData ==
    ASSUME CacheAssumption, DataInv, [Next]_vars PROVE DataInv' /\ StoreStep
<1>0. CacheInv'
  BY NextCache DEF DataInv
<1>1. CASE Next
  <2>1. ASSUME NEW d \in Dev, NEW n \in Blk, NEW b \in Buffers, NEW F \in SUBSET {b},
               \/ Read(d, n, b, F)
               \/ ReadFails(d, n, b, F)
               \/ \E P \in (SUBSET Part) \ {{}}, v \in Val : Pwrite(d, n, b, F, P, v)
        PROVE  DataInv' /\ StoreStep
    BY <1>0, <2>1, ReadData, PwriteData
  <2>2. ASSUME NEW d \in Dev, NEW v \in Val, ExchangeMedium(d, [p \in Part |-> v])
        PROVE  DataInv' /\ StoreStep
    <3>1. [p \in Part |-> v] \in [Part -> Val]
      OBVIOUS
    <3> QED BY <1>0, <2>2, <3>1, ExchangeData
  <2> QED BY <1>0, <1>1, <2>1, <2>2, HolderData, CalmData, SyncData, CrashData DEF Next
<1>2. CASE UNCHANGED vars
  BY <1>0, <1>2, CalmData
<1>3. QED
  BY <1>1, <1>2

\* The initial cache is empty, and the store holds what the media hold.
LEMMA InitData == ASSUME CacheAssumption, Init PROVE DataInv /\ Store!SInit
<1>1. CacheInv
  BY InitCache
<1>2. Empty /\ MediaOK /\ latest = disk /\ lost = {}
  BY <1>1 DEF Init, Empty, MediaOK, CacheInv, CacheRight, TypeOK
<1>3. ReadsLatest /\ CleanRight /\ Forgotten /\ \A x \in Addr : View(x) = disk[x]
  BY <1>2, EmptyData
<1>4. [x \in Addr |-> View(x)] = disk
  BY <1>2, <1>3 DEF MediaOK
<1>5. QED
  BY <1>1, <1>2, <1>3, <1>4 DEF DataInv, Store!SInit

\* A block reads as it was written last, a closed device has left the cache
\* and is complete on its medium, and a clean cache loses nothing, through
\* evictions, partial writes, failing transfers, new media and reboots,
\* unless the device has refused the block.
THEOREM DataCorrect == ASSUME CacheAssumption PROVE Spec => []DataRight
<1>1. Init => DataInv
  BY InitData
<1>2. DataInv /\ [Next]_vars => DataInv'
  BY NextData
<1>3. DataInv => DataRight
  BY DataInvEnough
<1>4. QED
  BY <1>1, <1>2, <1>3, PTL DEF Spec

\* The cache implements the store of blocks: whatever blk_get, blk_read,
\* blk_write, blk_put, blk_syncdev, blk_open, blk_close and blk_add do, their
\* clients see one copy of every block that reaches its medium some time.
THEOREM StoreRefined == ASSUME CacheAssumption PROVE Spec => StoreSpec
<1>1. Init => DataInv /\ Store!SInit
  BY InitData
<1>2. DataInv /\ [Next]_vars => DataInv' /\ [Store!SNext]_(Store!sVars)
  BY NextData DEF StoreStep
<1>3. QED
  BY <1>1, <1>2, PTL DEF Spec, StoreSpec, Store!SSpec

-----------------------------------------------------------------------------
(* Mounting: who holds what.                                               *)

Mounted(d) == \E i \in Slot : fs[i].in_use /\ fs[i].dev = d

\* A file system on d is mounted and has not been unmounted by the clock.
Busy(d) == \E i \in Slot : fs[i].in_use /\ fs[i].dev = d /\ fs[i].active

SlotsRight ==
    /\ \A i \in Slot : fs[i].in_use => fs[i].dev \in Bdev /\ (fs[i].removable \/ fs[i].active)
    /\ \A i \in Slot : refs[i] > 0 => fs[i].in_use /\ fs[i].active
    /\ \A i, j \in Slot : fs[i].in_use /\ fs[j].in_use /\ fs[i].dev = fs[j].dev => i = j

UsersRight ==
    \A d \in Bdev :
        /\ Mounted(d) => refcnt[d] > 0
        /\ refcnt[d] > (IF Mounted(d) THEN 1 ELSE 0) => d \in raw
        /\ d \in raw => refcnt[d] > 0
        /\ d \in marked => Busy(d)
        /\ d \in cached => d \in raw \/ Busy(d)

QueuedRight ==
    /\ QueuedInUse
    /\ \A i \in Queued : i \in Slot /\ fs[i].removable

MountInv == MountTypes /\ NoPanic /\ SlotsRight /\ UsersRight /\ QueuedRight /\ WillUnmount

-----------------------------------------------------------------------------
(* The ring.                                                               *)

LEMMA SlotIs == ASSUME MountAssumption PROVE Slot = 1..MaxFs /\ MaxFs \in Nat /\ 0 \notin Slot
BY DEF MountAssumption, Slot

LEMMA QueuedSlots ==
    ASSUME MountTypes
    PROVE  Range(ring) \subseteq Slot
BY RangeOfSeq DEF MountTypes

\* What comes off the ring is still waiting for its unmount.
LEMMA TakeKeepsQueued ==
    ASSUME MountAssumption, MountTypes, Take
    PROVE  /\ Queued' = Queued
           /\ ring' \in Seq(Slot) /\ taken' \in Slot
<1>1. ring \in Seq(Slot) /\ ring # <<>> /\ taken = 0 /\ taken' = Head(ring) /\ ring' = Tail(ring)
  BY DEF MountTypes, Take
<1>2. /\ Head(ring) \in Slot /\ Tail(ring) \in Seq(Slot)
      /\ ring = <<Head(ring)>> \o Tail(ring)
  BY <1>1
<1>3. Range(ring) = Range(<<Head(ring)>>) \cup Range(Tail(ring))
  <2>1. <<Head(ring)>> \in Seq(Slot)
    BY <1>2
  <2>2. QED
    BY <1>2, <2>1, RangeConcatenation
<1>4. Range(<<Head(ring)>>) = {Head(ring)}
  BY DEF Range
<1>5. Queued = Range(ring) /\ Queued' = Range(Tail(ring)) \cup {Head(ring)}
  BY <1>1, <1>2, SlotIs DEF Queued
<1>6. QED
  BY <1>1, <1>2, <1>3, <1>4, <1>5

\* The clock adds the slots that are due.
LEMMA ClockQueues ==
    ASSUME MountAssumption, MountTypes, fs_clock, UNCHANGED taken
    PROVE  /\ Queued' = Queued \cup DueSlots(Passed)
           /\ ring' \in Seq(Slot)
<1> DEFINE due == DueSlots(Passed)
<1>1. PICK s \in InOrder(due) : ring' = ring \o s
  BY DEF fs_clock
<1>2. due \in SUBSET Slot
  BY DEF DueSlots
<1>3. IsFiniteSet(due) /\ Cardinality(due) \in Nat
  <2>1. IsFiniteSet(Slot)
    BY SlotIs, FS_Interval
  <2>2. QED
    BY <1>2, <2>1, FS_Subset, FS_CardinalityType
<1> HIDE DEF due
<1>4. s \in [1..Cardinality(due) -> due] /\ Range(s) = due
  BY <1>1 DEF InOrder
<1>5. s \in Seq(Slot) /\ ring \in Seq(Slot)
  <2>1. PICK n \in Nat : s \in [1..n -> Slot]
    BY <1>2, <1>3, <1>4
  <2>2. s \in Seq(Slot)
    BY <2>1
  <2>3. QED
    BY <2>2 DEF MountTypes
<1>6. Range(ring') = Range(ring) \cup due /\ ring' \in Seq(Slot)
  BY <1>1, <1>4, <1>5, RangeConcatenation
<1>7. QED
  BY <1>6 DEF Queued, due

\* task_rundp has run what it had taken.
LEMMA RunQueued ==
    ASSUME MountAssumption, MountTypes, UNCHANGED ring, taken' = 0, taken # 0
    PROVE  Queued' \subseteq Queued /\ Queued \subseteq Queued' \cup {taken}
<1>1. Range(ring') = Range(ring) /\ Queued' = Range(ring')
  BY DEF Queued
<1>2. QED
  BY <1>1 DEF Queued

LEMMA QueuedSame ==
    ASSUME UNCHANGED <<ring, taken>>
    PROVE  Queued' = Queued
BY DEF Queued

-----------------------------------------------------------------------------
(* Steps that leave the table alone.                                       *)

table == <<fs, refs, refcnt, cached, marked, raw, panic>>

LEMMA TableSame ==
    ASSUME MountTypes, NoPanic, SlotsRight, UsersRight, UNCHANGED table
    PROVE  /\ NoPanic' /\ SlotsRight' /\ UsersRight'
           /\ fs' \in [Slot -> FsRec] /\ refs' \in [Slot -> 0..MaxFso]
           /\ refcnt' \in [Bdev -> Nat] /\ cached' \in SUBSET Bdev
           /\ marked' \in SUBSET Bdev /\ raw' \in SUBSET Bdev /\ panic' \in BOOLEAN
BY DEF table, MountTypes, NoPanic, SlotsRight, UsersRight, Mounted, Busy

LEMMA TickRight ==
    ASSUME MountAssumption, MountInv, Tick
    PROVE  MountInv'
<1> USE DEF MountInv
<1>1. /\ NoPanic' /\ SlotsRight' /\ UsersRight'
      /\ fs' \in [Slot -> FsRec] /\ refs' \in [Slot -> 0..MaxFso]
      /\ refcnt' \in [Bdev -> Nat] /\ cached' \in SUBSET Bdev
      /\ marked' \in SUBSET Bdev /\ raw' \in SUBSET Bdev /\ panic' \in BOOLEAN
  BY TableSame DEF Tick, table
<1>2. Queued' = Queued \cup DueSlots(Passed) /\ ring' \in Seq(Slot)
  BY ClockQueues DEF Tick
<1>3. \A i \in Slot : /\ i \in DueSlots(Passed) <=> /\ fs[i].in_use /\ fs[i].removable
                                                     /\ fs[i].active /\ Passed[i] = 0
                      /\ left'[i] = IF i \in DueSlots(Passed) THEN Never ELSE Passed[i]
                      /\ Passed[i] = IF left[i] > 0 THEN left[i] - 1 ELSE left[i]
  BY DEF Tick, fs_clock, DueSlots, Passed
<1>4. MountTypes'
  <2>1. left' \in [Slot -> Never..UDelay]
    <3>1. \A i \in Slot : left'[i] \in Never..UDelay
      <4>1. \A i \in Slot : left[i] \in Never..UDelay
        BY DEF MountTypes
      <4>2. QED
        BY <1>3, <4>1 DEF Never, MountAssumption
    <3>2. left' = [i \in Slot |-> left'[i]]
      BY DEF Tick, fs_clock
    <3>3. QED
      BY <3>1, <3>2
  <2>2. taken' \in 0..MaxFs /\ cpu' \in {"user", "sys", "leave", "out"} /\ gone' \in 0..MaxFs
        /\ acc' \in 0..MaxAcc
    BY DEF Tick, MountTypes
  <2>3. QED
    BY <1>1, <1>2, <2>1, <2>2, Zenon DEF MountTypes
<1>5. QueuedRight'
  <2>1. UNCHANGED <<fs, gone>> /\ cpu' = (IF cpu = "user" THEN "leave" ELSE cpu)
    BY DEF Tick
  <2>2. \A i \in DueSlots(Passed) : i \in Slot /\ fs[i].in_use /\ fs[i].removable
    BY DEF DueSlots
  <2>3. QED
    BY <1>2, <2>1, <2>2 DEF QueuedRight, QueuedInUse
<1>6. WillUnmount'
  <2>1. UNCHANGED fs
    BY DEF Tick
  <2>2. \A i \in Slot : fs[i].in_use /\ fs[i].removable /\ fs[i].active
                        => left'[i] # Never \/ i \in Queued'
    <3>1. ASSUME NEW i \in Slot, fs[i].in_use, fs[i].removable, fs[i].active, i \notin Queued'
          PROVE  left'[i] # Never
      <4>1. left[i] # Never /\ left[i] \in Never..UDelay
        BY <1>2, <3>1 DEF WillUnmount, MountTypes
      <4>2. i \notin DueSlots(Passed)
        BY <1>2, <3>1
      <4>3. left'[i] = IF left[i] > 0 THEN left[i] - 1 ELSE left[i]
        BY <1>3, <4>2
      <4>4. QED
        BY <4>1, <4>3 DEF Never, MountAssumption
    <3>2. QED
      BY <3>1
  <2>3. QED
    BY <2>1, <2>2 DEF WillUnmount
<1>7. QED
  BY <1>1, <1>4, <1>5, <1>6

LEMMA TakeRight ==
    ASSUME MountAssumption, MountInv, Take
    PROVE  MountInv'
<1> USE DEF MountInv
<1>1. /\ NoPanic' /\ SlotsRight' /\ UsersRight'
      /\ fs' \in [Slot -> FsRec] /\ refs' \in [Slot -> 0..MaxFso]
      /\ refcnt' \in [Bdev -> Nat] /\ cached' \in SUBSET Bdev
      /\ marked' \in SUBSET Bdev /\ raw' \in SUBSET Bdev /\ panic' \in BOOLEAN
  BY TableSame DEF Take, table
<1>2. Queued' = Queued /\ ring' \in Seq(Slot) /\ taken' \in 0..MaxFs
  BY TakeKeepsQueued, SlotIs
<1>3. UNCHANGED <<fs, left, cpu, gone, acc>>
  BY DEF Take
<1>4. MountTypes'
  BY <1>1, <1>2, <1>3 DEF MountTypes
<1>5. QueuedRight' /\ WillUnmount'
  BY <1>2, <1>3 DEF QueuedRight, QueuedInUse, WillUnmount
<1>6. QED
  BY <1>1, <1>4, <1>5

\* Steps that only move the processor on: only intr_leave makes an exception
\* for a slot just unmounted, and it ends with an empty ring.
LEMMA CpuRight ==
    ASSUME MountAssumption, MountInv, UNCHANGED <<table, left, ring, taken>>,
           cpu' \in {"user", "sys", "leave", "out"}, gone' \in 0..MaxFs, acc' \in 0..MaxAcc,
           \/ cpu # "leave"
           \/ taken = 0 /\ ring = <<>>
    PROVE  MountInv'
<1> USE DEF MountInv
<1>1. /\ NoPanic' /\ SlotsRight' /\ UsersRight'
      /\ fs' \in [Slot -> FsRec] /\ refs' \in [Slot -> 0..MaxFso]
      /\ refcnt' \in [Bdev -> Nat] /\ cached' \in SUBSET Bdev
      /\ marked' \in SUBSET Bdev /\ raw' \in SUBSET Bdev /\ panic' \in BOOLEAN
  BY TableSame DEF table
<1>2. Queued' = Queued /\ UNCHANGED <<fs, left, ring, taken>>
  BY QueuedSame DEF table
<1>3. \A i \in Queued : fs[i].in_use
  <2>1. CASE cpu # "leave"
    BY <2>1 DEF QueuedRight, QueuedInUse
  <2>2. CASE taken = 0 /\ ring = <<>>
    BY <2>2 DEF Queued, Range
  <2>3. QED
    BY <2>1, <2>2
<1>4. MountTypes'
  BY <1>1, <1>2 DEF MountTypes
<1>5. QueuedRight' /\ WillUnmount'
  BY <1>2, <1>3 DEF QueuedRight, QueuedInUse, WillUnmount
<1>6. QED
  BY <1>1, <1>4, <1>5

-----------------------------------------------------------------------------
(* Steps on one slot.                                                      *)

\* A slot that is unmounted by the clock: its device has nothing marked or cached.
LEMMA DeactivatedRight ==
    ASSUME MountTypes, SlotsRight, UsersRight, NEW i \in Slot,
           fs[i].removable, refs[i] = 0,
           fs' = [fs EXCEPT ![i].active = FALSE], UNCHANGED <<refs, refcnt, raw>>,
           marked' = marked \ {fs[i].dev}, cached' = cached \ {fs[i].dev}
    PROVE  SlotsRight' /\ UsersRight'
<1>1. \A j \in Slot : /\ fs'[j].in_use = fs[j].in_use /\ fs'[j].dev = fs[j].dev
                      /\ fs'[j].removable = fs[j].removable
                      /\ fs'[j].active = IF j = i THEN FALSE ELSE fs[j].active
  BY DEF MountTypes, FsRec
<1>2. SlotsRight'
  BY <1>1 DEF SlotsRight, MountTypes
<1>3. \A d \in Bdev : Mounted(d)' = Mounted(d)
  BY <1>1 DEF Mounted
<1>4. \A d \in Bdev : d # fs[i].dev /\ Busy(d) => Busy(d)'
  BY <1>1 DEF Busy
<1>5. UsersRight'
  BY <1>3, <1>4 DEF UsersRight
<1>6. QED
  BY <1>2, <1>5

LEMMA RunRight ==
    ASSUME MountAssumption, MountInv, Run
    PROVE  MountInv'
<1> USE DEF MountInv
<1> DEFINE i == taken
<1>1. i \in Slot /\ i \in Queued /\ fs[i].removable
  <2>1. taken # 0
    BY DEF Run
  <2>2. i \in Queued
    BY <2>1 DEF Queued
  <2>3. QED
    BY <2>2 DEF QueuedRight
<1>2. /\ UNCHANGED <<refs, refcnt, ring, cpu, raw, gone, acc>> /\ taken' = 0
      /\ fs_dumount(i) /\ taken # 0
  BY DEF Run
<1>3. Queued' \subseteq Queued /\ Queued \subseteq Queued' \cup {i}
  BY <1>2, RunQueued
<1> HIDE DEF i
<1>4. taken' \in 0..MaxFs
  BY <1>2, SlotIs
<1>5. CASE ~fs[i].active
  <2>1. UNCHANGED <<fs, left, cached, marked, panic>>
    BY <1>1, <1>2, <1>5 DEF fs_dumount
  <2>2. UNCHANGED table
    BY <1>2, <2>1 DEF table
  <2>3. NoPanic' /\ SlotsRight' /\ UsersRight'
    BY <2>2, TableSame
  <2>4. MountTypes'
    BY <1>2, <1>4, <2>1 DEF MountTypes
  <2>5. QueuedRight' /\ WillUnmount'
    BY <1>2, <1>3, <1>5, <2>1 DEF QueuedRight, QueuedInUse, WillUnmount
  <2>6. QED
    BY <2>3, <2>4, <2>5
<1>6. CASE fs[i].active /\ refs[i] > 0
  <2>1. UNCHANGED <<fs, cached, marked>> /\ fs_sched_unmount(i)
    BY <1>1, <1>2, <1>6 DEF fs_dumount, MountTypes
  <2>2. left' = [left EXCEPT ![i] = UDelay] /\ panic' = panic
    BY <1>1, <2>1 DEF fs_sched_unmount, MountTypes, NoPanic
  <2>3. UNCHANGED table
    BY <1>2, <2>1, <2>2 DEF table
  <2>4. NoPanic' /\ SlotsRight' /\ UsersRight'
    BY <2>3, TableSame
  <2>5. MountTypes'
    <3>1. left' \in [Slot -> Never..UDelay]
      BY <1>1, <2>2 DEF MountTypes, MountAssumption, Never
    <3>2. QED
      BY <1>2, <1>4, <2>1, <2>2, <3>1 DEF MountTypes
  <2>6. QueuedRight'
    BY <1>2, <1>3, <2>1 DEF QueuedRight, QueuedInUse
  <2>7. left'[i] = UDelay /\ UDelay # Never /\ \A j \in Slot : j # i => left'[j] = left[j]
    BY <1>1, <2>2 DEF MountTypes, MountAssumption, Never
  <2>8. WillUnmount'
    BY <1>3, <2>1, <2>7 DEF WillUnmount
  <2>9. QED
    BY <2>4, <2>5, <2>6, <2>8
<1>7. CASE fs[i].active /\ refs[i] = 0
  <2>1. /\ fs' = [fs EXCEPT ![i].active = FALSE] /\ UNCHANGED <<left, panic>>
        /\ marked' = marked \ {fs[i].dev} /\ cached' = cached \ {fs[i].dev}
    BY <1>1, <1>2, <1>7 DEF fs_dumount, TypeUmount
  <2>2. SlotsRight' /\ UsersRight'
    BY <1>1, <1>2, <1>7, <2>1, DeactivatedRight
  <2>3. MountTypes' /\ NoPanic'
    BY <1>2, <1>4, <2>1 DEF MountTypes, FsRec, NoPanic
  <2>4. \A j \in Slot : /\ fs'[j].in_use = fs[j].in_use
                        /\ fs'[j].removable = fs[j].removable
                        /\ fs'[j].active = IF j = i THEN FALSE ELSE fs[j].active
    BY <2>1 DEF MountTypes, FsRec
  <2>5. QueuedRight'
    BY <1>2, <1>3, <2>4 DEF QueuedRight, QueuedInUse
  <2>6. WillUnmount'
    BY <1>3, <2>1, <2>4 DEF WillUnmount
  <2>7. QED
    BY <2>2, <2>3, <2>5, <2>6
<1>8. refs[i] \in Nat
  BY <1>1 DEF MountTypes
<1>9. QED
  BY <1>5, <1>6, <1>7, <1>8

\* In a system call every queued slot is in use, so a free one is not queued.
LEMMA FreeNotQueued ==
    ASSUME QueuedRight, cpu # "leave", NEW i \in Slot, ~fs[i].in_use
    PROVE  i \notin Queued
BY DEF QueuedRight, QueuedInUse

LEMMA SysMountRight ==
    ASSUME MountAssumption, MountInv, SysMount
    PROVE  MountInv'
<1> USE DEF MountInv
<1>1. PICK i \in Slot, d \in Bdev :
        \/ \E rem \in BOOLEAN : fs_mount(i, d, rem)
        \/ fs_mount_fails(i, d)
  BY DEF SysMount
<1>2. /\ cpu = "sys" /\ cpu' = "leave"
      /\ UNCHANGED <<refs, cached, ring, taken, raw, gone, acc, panic>>
  BY DEF SysMount
<1>3. /\ ~fs[i].in_use /\ ~Mounted(d) /\ ~Busy(d)
      /\ left' = [left EXCEPT ![i] = Never]
  BY <1>1 DEF fs_mount, fs_mount_fails, FreeSlot, Mounted, Busy
<1>4. Queued' = Queued /\ i \notin Queued
  BY <1>2, <1>3, QueuedSame, FreeNotQueued
<1>5. refs[i] = 0
  BY <1>3 DEF SlotsRight, MountTypes
<1>6. left' \in [Slot -> Never..UDelay]
  BY <1>3 DEF MountTypes, MountAssumption, Never
<1>7. QueuedRight' /\ WillUnmount'
  <2>1. \A j \in Slot : j # i => fs'[j] = fs[j] /\ left'[j] = left[j]
    BY <1>1, <1>3 DEF fs_mount, fs_mount_fails, MountTypes
  <2>2. QueuedRight'
    BY <1>2, <1>4, <2>1 DEF QueuedRight, QueuedInUse
  <2>3. fs'[i].removable => ~fs'[i].active
    <3>1. CASE \E rem \in BOOLEAN : fs_mount(i, d, rem)
      <4>1. PICK rem \in BOOLEAN : fs_mount(i, d, rem)
        BY <3>1
      <4>2. fs'[i] = [in_use |-> TRUE, dev |-> d, removable |-> rem, active |-> ~rem]
        BY <4>1 DEF fs_mount, MountTypes
      <4>3. fs'[i].removable = rem /\ fs'[i].active = ~rem
        BY <4>2
      <4>4. QED
        BY <4>3, Zenon
    <3>2. CASE fs_mount_fails(i, d)
      BY <3>2 DEF fs_mount_fails, MountTypes
    <3>3. QED
      BY <1>1, <3>1, <3>2
  <2>4. QED
    BY <1>4, <2>1, <2>2, <2>3 DEF WillUnmount
<1>8. CASE \E rem \in BOOLEAN : fs_mount(i, d, rem)
  <2>1. PICK rem \in BOOLEAN : fs_mount(i, d, rem)
    BY <1>8
  <2>2. /\ fs' = [fs EXCEPT ![i] = [in_use |-> TRUE, dev |-> d,
                                    removable |-> rem, active |-> ~rem]]
        /\ refcnt' = [refcnt EXCEPT ![d] = @ + 1]
        /\ marked' = IF rem THEN marked ELSE marked \cup {d}
    BY <2>1 DEF fs_mount
  <2>3. MountTypes' /\ NoPanic'
    <3>1. fs' \in [Slot -> FsRec]
      BY <2>2 DEF MountTypes, FsRec
    <3>2. refcnt' \in [Bdev -> Nat] /\ marked' \in SUBSET Bdev
      BY <2>2 DEF MountTypes
    <3>3. QED
      BY <1>2, <1>6, <3>1, <3>2 DEF MountTypes, NoPanic
  <2>4. /\ fs'[i].in_use /\ fs'[i].dev = d /\ fs'[i].removable = rem /\ fs'[i].active = ~rem
        /\ \A j \in Slot : j # i => fs'[j] = fs[j]
    BY <2>2 DEF MountTypes
  <2>5. SlotsRight'
    <3>1. \A j \in Slot : fs[j].in_use => fs[j].dev # d
      BY <1>3 DEF Mounted
    <3>2. \A j \in Slot : j # i =>
            (fs'[j].in_use => fs'[j].dev \in Bdev /\ (fs'[j].removable \/ fs'[j].active))
      BY <2>4 DEF SlotsRight
    <3>3. fs'[i].dev \in Bdev /\ (fs'[i].removable \/ fs'[i].active)
      BY <2>4
    <3>4. \A j \in Slot : refs'[j] > 0 => fs'[j].in_use /\ fs'[j].active
      BY <1>2, <1>5, <2>4 DEF SlotsRight
    <3>5. \A j, k \in Slot : fs'[j].in_use /\ fs'[k].in_use /\ fs'[j].dev = fs'[k].dev => j = k
      BY <2>4, <3>1 DEF SlotsRight
    <3>6. QED
      BY <3>2, <3>3, <3>4, <3>5 DEF SlotsRight
  <2>6. UsersRight'
    <3>1. Mounted(d)' /\ (rem = FALSE => Busy(d)')
      BY <2>4 DEF Mounted, Busy
    <3>2. \A e \in Bdev : e # d => Mounted(e)' = Mounted(e) /\ Busy(e)' = Busy(e)
      BY <1>3, <2>4 DEF Mounted, Busy
    <3>3. refcnt'[d] = refcnt[d] + 1 /\ \A e \in Bdev : e # d => refcnt'[e] = refcnt[e]
      BY <2>2 DEF MountTypes
    <3>4. refcnt[d] \in Nat /\ d \notin marked /\ (refcnt[d] > 0 => d \in raw)
          /\ (d \in cached => d \in raw)
      BY <1>3 DEF UsersRight, MountTypes
    <3>5. ASSUME NEW e \in Bdev, e # d
          PROVE  /\ Mounted(e)' => refcnt'[e] > 0
                 /\ refcnt'[e] > (IF Mounted(e)' THEN 1 ELSE 0) => e \in raw'
                 /\ e \in raw' => refcnt'[e] > 0
                 /\ e \in marked' => Busy(e)'
                 /\ e \in cached' => e \in raw' \/ Busy(e)'
      BY <1>2, <2>2, <3>2, <3>3, <3>5 DEF UsersRight
    <3>6. /\ refcnt'[d] > 0
          /\ refcnt'[d] > 1 => d \in raw'
          /\ d \in marked' => Busy(d)'
          /\ d \in cached' => d \in raw'
      BY <1>2, <2>2, <3>1, <3>3, <3>4
    <3>7. QED
      BY <3>1, <3>5, <3>6 DEF UsersRight
  <2>7. QED
    BY <1>7, <2>3, <2>5, <2>6
<1>9. CASE fs_mount_fails(i, d)
  <2>1. /\ fs' = [fs EXCEPT ![i] = [in_use |-> FALSE, dev |-> d,
                                    removable |-> FALSE, active |-> FALSE]]
        /\ UNCHANGED <<refcnt, marked>>
    BY <1>9 DEF fs_mount_fails
  <2>2. fs'[i].in_use = FALSE /\ \A j \in Slot : j # i => fs'[j] = fs[j]
    BY <2>1 DEF MountTypes
  <2>3. MountTypes' /\ NoPanic'
    <3>1. fs' \in [Slot -> FsRec]
      BY <2>1 DEF MountTypes, FsRec
    <3>2. QED
      BY <1>2, <1>6, <2>1, <3>1 DEF MountTypes, NoPanic
  <2>4. SlotsRight'
    BY <1>2, <1>5, <2>2 DEF SlotsRight
  <2>5. \A e \in Bdev : Mounted(e)' = Mounted(e) /\ Busy(e)' = Busy(e)
    BY <1>3, <2>2 DEF Mounted, Busy
  <2>6. UsersRight'
    BY <1>2, <2>1, <2>5 DEF UsersRight
  <2>7. QED
    BY <1>7, <2>3, <2>4, <2>6
<1>10. QED
  BY <1>1, <1>8, <1>9

LEMMA SysUmountRight ==
    ASSUME MountAssumption, MountInv, SysUmount
    PROVE  MountInv'
<1> USE DEF MountInv
<1>1. PICK i \in Slot : fs_umount(i) /\ gone' = i
  BY DEF SysUmount
<1>2. PICK d : d = fs[i].dev
  OBVIOUS
<1>3. /\ cpu = "sys" /\ cpu' = "leave" /\ UNCHANGED <<left, refs, ring, taken, acc>>
  BY DEF SysUmount
<1>4. /\ fs[i].in_use /\ refs[i] = 0
      /\ marked' = (IF fs[i].active THEN marked \ {d} ELSE marked)
      /\ fs' = [fs EXCEPT ![i].in_use = FALSE]
  BY <1>1, <1>2 DEF fs_umount, TypeUmount
<1>5. d \in Bdev /\ Mounted(d)
  BY <1>4, <1>2 DEF SlotsRight, Mounted
<1>6. refcnt[d] \in Nat /\ refcnt[d] > 0 /\ (refcnt[d] > 1 => d \in raw)
  BY <1>5 DEF UsersRight, MountTypes
<1>7. /\ refcnt' = [refcnt EXCEPT ![d] = @ - 1]
      /\ cached' = IF refcnt[d] = 1 THEN cached \ {d} ELSE cached
      /\ raw' = IF refcnt[d] = 1 THEN raw \ {d} ELSE raw
      /\ panic' = (panic \/ refcnt[d] = 0)
  BY <1>1, <1>2 DEF fs_umount, blk_close
<1>8. panic' = panic
  BY <1>6, <1>7 DEF NoPanic, MountTypes
<1>9. \A j \in Slot : /\ fs'[j].in_use = IF j = i THEN FALSE ELSE fs[j].in_use
                      /\ fs'[j].dev = fs[j].dev
                      /\ fs'[j].removable = fs[j].removable /\ fs'[j].active = fs[j].active
  BY <1>4 DEF MountTypes, FsRec
<1>10. refcnt'[d] = refcnt[d] - 1 /\ \A e \in Bdev : e # d => refcnt'[e] = refcnt[e]
  BY <1>5, <1>7 DEF MountTypes
<1>11. MountTypes' /\ NoPanic'
  <2>1. fs' \in [Slot -> FsRec]
    BY <1>4 DEF MountTypes, FsRec
  <2>2. refcnt' \in [Bdev -> Nat]
    BY <1>5, <1>6, <1>7 DEF MountTypes
  <2>3. cached' \in SUBSET Bdev /\ raw' \in SUBSET Bdev /\ marked' \in SUBSET Bdev
    BY <1>4, <1>7 DEF MountTypes
  <2>4. gone' \in 0..MaxFs
    BY <1>1, SlotIs
  <2>5. QED
    BY <1>3, <1>8, <2>1, <2>2, <2>3, <2>4 DEF MountTypes, NoPanic
<1>12. SlotsRight'
  BY <1>3, <1>4, <1>9 DEF SlotsRight, MountTypes
<1>13. \A j \in Slot : fs[j].in_use /\ fs[j].dev = d => j = i
  BY <1>4, <1>2 DEF SlotsRight
<1>14. UsersRight'
  <2>1. ~Mounted(d)'
    BY <1>9, <1>13 DEF Mounted
  <2>2. \A e \in Bdev : e # d => Mounted(e)' = Mounted(e) /\ Busy(e)' = Busy(e)
    BY <1>4, <1>9, <1>2 DEF Mounted, Busy
  <2>3. d \notin marked'
    BY <1>4, <1>5, <1>13 DEF UsersRight, Busy
  <2>4. ASSUME NEW e \in Bdev, e # d
        PROVE  /\ Mounted(e)' => refcnt'[e] > 0
               /\ refcnt'[e] > (IF Mounted(e)' THEN 1 ELSE 0) => e \in raw'
               /\ e \in raw' => refcnt'[e] > 0
               /\ e \in marked' => Busy(e)'
               /\ e \in cached' => e \in raw' \/ Busy(e)'
    BY <1>4, <1>7, <1>10, <2>2, <2>4 DEF UsersRight
  <2>5. /\ refcnt'[d] > 0 => d \in raw'
        /\ d \in raw' => refcnt'[d] > 0
        /\ d \in cached' => d \in raw'
    BY <1>5, <1>6, <1>7, <1>10 DEF UsersRight
  <2>6. QED
    BY <2>1, <2>3, <2>4, <2>5 DEF UsersRight
<1>15. QueuedRight'
  <2>1. Queued' = Queued
    BY <1>3, QueuedSame
  <2>2. \A j \in Queued : j \in Slot /\ fs[j].in_use /\ fs[j].removable
    BY <1>3 DEF QueuedRight, QueuedInUse
  <2>3. QED
    BY <1>1, <1>3, <1>9, <2>1, <2>2 DEF QueuedRight, QueuedInUse
<1>16. WillUnmount'
  <2>1. Queued' = Queued
    BY <1>3, QueuedSame
  <2>2. QED
    BY <1>3, <1>9, <2>1 DEF WillUnmount
<1>17. QED
  BY <1>11, <1>12, <1>14, <1>15, <1>16

-----------------------------------------------------------------------------
(* Steps on the devices and files: the table of slots stays as it is, but  *)
(* that a look-up makes one active.                                        *)

\* The devices of steps that change no slot.
LEMMA UsersStep ==
    ASSUME MountTypes, NoPanic, SlotsRight, QueuedRight, WillUnmount,
           UNCHANGED <<fs, left, refs, marked, ring, taken, cpu, gone, acc, panic>>,
           refcnt' \in [Bdev -> Nat], cached' \in SUBSET Bdev, raw' \in SUBSET Bdev,
           \A d \in Bdev : /\ Mounted(d) => refcnt'[d] > 0
                           /\ refcnt'[d] > (IF Mounted(d) THEN 1 ELSE 0) => d \in raw'
                           /\ d \in raw' => refcnt'[d] > 0
                           /\ d \in marked => Busy(d)
                           /\ d \in cached' => d \in raw' \/ Busy(d)
    PROVE  MountInv'
<1>1. MountTypes' /\ NoPanic'
  BY DEF MountTypes, NoPanic
<1>2. SlotsRight'
  BY DEF SlotsRight
<1>3. \A d : Mounted(d)' = Mounted(d) /\ Busy(d)' = Busy(d)
  BY DEF Mounted, Busy
<1>4. UsersRight'
  BY <1>3 DEF UsersRight
<1>5. Queued' = Queued
  BY QueuedSame
<1>6. QueuedRight' /\ WillUnmount'
  BY <1>5 DEF QueuedRight, QueuedInUse, WillUnmount
<1>7. QED
  BY <1>1, <1>2, <1>4, <1>6 DEF MountInv

LEMMA RawOpenRight ==
    ASSUME MountAssumption, MountInv, RawOpen
    PROVE  MountInv'
<1> USE DEF MountInv
<1>1. PICK d \in Bdev : refcnt' = [refcnt EXCEPT ![d] = @ + 1] /\ raw' = raw \cup {d}
  BY DEF RawOpen
<1>2. UNCHANGED <<fs, left, refs, cached, marked, ring, taken, cpu, gone, acc, panic>>
  BY DEF RawOpen
<1>3. /\ refcnt' \in [Bdev -> Nat] /\ raw' \in SUBSET Bdev /\ cached' \in SUBSET Bdev
      /\ refcnt'[d] = refcnt[d] + 1 /\ refcnt[d] \in Nat
      /\ \A e \in Bdev : e # d => refcnt'[e] = refcnt[e]
  BY <1>1, <1>2 DEF MountTypes
<1>4. ASSUME NEW e \in Bdev
      PROVE  /\ Mounted(e) => refcnt'[e] > 0
             /\ refcnt'[e] > (IF Mounted(e) THEN 1 ELSE 0) => e \in raw'
             /\ e \in raw' => refcnt'[e] > 0
             /\ e \in marked => Busy(e)
             /\ e \in cached' => e \in raw' \/ Busy(e)
  BY <1>1, <1>2, <1>3 DEF UsersRight
<1>5. QED
  BY <1>2, <1>3, <1>4, UsersStep

LEMMA RawCloseRight ==
    ASSUME MountAssumption, MountInv, RawClose
    PROVE  MountInv'
<1> USE DEF MountInv
<1>1. PICK d \in Bdev :
        refcnt[d] > Cardinality({i \in Slot : fs[i].in_use /\ fs[i].dev = d}) /\ blk_close(d)
  BY DEF RawClose
<1> DEFINE M == {i \in Slot : fs[i].in_use /\ fs[i].dev = d}
<1>2. UNCHANGED <<fs, left, refs, marked, ring, taken, cpu, gone, acc>>
  BY DEF RawClose
<1>3. refcnt[d] \in Nat /\ refcnt[d] > IF Mounted(d) THEN 1 ELSE 0
  <2>1. IsFiniteSet(M)
    <3>1. IsFiniteSet(Slot) /\ M \in SUBSET Slot
      BY SlotIs, FS_Interval
    <3>2. QED
      BY <3>1, FS_Subset
  <2>2. Cardinality(M) \in Nat /\ (M # {} => Cardinality(M) # 0)
    BY <2>1, FS_CardinalityType, FS_EmptySet
  <2>3. Mounted(d) => M # {}
    BY DEF Mounted
  <2>4. refcnt[d] \in Nat /\ refcnt[d] > Cardinality(M)
    BY <1>1 DEF MountTypes
  <2> HIDE DEF M
  <2>5. QED
    BY <2>2, <2>3, <2>4
<1>4. /\ refcnt' = [refcnt EXCEPT ![d] = @ - 1]
      /\ cached' = IF refcnt[d] = 1 THEN cached \ {d} ELSE cached
      /\ raw' = IF refcnt[d] = 1 THEN raw \ {d} ELSE raw
      /\ panic' = (panic \/ refcnt[d] = 0)
  BY <1>1 DEF blk_close
<1>5. panic' = panic
  BY <1>3, <1>4 DEF NoPanic, MountTypes
<1>6. /\ refcnt' \in [Bdev -> Nat] /\ raw' \in SUBSET Bdev /\ cached' \in SUBSET Bdev
      /\ refcnt'[d] = refcnt[d] - 1
      /\ \A e \in Bdev : e # d => refcnt'[e] = refcnt[e]
  BY <1>3, <1>4 DEF MountTypes
<1>7. ASSUME NEW e \in Bdev
      PROVE  /\ Mounted(e) => refcnt'[e] > 0
             /\ refcnt'[e] > (IF Mounted(e) THEN 1 ELSE 0) => e \in raw'
             /\ e \in raw' => refcnt'[e] > 0
             /\ e \in marked => Busy(e)
             /\ e \in cached' => e \in raw' \/ Busy(e)
  <2>1. CASE e = d
    <3>1. CASE refcnt[d] = 1
      <4>1. ~Mounted(d) /\ ~Busy(d)
        BY <1>3, <3>1 DEF Mounted, Busy
      <4>2. refcnt'[d] = 0 /\ d \notin raw' /\ d \notin cached'
        BY <1>4, <1>6, <3>1
      <4>3. d \notin marked
        BY <4>1 DEF UsersRight
      <4>4. QED
        BY <2>1, <4>1, <4>2, <4>3
    <3>2. CASE refcnt[d] # 1
      BY <1>3, <1>4, <1>6, <2>1, <3>2 DEF UsersRight
    <3>3. QED
      BY <3>1, <3>2
  <2>2. CASE e # d
    BY <1>4, <1>6, <2>2 DEF UsersRight
  <2>3. QED
    BY <2>1, <2>2
<1>8. QED
  BY <1>2, <1>5, <1>6, <1>7, UsersStep

\* _sync, and a look-up that fails: less is cached.
LEMMA LessCached ==
    ASSUME MountInv, cached' \subseteq cached,
           UNCHANGED <<fs, left, refs, refcnt, marked, ring, taken, cpu, raw, gone, acc, panic>>
    PROVE  MountInv'
<1> USE DEF MountInv
<1>1. refcnt' \in [Bdev -> Nat] /\ cached' \in SUBSET Bdev /\ raw' \in SUBSET Bdev
  BY DEF MountTypes
<1>2. \A d \in Bdev : /\ Mounted(d) => refcnt'[d] > 0
                      /\ refcnt'[d] > (IF Mounted(d) THEN 1 ELSE 0) => d \in raw'
                      /\ d \in raw' => refcnt'[d] > 0
                      /\ d \in marked => Busy(d)
                      /\ d \in cached' => d \in raw' \/ Busy(d)
  BY DEF UsersRight
<1>3. QED
  BY <1>1, <1>2, UsersStep

\* An open file: its slot is mounted and active, so its device may have blocks cached.
LEMMA FileBusy ==
    ASSUME MountInv, NEW i \in Slot, refs[i] > 0
    PROVE  fs[i].dev \in Bdev /\ Busy(fs[i].dev)
BY DEF MountInv, SlotsRight, Busy

LEMMA WriteFileRight ==
    ASSUME MountInv, NEW i \in Slot, WriteFile(i)
    PROVE  MountInv'
<1>1. /\ refs[i] > 0 /\ cached' = cached \cup {fs[i].dev}
      /\ UNCHANGED <<fs, left, refs, refcnt, marked, ring, taken, cpu, raw, gone, acc, panic>>
  BY DEF WriteFile
<1>2. fs[i].dev \in Bdev /\ Busy(fs[i].dev)
  BY <1>1, FileBusy
<1> USE DEF MountInv
<1>3. refcnt' \in [Bdev -> Nat] /\ cached' \in SUBSET Bdev /\ raw' \in SUBSET Bdev
  BY <1>1, <1>2 DEF MountTypes
<1>4. \A d \in Bdev : /\ Mounted(d) => refcnt'[d] > 0
                      /\ refcnt'[d] > (IF Mounted(d) THEN 1 ELSE 0) => d \in raw'
                      /\ d \in raw' => refcnt'[d] > 0
                      /\ d \in marked => Busy(d)
                      /\ d \in cached' => d \in raw' \/ Busy(d)
  BY <1>1, <1>2 DEF UsersRight
<1>5. QED
  BY <1>1, <1>3, <1>4, UsersStep

LEMMA CloseFileRight ==
    ASSUME MountAssumption, MountInv, NEW i \in Slot, CloseFile(i)
    PROVE  MountInv'
<1>1. /\ refs[i] > 0 /\ cached' \in {cached, cached \cup {fs[i].dev}}
      /\ refs' = [refs EXCEPT ![i] = @ - 1]
      /\ UNCHANGED <<fs, left, refcnt, marked, ring, taken, cpu, raw, gone, acc, panic>>
  BY DEF CloseFile
<1>2. fs[i].dev \in Bdev /\ Busy(fs[i].dev)
  BY <1>1, FileBusy
<1> USE DEF MountInv
<1>3. cached' \in SUBSET Bdev
  BY <1>1, <1>2 DEF MountTypes
<1>4. refs' \in [Slot -> 0..MaxFso] /\ \A j \in Slot : refs'[j] > 0 => refs[j] > 0
  BY <1>1 DEF MountTypes, MountAssumption
<1>5. MountTypes' /\ NoPanic'
  BY <1>1, <1>3, <1>4 DEF MountTypes, NoPanic
<1>6. SlotsRight'
  BY <1>1, <1>4 DEF SlotsRight
<1>7. \A d : Mounted(d)' = Mounted(d) /\ Busy(d)' = Busy(d)
  BY <1>1 DEF Mounted, Busy
<1>8. UsersRight'
  BY <1>1, <1>2, <1>7 DEF UsersRight
<1>9. Queued' = Queued
  BY <1>1, QueuedSame
<1>10. QueuedRight' /\ WillUnmount'
  BY <1>1, <1>9 DEF QueuedRight, QueuedInUse, WillUnmount
<1>11. QED
  BY <1>5, <1>6, <1>8, <1>10

\* A look-up leaves its file system active, with its unmount ahead if it is removable.
LEMMA Activated ==
    ASSUME MountAssumption, MountInv, NEW i \in Slot, fs[i].in_use, fs_activate(i)
    PROVE  /\ fs' \in [Slot -> FsRec] /\ left' \in [Slot -> Never..UDelay]
           /\ marked \subseteq marked' /\ marked' \subseteq marked \cup {fs[i].dev}
           /\ panic' = panic
           /\ \A j \in Slot : /\ fs'[j].in_use = fs[j].in_use /\ fs'[j].dev = fs[j].dev
                              /\ fs'[j].removable = fs[j].removable
                              /\ j # i => fs'[j].active = fs[j].active /\ left'[j] = left[j]
           /\ fs'[i].active
           /\ fs[i].removable => left'[i] # Never
<1> USE DEF MountInv
<1>1. CASE ~fs[i].removable
  <2>1. UNCHANGED <<fs, left, marked, panic>>
    BY <1>1 DEF fs_activate
  <2>2. fs[i].active
    BY <1>1 DEF SlotsRight
  <2>3. QED
    BY <1>1, <2>1, <2>2 DEF MountTypes
<1>2. CASE fs[i].removable
  <2>1. left' = [left EXCEPT ![i] = UDelay] /\ panic' = panic
    <3>1. fs_sched_unmount(i)
      BY <1>2 DEF fs_activate
    <3>2. QED
      BY <1>2, <3>1 DEF fs_sched_unmount, MountTypes, NoPanic
  <2>2. /\ left' \in [Slot -> Never..UDelay] /\ left'[i] # Never
        /\ \A j \in Slot : j # i => left'[j] = left[j]
    BY <2>1 DEF MountTypes, MountAssumption, Never
  <2>3. CASE fs[i].active
    <3>1. UNCHANGED <<fs, marked>>
      BY <1>2, <2>3 DEF fs_activate
    <3>2. QED
      BY <2>1, <2>2, <2>3, <3>1 DEF MountTypes
  <2>4. CASE ~fs[i].active
    <3>1. marked' = marked \cup {fs[i].dev} /\ fs' = [fs EXCEPT ![i].active = TRUE]
      BY <1>2, <2>4 DEF fs_activate
    <3>2. fs' \in [Slot -> FsRec]
      BY <3>1 DEF MountTypes, FsRec
    <3>3. \A j \in Slot : /\ fs'[j].in_use = fs[j].in_use /\ fs'[j].dev = fs[j].dev
                          /\ fs'[j].removable = fs[j].removable
                          /\ fs'[j].active = IF j = i THEN TRUE ELSE fs[j].active
      BY <3>1 DEF MountTypes, FsRec
    <3>4. QED
      BY <2>1, <2>2, <3>1, <3>2, <3>3
  <2>5. QED
    BY <2>3, <2>4
<1>3. QED
  BY <1>1, <1>2

LEMMA AccessRight ==
    ASSUME MountAssumption, MountInv, NEW i \in Slot, Access(i)
    PROVE  MountInv'
<1>1. /\ fs[i].in_use /\ fs_activate(i) /\ acc' = acc + 1 /\ acc < MaxAcc
      /\ cached' \in {cached, cached \cup {fs[i].dev}}
      /\ UNCHANGED <<refcnt, ring, taken, cpu, raw, gone>>
  BY DEF Access
<1>2. /\ fs' \in [Slot -> FsRec] /\ left' \in [Slot -> Never..UDelay]
      /\ marked \subseteq marked' /\ marked' \subseteq marked \cup {fs[i].dev}
      /\ panic' = panic
      /\ \A j \in Slot : /\ fs'[j].in_use = fs[j].in_use /\ fs'[j].dev = fs[j].dev
                         /\ fs'[j].removable = fs[j].removable
                         /\ j # i => fs'[j].active = fs[j].active /\ left'[j] = left[j]
      /\ fs'[i].active
      /\ fs[i].removable => left'[i] # Never
  BY <1>1, Activated
<1> USE DEF MountInv
<1>3. refs' \in [Slot -> 0..MaxFso] /\ \A j \in Slot : j # i => refs'[j] = refs[j]
  <2>1. CASE UNCHANGED refs
    BY <2>1 DEF MountTypes
  <2>2. CASE refs[i] < MaxFso /\ refs' = [refs EXCEPT ![i] = @ + 1]
    BY <2>2 DEF MountTypes, MountAssumption
  <2>3. QED
    BY <2>1, <2>2 DEF Access
<1>4. fs[i].dev \in Bdev
  BY <1>1 DEF SlotsRight
<1>5. acc' \in 0..MaxAcc
  BY <1>1 DEF MountTypes, MountAssumption
<1>6. MountTypes' /\ NoPanic'
  <2>1. cached' \in SUBSET Bdev /\ marked' \in SUBSET Bdev
    BY <1>1, <1>2, <1>4 DEF MountTypes
  <2>2. QED
    BY <1>1, <1>2, <1>3, <1>5, <2>1 DEF MountTypes, NoPanic
<1>7. SlotsRight'
  <2>1. \A j \in Slot : fs'[j].in_use => fs'[j].dev \in Bdev /\ (fs'[j].removable \/ fs'[j].active)
    BY <1>2 DEF SlotsRight
  <2>2. \A j \in Slot : refs'[j] > 0 => fs'[j].in_use /\ fs'[j].active
    BY <1>1, <1>2, <1>3 DEF SlotsRight
  <2>3. \A j, k \in Slot : fs'[j].in_use /\ fs'[k].in_use /\ fs'[j].dev = fs'[k].dev => j = k
    BY <1>2 DEF SlotsRight
  <2>4. QED
    BY <2>1, <2>2, <2>3 DEF SlotsRight
<1>8. /\ \A d : Mounted(d)' = Mounted(d)
      /\ \A d : Busy(d) => Busy(d)'
      /\ Busy(fs[i].dev)'
  BY <1>1, <1>2 DEF Mounted, Busy
<1>9. UsersRight'
  BY <1>1, <1>2, <1>8 DEF UsersRight
<1>10. Queued' = Queued
  BY <1>1, QueuedSame
<1>11. QueuedRight'
  BY <1>1, <1>2, <1>10 DEF QueuedRight, QueuedInUse
<1>12. WillUnmount'
  BY <1>2, <1>10 DEF WillUnmount
<1>13. QED
  BY <1>6, <1>7, <1>9, <1>11, <1>12

-----------------------------------------------------------------------------
(* All steps.                                                              *)

LEMMA MountStarts == ASSUME MountAssumption, MountInit PROVE MountInv
<1>1. \A i \in Slot : fs[i] = [in_use |-> FALSE, dev |-> NoBdev,
                               removable |-> FALSE, active |-> FALSE]
  BY DEF MountInit
<1>2. Queued = {}
  BY DEF MountInit, Queued, Range
<1>3. MountTypes
  <2>1. fs \in [Slot -> FsRec]
    <3>1. \A i \in Slot : fs[i] \in FsRec
      <4>1. /\ FALSE \in BOOLEAN /\ NoBdev \in Bdev \cup {NoBdev}
            /\ \A b \in BOOLEAN, d \in Bdev \cup {NoBdev} :
                [in_use |-> b, dev |-> d, removable |-> b, active |-> b] \in FsRec
        BY Zenon DEF FsRec
      <4>2. QED
        BY <1>1, <4>1, Zenon
    <3>2. fs = [i \in Slot |-> fs[i]]
      BY DEF MountInit
    <3>3. QED
      BY <3>1, <3>2
  <2>2. left \in [Slot -> Never..UDelay] /\ refs \in [Slot -> 0..MaxFso]
        /\ refcnt \in [Bdev -> Nat]
    BY DEF MountInit, MountAssumption, Never
  <2>3. QED
    <3>1. /\ cached \in SUBSET Bdev /\ marked \in SUBSET Bdev /\ raw \in SUBSET Bdev
          /\ ring \in Seq(Slot)
      BY DEF MountInit
    <3>2. taken \in 0..MaxFs /\ gone \in 0..MaxFs /\ acc \in 0..MaxAcc
      BY DEF MountInit, MountAssumption
    <3>3. cpu \in {"user", "sys", "leave", "out"} /\ panic \in BOOLEAN
      BY Zenon DEF MountInit
    <3>4. QED
      BY <2>1, <2>2, <3>1, <3>2, <3>3, Zenon DEF MountTypes
<1>4. NoPanic /\ SlotsRight /\ WillUnmount
  BY <1>1 DEF MountInit, NoPanic, SlotsRight, WillUnmount
<1>5. UsersRight
  BY <1>1 DEF MountInit, UsersRight, Mounted, Busy
<1>6. QueuedRight
  BY <1>2 DEF QueuedRight, QueuedInUse
<1>7. QED
  BY <1>3, <1>4, <1>5, <1>6 DEF MountInv

LEMMA MountKept ==
    ASSUME MountAssumption, MountInv, [MountNext]_mountVars
    PROVE  MountInv'
<1>1. CASE UNCHANGED mountVars
  <2>1. Queued' = Queued
    BY <1>1, QueuedSame DEF mountVars
  <2>2. MountTypes' /\ NoPanic' /\ SlotsRight' /\ UsersRight'
    BY <1>1 DEF mountVars, MountInv, MountTypes, NoPanic, SlotsRight, UsersRight, Mounted, Busy
  <2>3. QED
    BY <1>1, <2>1, <2>2 DEF mountVars, MountInv, QueuedRight, QueuedInUse, WillUnmount
<1>2. CASE Tick
  BY <1>2, TickRight
<1>3. CASE Take
  BY <1>3, TakeRight
<1>4. CASE Run
  BY <1>4, RunRight
<1>5. CASE RunDone \/ Enter \/ Return \/ ToUser \/ Switch
  <2>1. gone \in 0..MaxFs /\ acc \in 0..MaxAcc /\ 0 \in 0..MaxFs /\ 0 \in 0..MaxAcc
    BY DEF MountInv, MountTypes, MountAssumption
  <2>2. /\ UNCHANGED <<table, left, ring, taken>>
        /\ cpu' \in {"user", "sys", "leave", "out"}
    BY <1>5 DEF RunDone, Enter, Return, ToUser, Switch, table
  <2>3. gone' \in 0..MaxFs /\ acc' \in 0..MaxAcc
    BY <1>5, <2>1 DEF RunDone, Enter, Return, ToUser, Switch
  <2>4. \/ cpu # "leave"
        \/ taken = 0 /\ ring = <<>>
    BY <1>5 DEF RunDone, Enter, Return, ToUser, Switch
  <2>5. QED
    BY <2>2, <2>3, <2>4, CpuRight
<1>6. CASE SysMount
  BY <1>6, SysMountRight
<1>7. CASE SysUmount
  BY <1>7, SysUmountRight
<1>8. CASE RawOpen
  BY <1>8, RawOpenRight
<1>9. CASE RawClose
  BY <1>9, RawCloseRight
<1>10. CASE SysSync
  BY <1>10, LessCached DEF SysSync
<1>11. ASSUME NEW i \in Slot, Access(i) PROVE MountInv'
  BY <1>11, AccessRight
<1>12. ASSUME NEW i \in Slot, AccessFails(i) PROVE MountInv'
  BY <1>12, LessCached DEF AccessFails
<1>13. ASSUME NEW i \in Slot, WriteFile(i) PROVE MountInv'
  BY <1>13, WriteFileRight
<1>14. ASSUME NEW i \in Slot, CloseFile(i) PROVE MountInv'
  BY <1>14, CloseFileRight
<1>15. QED
  BY <1>1, <1>2, <1>3, <1>4, <1>5, <1>6, <1>7, <1>8, <1>9, <1>10, <1>11, <1>12, <1>13, <1>14
     DEF MountNext

LEMMA MountMeans == ASSUME MountInv PROVE MountRight
<1> USE DEF MountInv
<1>1. IdleIsClean
  <2>1. ASSUME NEW i \in Slot, fs[i].in_use, fs[i].removable, ~fs[i].active
        PROVE  fs[i].dev \notin marked /\ (fs[i].dev \in cached => fs[i].dev \in raw)
    <3>1. fs[i].dev \in Bdev /\ ~Busy(fs[i].dev)
      BY <2>1 DEF SlotsRight, Busy
    <3>2. QED
      BY <3>1 DEF UsersRight
  <2>2. QED
    BY <2>1 DEF IdleIsClean
<1>2. DevicesRight
  <2>1. \A i \in Slot : fs[i].in_use => fs[i].dev \in Bdev /\ Mounted(fs[i].dev)
    BY DEF SlotsRight, Mounted
  <2>2. \A d \in Bdev : Busy(d) => Mounted(d)
    BY DEF Busy, Mounted
  <2>3. \A d \in Bdev : refcnt[d] = 0 => d \notin cached /\ d \notin marked
    BY <2>2 DEF UsersRight
  <2>4. QED
    BY <2>1, <2>3 DEF DevicesRight, UsersRight
<1>3. QED
  BY <1>1, <1>2 DEF MountRight, QueuedRight

\* Mounting and unmounting, by hand and by the clock, keep the table right: no
\* panic is reached, a queued unmount finds its slot in use, an active
\* removable file system has its unmount ahead, and an idle one a clean medium.
THEOREM MountCorrect == ASSUME MountAssumption PROVE MountSpec => []MountRight
<1>1. MountInit => MountInv
  BY MountStarts
<1>2. MountInv /\ [MountNext]_mountVars => MountInv'
  BY MountKept
<1>3. MountInv => MountRight
  BY MountMeans
<1>4. QED
  BY <1>1, <1>2, <1>3, PTL DEF MountSpec
=============================================================================
