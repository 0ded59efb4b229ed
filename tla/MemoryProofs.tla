---------------------------- MODULE MemoryProofs ----------------------------
(***************************************************************************)
(* The ring buffer is a queue of bytes for every size, every set of bytes  *)
(* and requests of any length; the memory of tasks is, for every set of    *)
(* tasks, pages, tables and frames, that of tasks with an address space    *)
(* each; and a stream of the C library is a text and a position, for every *)
(* size of the buffer and any number of calls.  The loops over pages and   *)
(* tables are the folds of UserMem; what holds of one turn holds of the    *)
(* loop by induction over the finite set of pages that are done            *)
(* (LoopRight).                                                            *)
(***************************************************************************)
EXTENDS RingBuf, UserMem, Stdio, SequenceTheorems, FiniteSetTheorems, WellFoundedInduction, TLAPS

(* The ring buffer. *)

\* What a request is.
LEMMA RequestIsSeq == ASSUME RingBufAssumption, NEW d \in Data PROVE d \in Seq(Byte)
<1>1. \E n \in Nat : d \in [1..n -> Byte]
  BY DEF Data, BoundedSeq, SeqOf, RingBufAssumption
<1> QED BY <1>1

\* The buffer after memcpy: the bytes are there from a on, and the others are as before.
LEMMA CopyInRight ==
  ASSUME RingBufAssumption, NEW b \in [0..(Size - 1) -> Byte], NEW a \in Nat,
         NEW d \in Seq(Byte), a + Len(d) <= Size
  PROVE  /\ CopyIn(b, a, d) \in [0..(Size - 1) -> Byte]
         /\ \A j \in 0..(Size - 1) :
              CopyIn(b, a, d)[j] = IF a <= j /\ j < a + Len(d) THEN d[j - a + 1] ELSE b[j]
<1> USE DEF RingBufAssumption
<1>1. \A j \in 0..(Size - 1) : j \in a..(a + Len(d) - 1) <=> a <= j /\ j < a + Len(d)
  OBVIOUS
<1>2. ASSUME NEW j \in 0..(Size - 1), a <= j, j < a + Len(d) PROVE d[j - a + 1] \in Byte
  <2>1. j - a + 1 \in 1..Len(d)
    BY <1>2
  <2> QED BY <2>1
<1> QED BY <1>1, <1>2 DEF CopyIn

\* The same for PutIn, around the ring.
LEMMA PutInRight ==
  ASSUME RingBufAssumption, TypeOK,
         NEW d \in Seq(Byte), Len(d) <= Size,
         NEW tail \in 0..(Size - 1)
  PROVE  /\ PutIn(d, tail) \in [0..(Size - 1) -> Byte]
         /\ \A j \in 0..(Size - 1) :
              PutIn(d, tail)[j] =
                IF tail <= j /\ j < tail + Len(d) THEN d[j - tail + 1]
                ELSE IF j + Size < tail + Len(d) THEN d[j + Size - tail + 1]
                ELSE buf[j]
<1> DEFINE split == Size - tail
           one == SubSeq(d, 1, split)
           two == SubSeq(d, split + 1, Len(d))
           X == CopyIn(buf, tail, one)
<1>1. Size \in Nat \ {0} /\ buf \in [0..(Size - 1) -> Byte]
  BY DEF RingBufAssumption, TypeOK
<1>2. CASE tail + Len(d) > Size
  <2>1. /\ one \in Seq(Byte) /\ Len(one) = split
        /\ \A i \in 1..split : one[i] = d[i]
    BY <1>1, <1>2
  <2>2. /\ two \in Seq(Byte) /\ Len(two) = Len(d) - split
        /\ \A i \in 1..(Len(d) - split) : two[i] = d[split + i]
    BY <1>1, <1>2
  <2>3. PutIn(d, tail) = CopyIn(X, 0, two)
    BY <1>2 DEF PutIn
  <2> HIDE DEF one, two
  <2>4. /\ X \in [0..(Size - 1) -> Byte]
        /\ \A j \in 0..(Size - 1) : X[j] = IF tail <= j /\ j < tail + Len(one) THEN one[j - tail + 1] ELSE buf[j]
    <3>1. tail \in Nat /\ tail + Len(one) <= Size
      BY <1>1, <2>1
    <3> QED BY <1>1, <2>1, <3>1, CopyInRight
  <2> HIDE DEF X
  <2>5. /\ PutIn(d, tail) \in [0..(Size - 1) -> Byte]
        /\ \A j \in 0..(Size - 1) : PutIn(d, tail)[j] = IF 0 <= j /\ j < 0 + Len(two) THEN two[j - 0 + 1] ELSE X[j]
    <3>1. 0 \in Nat /\ 0 + Len(two) <= Size
      BY <1>1, <2>2
    <3>2. two \in Seq(Byte) /\ X \in [0..(Size - 1) -> Byte]
      BY <2>2, <2>4
    <3>3. /\ CopyIn(X, 0, two) \in [0..(Size - 1) -> Byte]
          /\ \A j \in 0..(Size - 1) :
               CopyIn(X, 0, two)[j] = IF 0 <= j /\ j < 0 + Len(two) THEN two[j - 0 + 1] ELSE X[j]
      BY <3>1, <3>2, CopyInRight, Zenon
    <3> QED BY <2>3, <3>3, Zenon
  <2>6. ASSUME NEW j \in 0..(Size - 1)
        PROVE  PutIn(d, tail)[j] =
                 IF tail <= j /\ j < tail + Len(d) THEN d[j - tail + 1]
                 ELSE IF j + Size < tail + Len(d) THEN d[j + Size - tail + 1]
                 ELSE buf[j]
    <3>1. CASE j < Len(d) - split
      <4>1. j + 1 \in 1..(Len(d) - split) /\ split + (j + 1) = j + Size - tail + 1 /\ j - 0 + 1 = j + 1
            /\ j < tail /\ j + Size < tail + Len(d) /\ j < 0 + Len(two)
        BY <1>1, <1>2, <2>2, <3>1
      <4>2. PutIn(d, tail)[j] = two[j + 1]
        BY <2>5, <4>1
      <4>3. two[j + 1] = d[split + (j + 1)]
        BY <2>2, <4>1
      <4>4. ~(tail <= j)
        BY <1>1, <4>1
      <4> QED BY <4>1, <4>2, <4>3, <4>4
    <3>2. CASE j >= Len(d) - split
      <4>1. PutIn(d, tail)[j] = X[j] /\ ~(j + Size < tail + Len(d))
        BY <1>1, <2>2, <2>5, <3>2
      <4>2. CASE tail <= j
        <5>1. j - tail + 1 \in 1..split /\ j < tail + split /\ j < tail + Len(d)
          BY <1>1, <1>2, <4>2
        <5> QED BY <2>1, <2>4, <4>1, <4>2, <5>1
      <4>3. CASE ~(tail <= j)
        BY <2>4, <4>1, <4>3
      <4> QED BY <4>2, <4>3
    <3> QED BY <1>1, <3>1, <3>2
  <2> QED BY <2>5, <2>6
<1>3. CASE tail + Len(d) <= Size
  <2>1. PutIn(d, tail) = CopyIn(buf, tail, d)
    BY <1>1, <1>3 DEF PutIn
  <2>2. \A j \in 0..(Size - 1) : ~(j + Size < tail + Len(d))
    BY <1>1, <1>3
  <2> QED BY <1>1, <1>3, <2>1, <2>2, CopyInRight
<1> QED BY <1>1, <1>2, <1>3

\* n bytes from a on, around the ring.
LEMMA TakeOutRight ==
  ASSUME RingBufAssumption, TypeOK, NEW a \in 0..(Size - 1), NEW n \in 0..Size
  PROVE  /\ TakeOut(a, n) \in Seq(Byte)
         /\ Len(TakeOut(a, n)) = n
         /\ \A i \in 1..n : TakeOut(a, n)[i] = buf[(a + i - 1) % Size]
<1> USE DEF RingBufAssumption
<1>1. \A i \in 1..n : (a + i - 1) % Size = IF a + i - 1 < Size THEN a + i - 1 ELSE a + i - 1 - Size
  OBVIOUS
<1>2. CASE a + n > Size
  <2> DEFINE one == CopyOut(a, Size - a)
             two == CopyOut(0, n - (Size - a))
  <2>1. one \in Seq(Byte) /\ Len(one) = Size - a /\ \A i \in 1..(Size - a) : one[i] = buf[a + i - 1]
    BY DEF CopyOut, TypeOK
  <2>2. /\ two \in Seq(Byte) /\ Len(two) = n - (Size - a)
        /\ \A i \in 1..(n - (Size - a)) : two[i] = buf[i - 1]
    BY <1>2 DEF CopyOut, TypeOK
  <2>3. TakeOut(a, n) = one \o two
    BY <1>2 DEF TakeOut
  <2> HIDE DEF one, two
  <2>4. /\ one \o two \in Seq(Byte)
        /\ Len(one \o two) = Len(one) + Len(two)
        /\ \A i \in 1..(Len(one) + Len(two)) :
             (one \o two)[i] = IF i <= Len(one) THEN one[i] ELSE two[i - Len(one)]
    BY <2>1, <2>2, ConcatProperties
  <2>5. ASSUME NEW i \in 1..n PROVE TakeOut(a, n)[i] = buf[(a + i - 1) % Size]
    <3>1. CASE i <= Size - a
      <4>1. i \in 1..(Size - a) /\ (a + i - 1) % Size = a + i - 1
        BY <1>1, <3>1
      <4>2. TakeOut(a, n)[i] = one[i]
        BY <2>1, <2>2, <2>3, <2>4, <3>1
      <4> QED BY <2>1, <4>1, <4>2
    <3>2. CASE i > Size - a
      <4>1. /\ i - (Size - a) \in 1..(n - (Size - a)) /\ i - (Size - a) - 1 = a + i - 1 - Size
            /\ (a + i - 1) % Size = a + i - 1 - Size
        BY <1>1, <3>2
      <4>2. TakeOut(a, n)[i] = two[i - (Size - a)]
        <5>1. i \in 1..(Len(one) + Len(two)) /\ ~(i <= Len(one)) /\ Len(one) = Size - a
          BY <2>1, <2>2, <3>2
        <5> QED BY <2>3, <2>4, <5>1
      <4> QED BY <2>2, <4>1, <4>2
    <3> QED BY <3>1, <3>2
  <2>6. Len(one) + Len(two) = n
    BY <2>1, <2>2
  <2> QED BY <2>3, <2>4, <2>5, <2>6
<1>3. CASE a + n <= Size
  <2>1. TakeOut(a, n) = [i \in 1..n |-> buf[a + i - 1]]
    BY <1>3 DEF TakeOut, CopyOut
  <2>2. \A i \in 1..n : (a + i - 1) % Size = a + i - 1 /\ a + i - 1 \in 0..(Size - 1)
    BY <1>1, <1>3
  <2>3. TakeOut(a, n) \in [1..n -> Byte]
    BY <2>1, <2>2 DEF TypeOK
  <2>4. TakeOut(a, n) \in Seq(Byte) /\ Len(TakeOut(a, n)) = n
    BY <2>3
  <2>5. \A i \in 1..n : TakeOut(a, n)[i] = buf[(a + i - 1) % Size]
    BY <2>1, <2>2
  <2> QED BY <2>4, <2>5
<1> QED BY <1>2, <1>3

\* k elements of a sequence from an offset on.
LEMMA SubSeqRight ==
  ASSUME NEW S, NEW s \in Seq(S), NEW off \in Nat, NEW k \in Nat, off + k <= Len(s)
  PROVE  /\ SubSeq(s, off + 1, off + k) \in Seq(S)
         /\ Len(SubSeq(s, off + 1, off + k)) = k
         /\ \A i \in 1..k : SubSeq(s, off + 1, off + k)[i] = s[off + i]
  OBVIOUS

\* A number below twice the size, taken round the ring.
LEMMA Round ==
  ASSUME RingBufAssumption, NEW x \in 0..(2 * Size - 1)
  PROVE  /\ x % Size = IF x < Size THEN x ELSE x - Size
         /\ x % Size \in 0..(Size - 1)
<1>1. Size \in Nat \ {0}
  BY DEF RingBufAssumption
<1>2. x % Size = IF x < Size THEN x ELSE x - Size
  BY <1>1
<1>3. (IF x < Size THEN x ELSE x - Size) \in 0..(Size - 1)
  BY <1>1
<1> QED BY <1>2, <1>3

\* A place that is k bytes after the head, and i further, is k + i bytes after it.
LEMMA PlaceAfter ==
  ASSUME RingBufAssumption, NEW h \in 0..(Size - 1), NEW k \in 0..Size, NEW i \in 1..Size,
         NEW a \in 0..(Size - 1), k + i <= Size,
         a = IF h + k < Size THEN h + k ELSE h + k - Size
  PROVE  (a + i - 1) % Size = (h + (k + i) - 1) % Size
<1> DEFINE x == a + i - 1
           y == h + (k + i) - 1
<1> USE DEF RingBufAssumption
<1>1. x \in 0..(2 * Size - 1) /\ y \in 0..(2 * Size - 1)
  OBVIOUS
<1>2. x = y \/ (y >= Size /\ x = y - Size)
  OBVIOUS
<1> HIDE DEF x, y
<1>3. x % Size = IF x < Size THEN x ELSE x - Size
  BY <1>1, Round, Zenon
<1>4. y % Size = IF y < Size THEN y ELSE y - Size
  BY <1>1, Round, Zenon
<1>5. x % Size = y % Size
  <2>1. CASE x = y
    BY <2>1
  <2>2. CASE y >= Size /\ x = y - Size
    BY <1>1, <1>3, <1>4, <2>2
  <2> QED BY <1>2, <2>1, <2>2
<1> QED BY <1>5 DEF x, y

\* rb_init.
LEMMA RingInit == ASSUME RingBufAssumption, Init PROVE RingRight
  BY DEF RingBufAssumption, Init, RingRight, TypeOK, HoldsQueue, OutRight

\* rb_write: the ring has the old bytes and then the new ones.
LEMMA WriteRight ==
  ASSUME RingBufAssumption, RingRight, NEW d \in Data, rb_write(d)
  PROVE  RingRight'
<1> USE DEF RingBufAssumption, RingRight
<1> DEFINE cut == SubSeq(d, 1, Least(Len(d), Size - util))
           tail == (head + util) % Size
<1>1. cut \in Seq(Byte) /\ Len(cut) <= Size - util
  BY RequestIsSeq DEF Least, TypeOK
<1>2. tail \in 0..(Size - 1) /\ tail = IF head + util < Size THEN head + util ELSE head + util - Size
  BY DEF TypeOK
<1>3. /\ buf' = PutIn(cut, tail) /\ util' = util + Len(cut) /\ queue' = queue \o cut
      /\ head' = head /\ OutRight'
  BY DEF rb_write, OutRight
<1> HIDE DEF cut, tail
<1>4. /\ buf' \in [0..(Size - 1) -> Byte]
      /\ \A j \in 0..(Size - 1) :
           buf'[j] = IF tail <= j /\ j < tail + Len(cut) THEN cut[j - tail + 1]
                     ELSE IF j + Size < tail + Len(cut) THEN cut[j + Size - tail + 1]
                     ELSE buf[j]
  <2>1. TypeOK /\ Len(cut) <= Size
    BY <1>1 DEF TypeOK
  <2>2. /\ PutIn(cut, tail) \in [0..(Size - 1) -> Byte]
        /\ \A j \in 0..(Size - 1) :
             PutIn(cut, tail)[j] =
               IF tail <= j /\ j < tail + Len(cut) THEN cut[j - tail + 1]
               ELSE IF j + Size < tail + Len(cut) THEN cut[j + Size - tail + 1]
               ELSE buf[j]
    BY <1>1, <1>2, <2>1, PutInRight, Zenon
  <2> QED BY <1>3, <2>2, Zenon
<1>5. TypeOK'
  BY <1>1, <1>3, <1>4 DEF TypeOK
<1>6. HoldsQueue'
  <2>1. util' = Len(queue')
    BY <1>1, <1>3 DEF HoldsQueue, TypeOK
  <2>2. ASSUME NEW i \in 1..Len(queue') PROVE buf'[(head' + i - 1) % Size] = queue'[i]
    <3> DEFINE j == (head + i - 1) % Size
    <3>1. i \in 1..(util + Len(cut)) /\ util = Len(queue)
      BY <2>1, <2>2, <1>3 DEF HoldsQueue
    <3>2. j = (IF head + i - 1 < Size THEN head + i - 1 ELSE head + i - 1 - Size) /\ j \in 0..(Size - 1)
      <4>1. head \in 0..(Size - 1) /\ i \in 1..Size
        BY <1>1, <3>1 DEF TypeOK
      <4> QED BY <4>1
    <3> HIDE DEF j
    <3>3. /\ Size \in Nat \ {0} /\ head \in 0..(Size - 1) /\ util \in 0..Size
          /\ Len(cut) \in Nat /\ Len(cut) <= Size - util /\ i \in Nat /\ j \in Nat
      BY <1>1, <3>1, <3>2 DEF TypeOK
    <3>4. CASE i <= util
      <4>1. buf[j] = queue[i] /\ queue'[i] = queue[i]
        BY <1>1, <1>3, <3>1, <3>4 DEF HoldsQueue, TypeOK, j
      <4>2. ~(tail <= j /\ j < tail + Len(cut)) /\ ~(j + Size < tail + Len(cut))
        BY <1>2, <3>1, <3>2, <3>4, <3>3
      <4> QED BY <1>3, <1>4, <3>2, <4>1, <4>2 DEF j
    <3>5. CASE i > util
      <4>1. queue'[i] = cut[i - util]
        BY <1>1, <1>3, <3>1, <3>5 DEF TypeOK
      <4>2. \/ tail <= j /\ j < tail + Len(cut) /\ j - tail + 1 = i - util
            \/ j < tail /\ j + Size < tail + Len(cut) /\ j + Size - tail + 1 = i - util
        BY <1>2, <3>1, <3>2, <3>5, <3>3
      <4>3. j \in 0..(Size - 1) /\ tail \in 0..(Size - 1) /\ Len(cut) \in Nat
        BY <1>1, <1>2, <3>2
      <4>4. buf'[j] = cut[i - util]
        <5>1. CASE tail <= j /\ j < tail + Len(cut) /\ j - tail + 1 = i - util
          BY <1>4, <4>3, <5>1
        <5>2. CASE j < tail /\ j + Size < tail + Len(cut) /\ j + Size - tail + 1 = i - util
          <6>1. ~(tail <= j)
            BY <4>3, <5>2
          <6> QED BY <1>4, <4>3, <5>2, <6>1
        <5> QED BY <4>2, <5>1, <5>2
      <4> QED BY <1>3, <4>1, <4>4 DEF j
    <3> QED BY <3>4, <3>5, <3>1
  <2> QED BY <2>1, <2>2 DEF HoldsQueue
<1> QED BY <1>3, <1>5, <1>6

\* rb_read: the first bytes come out, and the others move up.
LEMMA ReadRight ==
  ASSUME RingBufAssumption, RingRight, NEW sz \in 0..MaxCount, rb_read(sz)
  PROVE  RingRight'
<1> USE DEF RingBufAssumption, RingRight
<1> DEFINE n == Least(sz, util)
<1>1. n \in 0..util /\ n \in 0..Size /\ util = Len(queue) /\ queue \in Seq(Byte)
  BY DEF Least, TypeOK, HoldsQueue
<1>2. /\ got' = [is |-> TakeOut(head, n), due |-> SubSeq(queue, 1, n)]
      /\ head' = (head + n) % Size /\ util' = util - n
      /\ queue' = SubSeq(queue, n + 1, Len(queue)) /\ buf' = buf
  BY DEF rb_read
<1> HIDE DEF n
<1>3. head' \in 0..(Size - 1) /\ head' = IF head + n < Size THEN head + n ELSE head + n - Size
  <2> DEFINE x == head + n
  <2>1. x \in 0..(2 * Size - 1)
    BY <1>1 DEF TypeOK
  <2> HIDE DEF x
  <2>2. x % Size = (IF x < Size THEN x ELSE x - Size) /\ x % Size \in 0..(Size - 1)
    BY <2>1, Round, Zenon
  <2>3. head' = x % Size
    BY <1>2, Zenon DEF x
  <2>4. head' \in 0..(Size - 1) /\ head' = IF x < Size THEN x ELSE x - Size
    BY <2>2, <2>3, Zenon
  <2>5. x = head + n
    BY Zenon DEF x
  <2>6. x \in Int /\ head \in Int /\ n \in Int
    BY <1>1, <2>1 DEF TypeOK
  <2> QED BY <2>4, <2>5, <2>6
<1>4. /\ queue' \in Seq(Byte) /\ Len(queue') = util - n
      /\ \A i \in 1..(util - n) : queue'[i] = queue[n + i]
  BY <1>1, <1>2 DEF TypeOK
<1>5. TypeOK'
  BY <1>1, <1>2, <1>3, <1>4 DEF TypeOK
<1>6. HoldsQueue'
  <2>1. ASSUME NEW i \in 1..(util - n) PROVE buf[(head' + i - 1) % Size] = queue[n + i]
    <3>1. head \in 0..(Size - 1) /\ n \in 0..Size /\ i \in 1..Size /\ n + i <= Size
      BY <1>1, <2>1 DEF TypeOK
    <3>2. (head' + i - 1) % Size = (head + (n + i) - 1) % Size
      BY <1>3, <3>1, PlaceAfter
    <3>3. n + i \in 1..Len(queue)
      BY <1>1, <2>1
    <3> QED BY <3>2, <3>3 DEF HoldsQueue
  <2> QED BY <1>1, <1>2, <1>4, <2>1 DEF HoldsQueue
<1>7. OutRight'
  <2>1. TypeOK /\ head \in 0..(Size - 1)
    BY DEF TypeOK
  <2>2. /\ TakeOut(head, n) \in Seq(Byte) /\ Len(TakeOut(head, n)) = n
        /\ \A i \in 1..n : TakeOut(head, n)[i] = buf[(head + i - 1) % Size]
    BY <1>1, <2>1, TakeOutRight
  <2>3. /\ SubSeq(queue, 1, n) \in Seq(Byte) /\ Len(SubSeq(queue, 1, n)) = n
        /\ \A i \in 1..n : SubSeq(queue, 1, n)[i] = queue[i]
    BY <1>1
  <2>4. \A i \in 1..n : buf[(head + i - 1) % Size] = queue[i]
    BY <1>1 DEF HoldsQueue
  <2>5. TakeOut(head, n) = SubSeq(queue, 1, n)
    BY <2>2, <2>3, <2>4, SeqEqual
  <2> QED BY <1>2, <2>5 DEF OutRight
<1> QED BY <1>5, <1>6, <1>7

\* rb_peek: the bytes come out from an offset on, and nothing changes.
LEMMA PeekRight ==
  ASSUME RingBufAssumption, RingRight, NEW sz \in 0..MaxCount, NEW off \in 0..MaxCount,
         rb_peek(sz, off)
  PROVE  RingRight'
<1> USE DEF RingBufAssumption, RingRight
<1> DEFINE n == Least(sz, util - off)
<1>1. TypeOK' /\ HoldsQueue'
  BY DEF rb_peek, TypeOK, HoldsQueue
<1>2. CASE off >= util
  <2>1. got' = [is |-> <<>>, due |-> <<>>]
    BY <1>2 DEF rb_peek
  <2> QED BY <1>1, <2>1 DEF OutRight
<1>3. CASE off < util
  <2>1. got' = [is |-> TakeOut(PeekAt(off), n), due |-> SubSeq(queue, off + 1, off + n)]
    BY <1>3 DEF rb_peek, TypeOK
  <2>2. n \in 0..(util - off) /\ n \in 0..Size /\ util = Len(queue) /\ queue \in Seq(Byte) /\ util <= Size
    BY <1>3 DEF Least, TypeOK, HoldsQueue
  <2> DEFINE a == PeekAt(off)
  <2> HIDE DEF n
  <2>3. a \in 0..(Size - 1) /\ a = IF off + head < Size THEN off + head ELSE off + head - Size
    <3> DEFINE x == off + head
    <3>1. x \in 0..(2 * Size - 1)
      BY <1>3, <2>2 DEF TypeOK
    <3> HIDE DEF x
    <3>2. x % Size = (IF x < Size THEN x ELSE x - Size) /\ x % Size \in 0..(Size - 1)
      BY <3>1, Round, Zenon
    <3>3. a = x % Size
      BY Zenon DEF PeekAt, x
    <3>4. a \in 0..(Size - 1) /\ a = IF x < Size THEN x ELSE x - Size
      BY <3>2, <3>3, Zenon
    <3>5. x = off + head
      BY Zenon DEF x
    <3>6. x \in Int /\ head \in Int /\ off \in Int
      BY <3>1 DEF TypeOK
    <3> QED BY <3>4, <3>5, <3>6
  <2> HIDE DEF a
  <2>4. /\ TakeOut(a, n) \in Seq(Byte) /\ Len(TakeOut(a, n)) = n
        /\ \A i \in 1..n : TakeOut(a, n)[i] = buf[(a + i - 1) % Size]
    <3>1. a \in 0..(Size - 1) /\ n \in 0..Size
      BY <2>2, <2>3
    <3> QED BY <3>1, TakeOutRight
  <2>5. /\ SubSeq(queue, off + 1, off + n) \in Seq(Byte) /\ Len(SubSeq(queue, off + 1, off + n)) = n
        /\ \A i \in 1..n : SubSeq(queue, off + 1, off + n)[i] = queue[off + i]
    <3>1. off \in Nat /\ n \in Nat /\ off + n <= Len(queue)
      BY <1>3, <2>2
    <3>2. queue \in Seq(Byte)
      BY <2>2
    <3> QED BY ONLY <3>1, <3>2, SubSeqRight, Zenon
  <2>6. ASSUME NEW i \in 1..n PROVE buf[(a + i - 1) % Size] = queue[off + i]
    <3>1. head \in 0..(Size - 1) /\ i \in 1..(util - off)
      BY <2>2 DEF TypeOK
    <3>2. (a + i - 1) % Size = (head + (off + i) - 1) % Size
      <4>1. off \in 0..Size /\ i \in 1..Size /\ off + i <= Size
        BY <1>3, <2>2, <3>1
      <4>2. a = IF head + off < Size THEN head + off ELSE head + off - Size
        BY <2>3, <3>1, <4>1
      <4> QED BY <2>3, <3>1, <4>1, <4>2, PlaceAfter
    <3>3. off + i \in 1..Len(queue)
      BY <1>3, <2>2, <3>1
    <3> QED BY <3>2, <3>3 DEF HoldsQueue
  <2>7. TakeOut(a, n) = SubSeq(queue, off + 1, off + n)
    BY <2>4, <2>5, <2>6, SeqEqual
  <2> QED BY <1>1, <2>1, <2>7 DEF OutRight, a
<1>4. off >= util \/ off < util
  BY DEF TypeOK
<1> QED BY <1>1, <1>2, <1>3, <1>4

\* The ring buffer is a queue of bytes: it holds those written and not read in their
\* order, and every read and peek returns them (rb_write, rb_read, rb_peek).
THEOREM RingCorrect == ASSUME RingBufAssumption PROVE Spec => []RingRight
<1>1. Init => RingRight
  BY RingInit
<1>2. RingRight /\ [Next]_vars => RingRight'
  <2> SUFFICES ASSUME RingRight, [Next]_vars PROVE RingRight'
    OBVIOUS
  <2>1. CASE UNCHANGED vars
    BY <2>1 DEF vars, RingRight, TypeOK, HoldsQueue, OutRight
  <2>2. CASE \E d \in Data : rb_write(d)
    BY <2>2, WriteRight, Zenon
  <2>3. CASE \E sz \in 0..MaxCount : rb_read(sz)
    BY <2>3, ReadRight, Zenon
  <2>4. CASE \E sz, off \in 0..MaxCount : rb_peek(sz, off)
    BY <2>4, PeekRight, Zenon
  <2> QED BY <2>1, <2>2, <2>3, <2>4 DEF Next
<1> QED BY <1>1, <1>2, PTL DEF Spec

----------------------------------------------------------------------------
(* Loops over sets of numbers. *)

\* A set of numbers has a least one.
LEMMA LeastNumber ==
    ASSUME NEW S \in SUBSET Nat, S # {}
    PROVE  \E m \in S : \A n \in S : m <= n
<1>1. PICK m \in S : \A n \in S : ~ (<<n, m>> \in OpToRel(<, Nat))
  BY NatLessThanWellFounded, WFMin
<1>2. \A n \in S : ~ (n < m)
  BY <1>1 DEF OpToRel
<1>3. QED
  BY <1>2

\* A member of C that no other member is within.
HasSmallest(C) == \E X \in C : \A Y \in C : Y \subseteq X => Y = X

\* A set of parts of a finite set has a smallest: the induction over finite sets below.
LEMMA SmallestSubset ==
    ASSUME NEW S, IsFiniteSet(S), NEW C \in SUBSET (SUBSET S), C # {}
    PROVE  HasSmallest(C)
<1>1. IsWellFoundedOn(StrictSubsetOrdering(S), SUBSET S)
  BY FS_StrictSubsetOrderingWellFounded, FS_FiniteSubsetsOfFinite
<1>2. PICK X \in C : \A Y \in C : ~ (<<Y, X>> \in StrictSubsetOrdering(S))
  BY <1>1, WFMin
<1>3. ASSUME NEW Y \in C, Y \subseteq X PROVE Y = X
  BY <1>2, <1>3 DEF StrictSubsetOrdering
<1>4. QED
  BY <1>3 DEF HasSmallest

\* A finite set of numbers has a greatest one.
LEMMA GreatestNumber ==
    ASSUME NEW S \in SUBSET Nat, S # {}, IsFiniteSet(S)
    PROVE  \E m \in S : \A n \in S : m >= n
<1> DEFINE C == {X \in SUBSET S : X # {} /\ ~ \E m \in X : \A n \in X : m >= n}
<1>1. SUFFICES ASSUME C # {} PROVE FALSE
  OBVIOUS
<1>2. PICK X \in C : \A Y \in C : Y \subseteq X => Y = X
  <2>1. C \in SUBSET (SUBSET S)
    OBVIOUS
  <2> HIDE DEF C
  <2>2. HasSmallest(C)
    BY <1>1, <2>1, SmallestSubset
  <2>3. QED
    BY <2>2 DEF HasSmallest
<1>3. X \in SUBSET S /\ X # {} /\ ~ \E m \in X : \A n \in X : m >= n
  BY <1>2
<1>4. PICK x \in X : TRUE
  BY <1>3
<1>5. X \ {x} \notin C
  BY <1>2, <1>4
<1>6. CASE X \ {x} = {}
  BY <1>3, <1>4, <1>6
<1>7. CASE X \ {x} # {}
  <2>1. PICK m \in X \ {x} : \A n \in X \ {x} : m >= n
    BY <1>3, <1>5, <1>7
  <2>2. x \in Nat /\ m \in Nat
    BY <1>3, <1>4, <2>1
  <2>3. CASE m >= x
    BY <2>1, <2>2, <2>3, <1>3
  <2>4. CASE x >= m
    BY <2>1, <2>2, <2>4, <1>3, <1>4
  <2>5. QED
    BY <2>2, <2>3, <2>4
<1>8. QED
  BY <1>6, <1>7

\* The frame pg_alloc takes is one of the set it is taken from.
LEMMA MinIs ==
    ASSUME NEW S \in SUBSET Nat, S # {}
    PROVE  Min(S) \in S
<1>1. \E m \in S : \A n \in S : m <= n
  BY LeastNumber
<1>2. QED
  BY <1>1 DEF Min

\* The page a loop comes to last is one of its set.
LEMMA MaxIs ==
    ASSUME NEW S \in SUBSET Nat, S # {}, IsFiniteSet(S)
    PROVE  Max(S) \in S
<1>1. \E m \in S : \A n \in S : m >= n
  BY GreatestNumber
<1>2. QED
  BY <1>1 DEF Max

\* One step of a loop that an error ends.
Turn(b, step, x) == IF b.err THEN b ELSE step[<<b, x>>]

\* What such a loop over a part of ps leaves.
IsLoop(f, ps, m, step) ==
    f = [S \in SUBSET ps |-> IF S = {} THEN m ELSE Turn(f[S \ {Max(S)}], step, Max(S))]

\* A loop over a finite set of pages has a result for every part of the set that it
\* has done, from the lowest page up.
LEMMA LoopExists ==
    ASSUME NEW ps \in SUBSET Nat, IsFiniteSet(ps), NEW m, NEW step
    PROVE  \E f : IsLoop(f, ps, m, step)
<1> DEFINE Rec(f, S) == IF S = {} THEN m ELSE Turn(f[S \ {Max(S)}], step, Max(S))
           Upto(n) == {S \in SUBSET ps : Cardinality(S) <= n}
           C == {n \in Nat : ~ \E f : \A S \in Upto(n) : f[S] = Rec(f, S)}
<1>1. \A S \in SUBSET ps : /\ Cardinality(S) \in Nat /\ Cardinality(S) <= Cardinality(ps)
                           /\ S # {} => /\ S \ {Max(S)} \in SUBSET ps
                                        /\ Cardinality(S \ {Max(S)}) = Cardinality(S) - 1
  <2>1. SUFFICES ASSUME NEW S \in SUBSET ps
                 PROVE  /\ Cardinality(S) \in Nat /\ Cardinality(S) <= Cardinality(ps)
                        /\ S # {} => /\ S \ {Max(S)} \in SUBSET ps
                                     /\ Cardinality(S \ {Max(S)}) = Cardinality(S) - 1
    OBVIOUS
  <2>2. IsFiniteSet(S) /\ Cardinality(S) \in Nat /\ Cardinality(S) <= Cardinality(ps)
    BY FS_Subset, FS_CardinalityType
  <2>3. ASSUME S # {} PROVE Cardinality(S \ {Max(S)}) = Cardinality(S) - 1
    BY <2>2, <2>3, MaxIs, FS_RemoveElement
  <2>4. QED
    BY <2>2, <2>3
<1>2. C = {}
  <2>1. SUFFICES ASSUME C # {} PROVE FALSE
    OBVIOUS
  <2>2. PICK n \in C : \A k \in C : n <= k
    <3>1. C \in SUBSET Nat
      OBVIOUS
    <3> HIDE DEF C
    <3>2. QED
      BY <2>1, <3>1, LeastNumber
  <2>3. n \in Nat /\ ~ \E f : \A S \in Upto(n) : f[S] = Rec(f, S)
    BY <2>2
  <2>4. CASE n = 0
    <3>1. ASSUME NEW S \in Upto(n) PROVE S = {}
      <4>1. S \in SUBSET ps /\ Cardinality(S) <= 0
        BY <2>4
      <4>2. IsFiniteSet(S)
        BY <4>1, FS_Subset
      <4>3. Cardinality(S) = 0
        BY <4>1, <4>2, FS_CardinalityType
      <4>4. QED
        BY <4>2, <4>3, FS_EmptySet
    <3> DEFINE f == [S \in SUBSET ps |-> m]
    <3>2. \A S \in Upto(n) : f[S] = Rec(f, S)
      BY <3>1
    <3>3. QED
      BY <2>3, <3>2
  <2>5. CASE n # 0
    <3>1. n - 1 \in Nat /\ n - 1 \notin C
      <4>1. n - 1 \in Nat /\ ~ (n <= n - 1)
        BY <2>3, <2>5
      <4> HIDE DEF C
      <4>2. QED
        BY <2>2, <4>1
    <3>2. PICK f : \A S \in Upto(n - 1) : f[S] = Rec(f, S)
      BY <3>1
    <3> DEFINE g == [S \in SUBSET ps |-> IF S \in Upto(n - 1) THEN f[S] ELSE Rec(f, S)]
    <3>3. ASSUME NEW S \in Upto(n) PROVE g[S] = Rec(g, S)
      <4>1. S \in SUBSET ps /\ g[S] = Rec(f, S)
        BY <3>2
      <4>2. ASSUME S # {} PROVE g[S \ {Max(S)}] = f[S \ {Max(S)}]
        <5>1. S \ {Max(S)} \in Upto(n - 1)
          BY <1>1, <4>1, <4>2, <2>3
        <5>2. QED
          BY <5>1
      <4> HIDE DEF g
      <4>3. QED
        BY <4>1, <4>2
    <3> HIDE DEF g
    <3>4. QED
      BY <2>3, <3>3
  <2>6. QED
    BY <2>4, <2>5
<1>3. PICK f : \A S \in Upto(Cardinality(ps)) : f[S] = Rec(f, S)
  <2>1. Cardinality(ps) \in Nat
    BY <1>1
  <2>2. QED
    BY <1>2, <2>1
<1>4. \A S \in SUBSET ps : f[S] = Rec(f, S)
  BY <1>1, <1>3
<1> DEFINE g == [S \in SUBSET ps |-> f[S]]
<1>5. \A S \in SUBSET ps : g[S] = Rec(g, S)
  BY <1>1, <1>4
<1>6. g = [S \in SUBSET ps |-> Rec(g, S)]
  BY <1>5
<1> HIDE DEF g
<1>7. IsLoop(g, ps, m, step)
  BY <1>6 DEF IsLoop
<1>8. QED
  BY <1>7

\* What one step of a loop keeps, G of what is done, holds of the result.
LEMMA LoopRight ==
    ASSUME NEW ps \in SUBSET Nat, IsFiniteSet(ps), NEW m, NEW step, NEW f, NEW G,
           \A S \in SUBSET ps :
               f[S] = IF S = {} THEN m ELSE Turn(f[S \ {Max(S)}], step, Max(S)),
           m \in G[{}],
           \A S \in SUBSET ps : S # {} =>
               \A b \in G[S \ {Max(S)}] : Turn(b, step, Max(S)) \in G[S]
    PROVE  \A S \in SUBSET ps : f[S] \in G[S]
<1> DEFINE C == {S \in SUBSET ps : f[S] \notin G[S]}
<1>1. SUFFICES ASSUME C # {} PROVE FALSE
  OBVIOUS
<1>2. PICK S \in C : \A Y \in C : Y \subseteq S => Y = S
  <2>1. C \in SUBSET (SUBSET ps)
    OBVIOUS
  <2> HIDE DEF C
  <2>2. HasSmallest(C)
    BY <1>1, <2>1, SmallestSubset
  <2>3. QED
    BY <2>2 DEF HasSmallest
<1>3. S \in SUBSET ps /\ f[S] \notin G[S]
  BY <1>2
<1>4. S # {}
  BY <1>3
<1>5. Max(S) \in S
  BY <1>3, <1>4, MaxIs, FS_Subset
<1>6. S \ {Max(S)} \notin C
  BY <1>2, <1>5
<1>7. f[S \ {Max(S)}] \in G[S \ {Max(S)}]
  BY <1>3, <1>6
<1>8. QED
  BY <1>3, <1>4, <1>7

\* The loop of u_alloc over tables (pg_newtab).
LEMMA EachTable ==
    ASSUME NEW ps \in SUBSET Nat, IsFiniteSet(ps), NEW m, NEW G, m \in G[{}],
           \A S \in SUBSET ps : S # {} =>
               \A b \in G[S \ {Max(S)}] :
                   (IF b.err THEN b ELSE NewTable(b, Max(S))) \in G[S]
    PROVE  Each(m, NewTable, ps) \in G[ps]
<1> DEFINE Loop(g) == [S \in SUBSET ps |->
                          IF S = {} THEN m
                          ELSE LET x == Max(S)
                                   b == g[S \ {x}]
                               IN  IF b.err THEN b ELSE NewTable(b, x)]
           after == CHOOSE g : g = Loop(g)
           U == (UNION {G[S] : S \in SUBSET ps}) \cup {after[S] : S \in SUBSET ps}
           step == [e \in U \X ps |-> NewTable(e[1], e[2])]
           ByStep(g) == \A S \in SUBSET ps :
                            g[S] = IF S = {} THEN m ELSE Turn(g[S \ {Max(S)}], step, Max(S))
<1>1. \A S \in SUBSET ps : S # {} => Max(S) \in ps
  BY MaxIs, FS_Subset
<1>2. \A b \in U, x \in ps : step[<<b, x>>] = NewTable(b, x)
  OBVIOUS
<1>3. \A S \in SUBSET ps : G[S] \subseteq U
  OBVIOUS
<1> HIDE DEF after
<1>4. \A S \in SUBSET ps : after[S] \in U
  OBVIOUS
<1> HIDE DEF U, step
<1>5. \A S \in SUBSET ps : S # {} =>
          \A b \in G[S \ {Max(S)}] : Turn(b, step, Max(S)) \in G[S]
  BY <1>1, <1>2, <1>3 DEF Turn
<1>6. ASSUME NEW g, ByStep(g) PROVE \A S \in SUBSET ps : g[S] \in G[S]
  BY <1>5, <1>6, LoopRight
<1>7. \E g : g = Loop(g)
  <2>1. PICK g : IsLoop(g, ps, m, step)
    BY LoopExists
  <2>2. ByStep(g)
    BY <2>1 DEF IsLoop
  <2>3. \A S \in SUBSET ps : g[S] \in G[S]
    BY <1>6, <2>2
  <2>4. \A S \in SUBSET ps : S # {} => g[S \ {Max(S)}] \in U
    BY <1>3, <2>3
  <2>5. g = Loop(g)
    BY <1>1, <1>2, <2>1, <2>4 DEF Turn, IsLoop
  <2>6. QED
    BY <2>5
<1>8. after = Loop(after)
  BY <1>7 DEF after
<1>9. ByStep(after)
  <2>1. \A S \in SUBSET ps : after[S] = Loop(after)[S]
    BY <1>8
  <2>2. QED
    BY <1>1, <1>2, <1>4, <2>1 DEF Turn
<1>10. after[ps] \in G[ps]
  BY <1>6, <1>9
<1>11. Each(m, NewTable, ps) = after[ps]
  BY DEF Each, after
<1>12. QED
  BY <1>10, <1>11

\* The loop of tucpy, fucpy and their like over pages (pg_uauto).
LEMMA EachAuto ==
    ASSUME NEW ps \in SUBSET Nat, IsFiniteSet(ps), NEW m, NEW G, m \in G[{}],
           \A S \in SUBSET ps : S # {} =>
               \A b \in G[S \ {Max(S)}] :
                   (IF b.err THEN b ELSE pg_uauto(b, Max(S))) \in G[S]
    PROVE  Each(m, pg_uauto, ps) \in G[ps]
<1> DEFINE Loop(g) == [S \in SUBSET ps |->
                          IF S = {} THEN m
                          ELSE LET x == Max(S)
                                   b == g[S \ {x}]
                               IN  IF b.err THEN b ELSE pg_uauto(b, x)]
           after == CHOOSE g : g = Loop(g)
           U == (UNION {G[S] : S \in SUBSET ps}) \cup {after[S] : S \in SUBSET ps}
           step == [e \in U \X ps |-> pg_uauto(e[1], e[2])]
           ByStep(g) == \A S \in SUBSET ps :
                            g[S] = IF S = {} THEN m ELSE Turn(g[S \ {Max(S)}], step, Max(S))
<1>1. \A S \in SUBSET ps : S # {} => Max(S) \in ps
  BY MaxIs, FS_Subset
<1>2. \A b \in U, x \in ps : step[<<b, x>>] = pg_uauto(b, x)
  OBVIOUS
<1>3. \A S \in SUBSET ps : G[S] \subseteq U
  OBVIOUS
<1> HIDE DEF after
<1>4. \A S \in SUBSET ps : after[S] \in U
  OBVIOUS
<1> HIDE DEF U, step
<1>5. \A S \in SUBSET ps : S # {} =>
          \A b \in G[S \ {Max(S)}] : Turn(b, step, Max(S)) \in G[S]
  BY <1>1, <1>2, <1>3 DEF Turn
<1>6. ASSUME NEW g, ByStep(g) PROVE \A S \in SUBSET ps : g[S] \in G[S]
  BY <1>5, <1>6, LoopRight
<1>7. \E g : g = Loop(g)
  <2>1. PICK g : IsLoop(g, ps, m, step)
    BY LoopExists
  <2>2. ByStep(g)
    BY <2>1 DEF IsLoop
  <2>3. \A S \in SUBSET ps : g[S] \in G[S]
    BY <1>6, <2>2
  <2>4. \A S \in SUBSET ps : S # {} => g[S \ {Max(S)}] \in U
    BY <1>3, <2>3
  <2>5. g = Loop(g)
    BY <1>1, <1>2, <2>1, <2>4 DEF Turn, IsLoop
  <2>6. QED
    BY <2>5
<1>8. after = Loop(after)
  BY <1>7 DEF after
<1>9. ByStep(after)
  <2>1. \A S \in SUBSET ps : after[S] = Loop(after)[S]
    BY <1>8
  <2>2. QED
    BY <1>1, <1>2, <1>4, <2>1 DEF Turn
<1>10. after[ps] \in G[ps]
  BY <1>6, <1>9
<1>11. Each(m, pg_uauto, ps) = after[ps]
  BY DEF Each, after
<1>12. QED
  BY <1>10, <1>11

\* The loop of u_free over pages.
LEMMA EachFree ==
    ASSUME NEW ps \in SUBSET Nat, IsFiniteSet(ps), NEW m, NEW G, m \in G[{}],
           \A S \in SUBSET ps : S # {} =>
               \A b \in G[S \ {Max(S)}] :
                   (IF b.err THEN b ELSE FreePage(b, Max(S))) \in G[S]
    PROVE  Each(m, FreePage, ps) \in G[ps]
<1> DEFINE Loop(g) == [S \in SUBSET ps |->
                          IF S = {} THEN m
                          ELSE LET x == Max(S)
                                   b == g[S \ {x}]
                               IN  IF b.err THEN b ELSE FreePage(b, x)]
           after == CHOOSE g : g = Loop(g)
           U == (UNION {G[S] : S \in SUBSET ps}) \cup {after[S] : S \in SUBSET ps}
           step == [e \in U \X ps |-> FreePage(e[1], e[2])]
           ByStep(g) == \A S \in SUBSET ps :
                            g[S] = IF S = {} THEN m ELSE Turn(g[S \ {Max(S)}], step, Max(S))
<1>1. \A S \in SUBSET ps : S # {} => Max(S) \in ps
  BY MaxIs, FS_Subset
<1>2. \A b \in U, x \in ps : step[<<b, x>>] = FreePage(b, x)
  OBVIOUS
<1>3. \A S \in SUBSET ps : G[S] \subseteq U
  OBVIOUS
<1> HIDE DEF after
<1>4. \A S \in SUBSET ps : after[S] \in U
  OBVIOUS
<1> HIDE DEF U, step
<1>5. \A S \in SUBSET ps : S # {} =>
          \A b \in G[S \ {Max(S)}] : Turn(b, step, Max(S)) \in G[S]
  BY <1>1, <1>2, <1>3 DEF Turn
<1>6. ASSUME NEW g, ByStep(g) PROVE \A S \in SUBSET ps : g[S] \in G[S]
  BY <1>5, <1>6, LoopRight
<1>7. \E g : g = Loop(g)
  <2>1. PICK g : IsLoop(g, ps, m, step)
    BY LoopExists
  <2>2. ByStep(g)
    BY <2>1 DEF IsLoop
  <2>3. \A S \in SUBSET ps : g[S] \in G[S]
    BY <1>6, <2>2
  <2>4. \A S \in SUBSET ps : S # {} => g[S \ {Max(S)}] \in U
    BY <1>3, <2>3
  <2>5. g = Loop(g)
    BY <1>1, <1>2, <2>1, <2>4 DEF Turn, IsLoop
  <2>6. QED
    BY <2>5
<1>8. after = Loop(after)
  BY <1>7 DEF after
<1>9. ByStep(after)
  <2>1. \A S \in SUBSET ps : after[S] = Loop(after)[S]
    BY <1>8
  <2>2. QED
    BY <1>1, <1>2, <1>4, <2>1 DEF Turn
<1>10. after[ps] \in G[ps]
  BY <1>6, <1>9
<1>11. Each(m, FreePage, ps) = after[ps]
  BY DEF Each, after
<1>12. QED
  BY <1>10, <1>11

\* The loop of copy_pages over the pages of the parent.
LEMMA EachCopy ==
    ASSUME NEW t, Page \in SUBSET Nat, IsFiniteSet(Page), NEW m, NEW G, m \in G[{}],
           \A S \in SUBSET Page : S # {} =>
               \A b \in G[S \ {Max(S)}] :
                   (IF b.err THEN b ELSE CopyPage(b, t, Max(S))) \in G[S]
    PROVE  copy_pages(m, t) \in G[Page]
<1> DEFINE Loop(g) == [S \in SUBSET Page |->
                          IF S = {} THEN m
                          ELSE LET x == Max(S)
                                   b == g[S \ {x}]
                               IN  IF b.err THEN b ELSE CopyPage(b, t, x)]
           after == CHOOSE g : g = Loop(g)
           U == (UNION {G[S] : S \in SUBSET Page}) \cup {after[S] : S \in SUBSET Page}
           step == [e \in U \X Page |-> CopyPage(e[1], t, e[2])]
           ByStep(g) == \A S \in SUBSET Page :
                            g[S] = IF S = {} THEN m ELSE Turn(g[S \ {Max(S)}], step, Max(S))
<1>1. \A S \in SUBSET Page : S # {} => Max(S) \in Page
  BY MaxIs, FS_Subset
<1>2. \A b \in U, x \in Page : step[<<b, x>>] = CopyPage(b, t, x)
  OBVIOUS
<1>3. \A S \in SUBSET Page : G[S] \subseteq U
  OBVIOUS
<1> HIDE DEF after
<1>4. \A S \in SUBSET Page : after[S] \in U
  OBVIOUS
<1> HIDE DEF U, step
<1>5. \A S \in SUBSET Page : S # {} =>
          \A b \in G[S \ {Max(S)}] : Turn(b, step, Max(S)) \in G[S]
  BY <1>1, <1>2, <1>3 DEF Turn
<1>6. ASSUME NEW g, ByStep(g) PROVE \A S \in SUBSET Page : g[S] \in G[S]
  BY <1>5, <1>6, LoopRight
<1>7. \E g : g = Loop(g)
  <2>1. PICK g : IsLoop(g, Page, m, step)
    BY LoopExists
  <2>2. ByStep(g)
    BY <2>1 DEF IsLoop
  <2>3. \A S \in SUBSET Page : g[S] \in G[S]
    BY <1>6, <2>2
  <2>4. \A S \in SUBSET Page : S # {} => g[S \ {Max(S)}] \in U
    BY <1>3, <2>3
  <2>5. g = Loop(g)
    BY <1>1, <1>2, <2>1, <2>4 DEF Turn, IsLoop
  <2>6. QED
    BY <2>5
<1>8. after = Loop(after)
  BY <1>7 DEF after
<1>9. ByStep(after)
  <2>1. \A S \in SUBSET Page : after[S] = Loop(after)[S]
    BY <1>8
  <2>2. QED
    BY <1>1, <1>2, <1>4, <2>1 DEF Turn
<1>10. after[Page] \in G[Page]
  BY <1>6, <1>9
<1>11. copy_pages(m, t) = after[Page]
  BY DEF copy_pages, Each, after
<1>12. QED
  BY <1>10, <1>11

----
----------------------------------------------------------------------------
(* The memory of one task. *)

\* What a frame may hold.
Contents == Values \cup {Zero, LdrData, ArgData, Junk}
\* A task's memory as Mem has it.
Memories ==
    [dir : [Table -> Frame \cup {0}], tab : [Page -> Entry], n : Int, free : SUBSET Frame,
     data : [Frame \cup Kernel -> Contents], err : BOOLEAN]

\* Its tables, its own pages and the frames they are in.
TabsOf(m) == {k \in Table : m.dir[k] # 0}
OwnOf(m) == {p \in Page : m.tab[p].f # 0 /\ ~m.tab[p].cow}
FramesOf(m) == {m.dir[k] : k \in TabsOf(m)} \cup {m.tab[p].f : p \in OwnOf(m)}

\* No frame holds two of a task's tables and pages.
Apart(m) ==
    /\ \A k, l \in TabsOf(m) : m.dir[k] = m.dir[l] => k = l
    /\ \A p, q \in OwnOf(m) : m.tab[p].f = m.tab[q].f => p = q
    /\ \A k \in TabsOf(m), p \in OwnOf(m) : m.dir[k] # m.tab[p].f

\* The frames are the free ones, those of the task, and R, those of the others.
Places(m, R) ==
    /\ m.free \cup FramesOf(m) \cup R = Frame
    /\ m.free \cap FramesOf(m) = {}
    /\ R \cap m.free = {}
    /\ R \cap FramesOf(m) = {}
    /\ Apart(m)

\* Pages are under tables, and shared pages are the loader's.
Sound(m, R) ==
    /\ m \in Memories
    /\ Places(m, R)
    /\ \A p \in Page : m.tab[p] # None => m.dir[TableOf[p]] # 0
    /\ \A p \in Page : m.tab[p].cow => p \in LdrPages
    /\ \A f \in Kernel : m.data[f] = LdrData

\* pg_count is no more than what the task has and no less than its pages of the heap,
\* so that giving those back leaves no count below 0.
Counted(m) ==
    /\ m.n <= Cardinality(TabsOf(m)) + Cardinality(OwnOf(m))
    /\ Cardinality(OwnOf(m) \cap Heap) <= m.n

\* What a program sees of it.
ViewIn(m) ==
    [p \in Page |-> IF m.tab[p] = None THEN NoPage
                    ELSE IF m.tab[p].auto THEN Zero
                    ELSE m.data[m.tab[p].f]]

\* What the kinds of page table entry have in them.
LEMMA EntryIs ==
    ASSUME UserMemAssumption, NEW e \in Entry
    PROVE  /\ e.cow \in BOOLEAN /\ e.auto \in BOOLEAN
           /\ e.f # 0 /\ ~e.cow => e.f \in Frame /\ e = Own(e.f) /\ ~e.auto
           /\ e.cow => e.f \in Kernel /\ e.f # 0 /\ ~e.auto
           /\ e.f = 0 => e \in {None, AutoPage} /\ ~e.cow
           /\ e.auto => e = AutoPage
           /\ e = None => e.f = 0 /\ ~e.cow /\ ~e.auto
<1>1. CASE e = None
  BY <1>1 DEF None, AutoPage
<1>2. CASE e = AutoPage
  BY <1>2 DEF None, AutoPage
<1>3. ASSUME NEW f \in Frame, e = Own(f) PROVE e.f = f /\ ~e.cow /\ ~e.auto /\ f # 0 /\ e # None
  BY <1>3 DEF Own, None, UserMemAssumption
<1>4. ASSUME NEW f \in Kernel, e = Cow(f) PROVE e.f = f /\ e.cow /\ ~e.auto /\ f # 0 /\ e # None
  <2>1. f # 0
    BY DEF Kernel, LdrPages, UserMemAssumption
  <2>2. QED
    BY <1>4, <2>1 DEF Cow, None
<1>5. CASE \E f \in Frame : e = Own(f)
  <2>1. PICK f \in Frame : e = Own(f)
    BY <1>5
  <2>2. e.f = f /\ e.cow = FALSE /\ e.auto = FALSE
    BY <2>1 DEF Own
  <2>3. QED
    BY <1>3, <2>1, <2>2
<1>6. CASE \E f \in Kernel : e = Cow(f)
  <2>1. PICK f \in Kernel : e = Cow(f)
    BY <1>6
  <2>2. e.f = f /\ e.cow = TRUE /\ e.auto = FALSE
    BY <2>1 DEF Cow
  <2>3. QED
    BY <1>4, <2>1, <2>2
<1>7. QED
  BY <1>1, <1>2, <1>5, <1>6 DEF Entry

\* The loader's frames are the kernel's, and no frame is 0.
LEMMA KernelIs ==
    ASSUME UserMemAssumption
    PROVE  Kernel \cap Frame = {} /\ 0 \notin Frame /\ 0 \notin Kernel
BY DEF UserMemAssumption, Kernel, LdrPages

\* The entries the operations write are entries, and their bits are what they say.
LEMMA EntryHas ==
    /\ None \in Entry /\ AutoPage \in Entry /\ None # AutoPage
    /\ None.f = 0 /\ ~None.cow /\ ~None.auto
    /\ AutoPage.f = 0 /\ ~AutoPage.cow /\ AutoPage.auto
    /\ \A f \in Frame : Own(f) \in Entry
    /\ \A f : Own(f).f = f /\ ~Own(f).cow /\ ~Own(f).auto /\ Own(f) # AutoPage
<1>1. ASSUME NEW f PROVE Own(f).f = f /\ ~Own(f).cow /\ ~Own(f).auto /\ Own(f) # AutoPage
  BY DEF Own, AutoPage
<1>2. None \in Entry /\ AutoPage \in Entry /\ \A f \in Frame : Own(f) \in Entry
  BY DEF Entry
<1>3. QED
  BY <1>1, <1>2 DEF None, AutoPage

\* A record of these fields.
Whole(b) ==
    b = [dir |-> b.dir, tab |-> b.tab, n |-> b.n, free |-> b.free, data |-> b.data, err |-> b.err]

\* b is m with a table k in the free frame f.
TakesTable(m, b, k, f) ==
    /\ Whole(b)
    /\ k \in Table /\ m.dir[k] = 0 /\ f \in m.free
    /\ b.n \in Int /\ b.dir = [m.dir EXCEPT ![k] = f] /\ b.free = m.free \ {f}
    /\ b.tab = m.tab /\ b.data = m.data /\ b.err = m.err

\* A free frame becomes a table.
LEMMA TableTaken ==
    ASSUME UserMemAssumption, NEW R, NEW m, NEW b, Sound(m, R),
           NEW k, NEW f, TakesTable(m, b, k, f)
    PROVE  /\ Sound(b, R)
           /\ TabsOf(b) = TabsOf(m) \cup {k}
<1>1. m \in Memories /\ f \in Frame /\ f # 0 /\ k \in Table /\ m.dir[k] = 0 /\ f \in m.free
  BY KernelIs DEF Sound, Memories, TakesTable
<1>2. /\ b.dir = [m.dir EXCEPT ![k] = f] /\ b.free = m.free \ {f}
      /\ b.tab = m.tab /\ b.data = m.data /\ b.err = m.err
  BY <1>1 DEF TakesTable
<1>3. b \in Memories
  <2>1. [m.dir EXCEPT ![k] = f] \in [Table -> Frame \cup {0}]
    BY <1>1 DEF Memories
  <2>2. m.free \ {f} \in SUBSET Frame
    BY <1>1 DEF Memories
  <2>3. QED
    BY <1>1, <2>1, <2>2 DEF Memories, Whole, TakesTable
<1>4. TabsOf(b) = TabsOf(m) \cup {k} /\ OwnOf(b) = OwnOf(m)
  BY <1>1, <1>2 DEF TabsOf, OwnOf, Memories
<1>5. \A l \in TabsOf(m) : l # k /\ b.dir[l] = m.dir[l]
  BY <1>1, <1>2 DEF TabsOf, Memories
<1>6. b.dir[k] = f
  BY <1>1, <1>2 DEF Memories
<1>7. FramesOf(b) = FramesOf(m) \cup {f}
  BY <1>2, <1>4, <1>5, <1>6 DEF FramesOf
<1>8. f \notin FramesOf(m)
  BY <1>1 DEF Sound, Places
<1>9. Apart(b)
  BY <1>2, <1>4, <1>5, <1>6, <1>8 DEF Sound, Places, Apart, FramesOf
<1>10. Places(b, R)
  BY <1>1, <1>2, <1>7, <1>8, <1>9 DEF Sound, Places
<1>11. \A l \in Table : m.dir[l] # 0 => b.dir[l] # 0
  BY <1>5, <1>1 DEF TabsOf
<1>12. \A p \in Page : TableOf[p] \in Table
  BY DEF UserMemAssumption
<1>13. QED
  BY <1>2, <1>3, <1>4, <1>10, <1>11, <1>12 DEF Sound

\* b is m with a page p in the free frame f, which holds v.
TakesPage(m, b, p, f, v) ==
    /\ Whole(b)
    /\ p \in Page \ OwnOf(m) /\ m.dir[TableOf[p]] # 0 /\ f \in m.free /\ v \in Contents
    /\ b.n \in Int /\ b.tab = [m.tab EXCEPT ![p] = Own(f)] /\ b.free = m.free \ {f}
    /\ b.dir = m.dir /\ b.data = [m.data EXCEPT ![f] = v] /\ b.err = m.err

\* What is seen in a page changes to v and in no other.
Shows(m, b, p, v) == \A q \in Page : ViewIn(b)[q] = IF q = p THEN v ELSE ViewIn(m)[q]

\* A page that has none gets a free frame.
LEMMA PageTaken ==
    ASSUME UserMemAssumption, NEW R, NEW m, NEW b, Sound(m, R),
           NEW p, NEW f, NEW v, TakesPage(m, b, p, f, v)
    PROVE  /\ Sound(b, R)
           /\ OwnOf(b) = OwnOf(m) \cup {p}
           /\ Shows(m, b, p, v)
<1>1. /\ m \in Memories /\ f \in Frame /\ f # 0 /\ f \notin Kernel
      /\ p \in Page \ OwnOf(m) /\ m.dir[TableOf[p]] # 0 /\ f \in m.free /\ v \in Contents
  BY KernelIs DEF Sound, Memories, TakesPage
<1>2. /\ b.tab = [m.tab EXCEPT ![p] = Own(f)] /\ b.free = m.free \ {f}
      /\ b.dir = m.dir /\ b.data = [m.data EXCEPT ![f] = v] /\ b.err = m.err
  BY <1>1 DEF TakesPage
<1>3. b \in Memories
  <2>1. [m.tab EXCEPT ![p] = Own(f)] \in [Page -> Entry]
    BY <1>1, EntryHas DEF Memories
  <2>2. m.free \ {f} \in SUBSET Frame
    BY <1>1 DEF Memories
  <2>3. [m.data EXCEPT ![f] = v] \in [Frame \cup Kernel -> Contents]
    BY <1>1 DEF Memories
  <2>4. QED
    BY <1>1, <2>1, <2>2, <2>3 DEF Memories, Whole, TakesPage
<1>4. b.tab[p] = Own(f) /\ \A q \in Page \ {p} : b.tab[q] = m.tab[q]
  BY <1>1, <1>2 DEF Memories
<1>5. TabsOf(b) = TabsOf(m) /\ OwnOf(b) = OwnOf(m) \cup {p}
  <2>1. b.tab[p].f # 0 /\ ~b.tab[p].cow
    BY <1>1, <1>4, EntryHas
  <2>2. QED
    BY <1>1, <1>2, <1>4, <2>1 DEF TabsOf, OwnOf
<1>6. \A q \in OwnOf(m) : q # p /\ b.tab[q] = m.tab[q]
  BY <1>1, <1>4 DEF OwnOf
<1>7. b.tab[p].f = f
  BY <1>4, EntryHas
<1>8. FramesOf(b) = FramesOf(m) \cup {f}
  BY <1>2, <1>5, <1>6, <1>7 DEF FramesOf
<1>9. f \notin FramesOf(m)
  BY <1>1 DEF Sound, Places
<1>10. Apart(b)
  BY <1>2, <1>5, <1>6, <1>7, <1>9 DEF Sound, Places, Apart, FramesOf
<1>11. Places(b, R)
  BY <1>1, <1>2, <1>8, <1>9, <1>10 DEF Sound, Places
<1>12. \A g \in Frame \cup Kernel : g # f => b.data[g] = m.data[g]
  BY <1>1, <1>2 DEF Memories
<1>13. b.data[f] = v
  BY <1>1, <1>2 DEF Memories
<1>14. Sound(b, R)
  <2>1. \A q \in Page : b.tab[q] # None => b.dir[TableOf[q]] # 0
    BY <1>1, <1>2, <1>4 DEF Sound
  <2>2. \A q \in Page : b.tab[q].cow => q \in LdrPages
    <3>1. ~b.tab[p].cow
      BY <1>4, EntryHas
    <3>2. QED
      BY <1>4, <3>1 DEF Sound
  <2>3. \A g \in Kernel : b.data[g] = LdrData
    BY <1>1, <1>12 DEF Sound
  <2>4. QED
    BY <1>3, <1>11, <2>1, <2>2, <2>3 DEF Sound
<1>15. ASSUME NEW q \in Page \ {p} PROVE ViewIn(b)[q] = ViewIn(m)[q]
  <2>1. m.tab[q] \in Entry /\ b.tab[q] = m.tab[q]
    BY <1>1, <1>4 DEF Memories
  <2>2. CASE m.tab[q].f = 0
    BY <2>1, <2>2, EntryIs, EntryHas DEF ViewIn
  <2>3. CASE m.tab[q].f # 0
    <3>1. m.tab[q].f \in Frame \cup Kernel
      BY <2>1, <2>3, EntryIs
    <3>2. m.tab[q].f # f
      <4>1. CASE m.tab[q].cow
        BY <1>1, <2>1, <4>1, EntryIs
      <4>2. CASE ~m.tab[q].cow
        BY <1>9, <2>3, <4>2 DEF OwnOf, FramesOf
      <4>3. QED
        BY <4>1, <4>2
    <3>3. QED
      BY <1>12, <2>1, <3>1, <3>2 DEF ViewIn
  <2>4. QED
    BY <2>2, <2>3
<1>16. ViewIn(b)[p] = v
  <2>1. b.tab[p].f = f /\ ~b.tab[p].auto /\ b.tab[p] # None
    BY <1>1, <1>4, EntryHas
  <2>2. QED
    BY <1>1, <1>13, <2>1 DEF ViewIn
<1>17. QED
  BY <1>5, <1>14, <1>15, <1>16 DEF Shows

\* b is m without the page p, which was in the frame f.
LosesPage(m, b, p, f) ==
    /\ Whole(b)
    /\ p \in OwnOf(m) /\ f = m.tab[p].f
    /\ b.n \in Int /\ b.tab = [m.tab EXCEPT ![p] = None] /\ b.free = m.free \cup {f}
    /\ b.dir = m.dir /\ b.data = [m.data EXCEPT ![f] = Junk] /\ b.err = m.err

\* The page a task has a frame for is given back.
LEMMA PageLost ==
    ASSUME UserMemAssumption, NEW R, NEW m, NEW b, Sound(m, R),
           NEW p, NEW f, LosesPage(m, b, p, f)
    PROVE  /\ Sound(b, R)
           /\ OwnOf(b) = OwnOf(m) \ {p} /\ TabsOf(b) = TabsOf(m)
           /\ \A g \in R : b.data[g] = m.data[g]
           /\ Shows(m, b, p, NoPage)
<1>1. /\ m \in Memories /\ p \in OwnOf(m) /\ f = m.tab[p].f
      /\ p \in Page /\ m.tab[p] \in Entry /\ f # 0 /\ ~m.tab[p].cow
  BY DEF Sound, Memories, OwnOf, LosesPage
<1>2. f \in Frame /\ f \notin Kernel
  BY <1>1, EntryIs, KernelIs
<1>3. /\ b.tab = [m.tab EXCEPT ![p] = None] /\ b.free = m.free \cup {f}
      /\ b.dir = m.dir /\ b.data = [m.data EXCEPT ![f] = Junk] /\ b.err = m.err
  BY <1>1 DEF LosesPage
<1>4. b \in Memories
  <2>1. [m.tab EXCEPT ![p] = None] \in [Page -> Entry]
    BY <1>1, EntryHas DEF Memories
  <2>2. m.free \cup {f} \in SUBSET Frame
    BY <1>1, <1>2 DEF Memories
  <2>3. [m.data EXCEPT ![f] = Junk] \in [Frame \cup Kernel -> Contents]
    BY <1>1 DEF Memories, Contents
  <2>4. QED
    BY <1>1, <2>1, <2>2, <2>3 DEF Memories, Whole, LosesPage
<1>5. b.tab[p] = None /\ \A q \in Page \ {p} : b.tab[q] = m.tab[q]
  BY <1>1, <1>3 DEF Memories
<1>6. TabsOf(b) = TabsOf(m) /\ OwnOf(b) = OwnOf(m) \ {p}
  BY <1>3, <1>5, EntryHas DEF TabsOf, OwnOf
<1>7. \A q \in OwnOf(m) \ {p} : b.tab[q] = m.tab[q] /\ b.tab[q].f # f
  BY <1>1, <1>5 DEF Sound, Places, Apart, OwnOf
<1>8. \A k \in TabsOf(m) : m.dir[k] # f
  BY <1>1 DEF Sound, Places, Apart
<1>9. FramesOf(b) = FramesOf(m) \ {f}
  BY <1>1, <1>3, <1>6, <1>7, <1>8 DEF FramesOf
<1>10. f \in FramesOf(m)
  BY <1>1 DEF FramesOf
<1>11. Apart(b)
  BY <1>3, <1>6, <1>7 DEF Sound, Places, Apart
<1>12. Places(b, R)
  <2>1. f \notin R /\ f \notin m.free
    BY <1>10 DEF Sound, Places
  <2>2. QED
    BY <1>3, <1>9, <1>10, <1>11, <2>1 DEF Sound, Places
<1>13. \A g \in Frame \cup Kernel : g # f => b.data[g] = m.data[g]
  BY <1>1, <1>3 DEF Memories
<1>14. \A g \in R : g # f /\ g \in Frame
  BY <1>10 DEF Sound, Places
<1>15. Sound(b, R)
  <2>1. \A q \in Page : b.tab[q] # None => b.dir[TableOf[q]] # 0
    BY <1>3, <1>5 DEF Sound
  <2>2. \A q \in Page : b.tab[q].cow => q \in LdrPages
    BY <1>5, EntryHas DEF Sound
  <2>3. \A g \in Kernel : b.data[g] = LdrData
    BY <1>2, <1>13 DEF Sound
  <2>4. QED
    BY <1>4, <1>12, <2>1, <2>2, <2>3 DEF Sound
<1>16. ASSUME NEW q \in Page \ {p} PROVE ViewIn(b)[q] = ViewIn(m)[q]
  <2>1. m.tab[q] \in Entry /\ b.tab[q] = m.tab[q]
    BY <1>1, <1>5 DEF Memories
  <2>2. CASE m.tab[q].f = 0
    BY <2>1, <2>2, EntryIs, EntryHas DEF ViewIn
  <2>3. CASE m.tab[q].f # 0
    <3>1. m.tab[q].f \in Frame \cup Kernel
      BY <2>1, <2>3, EntryIs
    <3>2. m.tab[q].f # f
      <4>1. CASE m.tab[q].cow
        BY <1>2, <2>1, <4>1, EntryIs
      <4>2. CASE ~m.tab[q].cow
        BY <1>7, <2>1, <2>3, <4>2 DEF OwnOf
      <4>3. QED
        BY <4>1, <4>2
    <3>3. QED
      BY <1>13, <2>1, <3>1, <3>2 DEF ViewIn
  <2>4. QED
    BY <2>2, <2>3
<1>17. ViewIn(b)[p] = NoPage
  BY <1>1, <1>5 DEF ViewIn
<1>18. QED
  BY <1>6, <1>13, <1>14, <1>15, <1>16, <1>17 DEF Shows

\* Page table entries change where a task has no frames of its own.
LEMMA MarksChanged ==
    ASSUME UserMemAssumption, NEW R, NEW m, NEW b, Sound(m, R),
           NEW tb \in [Page -> Entry], b = [m EXCEPT !.tab = tb],
           \A p \in Page : \/ tb[p] = m.tab[p]
                           \/ /\ p \notin OwnOf(m)
                              /\ tb[p].f = 0 \/ tb[p].cow
                              /\ tb[p].cow => p \in LdrPages
                              /\ tb[p] # None => m.dir[TableOf[p]] # 0
    PROVE  /\ Sound(b, R)
           /\ OwnOf(b) = OwnOf(m) /\ TabsOf(b) = TabsOf(m)
           /\ b.tab = tb /\ b.dir = m.dir /\ b.err = m.err /\ b.data = m.data /\ b.n = m.n
<1>1. m \in Memories
  BY DEF Sound
<1>2. b.tab = tb /\ b.free = m.free /\ b.dir = m.dir /\ b.data = m.data /\ b.err = m.err /\ b.n = m.n
  BY <1>1 DEF Memories
<1>3. b \in Memories
  BY <1>1, <1>2 DEF Memories
<1>4. TabsOf(b) = TabsOf(m)
  BY <1>2 DEF TabsOf
<1>5. \A p \in Page : p \in OwnOf(m) <=> tb[p].f # 0 /\ ~tb[p].cow
  BY DEF OwnOf
<1>6. OwnOf(b) = OwnOf(m) /\ \A p \in OwnOf(m) : b.tab[p] = m.tab[p]
  BY <1>2, <1>5 DEF OwnOf
<1>7. FramesOf(b) = FramesOf(m) /\ Apart(b)
  BY <1>2, <1>4, <1>6 DEF FramesOf, Sound, Places, Apart
<1>8. Places(b, R)
  BY <1>2, <1>7 DEF Sound, Places
<1>9. QED
  BY <1>2, <1>3, <1>4, <1>6, <1>8 DEF Sound

\* b is m without any memory.
Emptied(m, b, R) ==
    /\ Sound(b, R) /\ Counted(b)
    /\ \A p \in Page : b.tab[p] = None
    /\ b.n = 0 /\ b.err = m.err
    /\ OwnOf(b) = {} /\ TabsOf(b) = {}
    /\ \A g \in R : b.data[g] = m.data[g]

\* What a directory holds goes back.
LEMMA MemoryDropped ==
    ASSUME UserMemAssumption, NEW R, NEW m, NEW b, Sound(m, R), b = uclean(m)
    PROVE  Emptied(m, b, R)
<1> DEFINE fs == FramesOf(m)
<1>1. m \in Memories
  BY DEF Sound
<1>2. ({m.tab[p].f : p \in {q \in Page : ~m.tab[q].cow}} \cup {m.dir[k] : k \in Table}) \ {0} = fs
  BY DEF FramesOf, OwnOf, TabsOf
<1>3. fs \subseteq Frame /\ fs \cap Kernel = {} /\ fs \cap R = {}
  BY KernelIs DEF Sound, Places
<1> HIDE DEF fs
<1>4. b = Drop(m, fs)
  BY <1>2 DEF uclean
<1>5. /\ b.free = m.free \cup fs /\ b.err = m.err /\ b.n = 0
      /\ b.data = [f \in Frame \cup Kernel |-> IF f \in fs THEN Junk ELSE m.data[f]]
      /\ b.dir = [k \in Table |-> 0] /\ b.tab = [p \in Page |-> None]
  BY <1>1, <1>4 DEF Drop, Memories
<1>6. b = [dir |-> b.dir, tab |-> b.tab, n |-> b.n, free |-> b.free, data |-> b.data, err |-> b.err]
  BY <1>1, <1>4 DEF Drop, Memories
<1>7. b \in Memories
  <2>1. b.data \in [Frame \cup Kernel -> Contents]
    BY <1>1, <1>5 DEF Memories, Contents
  <2>2. b.tab \in [Page -> Entry]
    BY <1>5, EntryHas
  <2>3. b.dir \in [Table -> Frame \cup {0}] /\ b.free \in SUBSET Frame /\ b.n \in Int /\ b.err \in BOOLEAN
    BY <1>1, <1>3, <1>5 DEF Memories
  <2>4. QED
    BY <1>6, <2>1, <2>2, <2>3 DEF Memories
<1>8. OwnOf(b) = {} /\ TabsOf(b) = {}
  BY <1>5, EntryHas DEF OwnOf, TabsOf
<1>9. FramesOf(b) = {} /\ Apart(b)
  BY <1>8 DEF FramesOf, Apart
<1>10. Places(b, R)
  BY <1>3, <1>5, <1>9 DEF Sound, Places, fs
<1>11. \A g \in R : b.data[g] = m.data[g]
  <2>1. R \subseteq Frame
    BY DEF Sound, Places
  <2>2. QED
    BY <1>3, <1>5, <2>1
<1>12. \A g \in Kernel : b.data[g] = LdrData
  BY <1>3, <1>5 DEF Sound
<1>13. \A q \in Page : b.tab[q] = None
  BY <1>5
<1>14. Sound(b, R)
  BY <1>7, <1>10, <1>12, <1>13, EntryHas DEF Sound
<1>15. Counted(b)
  BY <1>5, <1>8, FS_EmptySet DEF Counted
<1>16. QED
  BY <1>5, <1>8, <1>11, <1>13, <1>14, <1>15 DEF Emptied

\* m with v in the pages of ps.
Written(m, ps, v) ==
    [m EXCEPT !.data = [f \in Frame \cup Kernel |->
        IF f \in {m.tab[p].f : p \in ps} THEN v ELSE m.data[f]]]

\* The same bytes are written to pages a task has frames for.
LEMMA PagesWritten ==
    ASSUME UserMemAssumption, NEW R, NEW m, NEW b, Sound(m, R),
           NEW ps \in SUBSET OwnOf(m), NEW v \in Contents, b = Written(m, ps, v)
    PROVE  /\ Sound(b, R)
           /\ OwnOf(b) = OwnOf(m) /\ TabsOf(b) = TabsOf(m)
           /\ b.tab = m.tab /\ b.dir = m.dir /\ b.n = m.n /\ b.err = m.err
           /\ \A g \in R : b.data[g] = m.data[g]
           /\ \A p \in Page : ViewIn(b)[p] = IF p \in ps THEN v ELSE ViewIn(m)[p]
<1> DEFINE fs == {m.tab[p].f : p \in ps}
<1>1. m \in Memories
  BY DEF Sound
<1>2. fs \subseteq FramesOf(m)
  BY DEF FramesOf
<1>3. fs \subseteq Frame /\ fs \cap Kernel = {} /\ fs \cap R = {} /\ R \subseteq Frame
  BY <1>2, KernelIs DEF Sound, Places
<1>4. /\ b.tab = m.tab /\ b.dir = m.dir /\ b.n = m.n /\ b.err = m.err /\ b.free = m.free
      /\ b.data = [f \in Frame \cup Kernel |-> IF f \in fs THEN v ELSE m.data[f]]
  BY <1>1 DEF Memories, Written
<1>5. b \in Memories
  <2>1. b.data \in [Frame \cup Kernel -> Contents]
    BY <1>1, <1>4 DEF Memories
  <2>2. QED
    BY <1>1, <1>4, <2>1 DEF Memories, Written
<1>6. OwnOf(b) = OwnOf(m) /\ TabsOf(b) = TabsOf(m) /\ FramesOf(b) = FramesOf(m)
  BY <1>4 DEF OwnOf, TabsOf, FramesOf
<1>7. Apart(b)
  BY <1>4, <1>6 DEF Sound, Places, Apart
<1>8. Places(b, R)
  BY <1>4, <1>6, <1>7 DEF Sound, Places
<1>9. Sound(b, R)
  BY <1>3, <1>4, <1>5, <1>8 DEF Sound
<1>10. ASSUME NEW p \in Page PROVE ViewIn(b)[p] = IF p \in ps THEN v ELSE ViewIn(m)[p]
  <2>1. m.tab[p] \in Entry /\ b.tab[p] = m.tab[p]
    BY <1>1, <1>4 DEF Memories
  <2>2. CASE p \in ps
    <3>1. m.tab[p].f \in fs /\ m.tab[p].f # 0 /\ ~m.tab[p].cow
      BY <2>2 DEF OwnOf
    <3>2. ~m.tab[p].auto /\ m.tab[p] # None
      BY <2>1, <3>1, EntryIs
    <3>3. b.data[m.tab[p].f] = v
      BY <1>3, <1>4, <3>1
    <3>4. QED
      BY <2>1, <2>2, <3>2, <3>3 DEF ViewIn
  <2>3. CASE p \notin ps /\ m.tab[p].f = 0
    BY <2>1, <2>3, EntryIs, EntryHas DEF ViewIn
  <2>4. CASE p \notin ps /\ m.tab[p].f # 0
    <3>1. m.tab[p].f \in Frame \cup Kernel
      BY <2>1, <2>4, EntryIs
    <3>2. m.tab[p].f \notin fs
      <4>1. CASE m.tab[p].cow
        BY <1>3, <2>1, <4>1, EntryIs
      <4>2. CASE ~m.tab[p].cow
        BY <2>4, <4>2 DEF OwnOf, Sound, Places, Apart
      <4>3. QED
        BY <4>1, <4>2
    <3>3. QED
      BY <1>4, <2>1, <2>4, <3>1, <3>2 DEF ViewIn
  <2>5. QED
    BY <2>2, <2>3, <2>4
<1>11. QED
  BY <1>3, <1>4, <1>6, <1>9, <1>10

----
----------------------------------------------------------------------------
(* One step of the loops. *)

\* The tables and pages of a task can be counted.
LEMMA Finite ==
    ASSUME UserMemAssumption, NEW m
    PROVE  /\ IsFiniteSet(TabsOf(m)) /\ Cardinality(TabsOf(m)) \in Nat
           /\ IsFiniteSet(OwnOf(m)) /\ Cardinality(OwnOf(m)) \in Nat
           /\ IsFiniteSet(OwnOf(m) \cap Heap) /\ Cardinality(OwnOf(m) \cap Heap) \in Nat
<1>1. IsFiniteSet(Table) /\ IsFiniteSet(Page)
  BY DEF UserMemAssumption
<1>2. TabsOf(m) \subseteq Table /\ OwnOf(m) \subseteq Page /\ OwnOf(m) \cap Heap \subseteq Page
  BY DEF TabsOf, OwnOf
<1>3. QED
  BY <1>1, <1>2, FS_Subset, FS_CardinalityType

\* pg_newtab counts the table it takes.
LEMMA TableCounted ==
    ASSUME UserMemAssumption, NEW m, NEW b, Counted(m), m.n \in Int,
           NEW k, k \notin TabsOf(m), TabsOf(b) = TabsOf(m) \cup {k}, OwnOf(b) = OwnOf(m),
           b.n = m.n + 1
    PROVE  Counted(b)
<1>1. Cardinality(TabsOf(b)) = Cardinality(TabsOf(m)) + 1
  BY Finite, FS_AddElement
<1>2. QED
  BY <1>1, Finite DEF Counted

\* A page that is counted when it gets its frame.
LEMMA PageCounted ==
    ASSUME UserMemAssumption, NEW m, NEW b, Counted(m), m.n \in Int,
           NEW p, p \notin OwnOf(m), OwnOf(b) = OwnOf(m) \cup {p}, TabsOf(b) = TabsOf(m),
           b.n = m.n + 1
    PROVE  Counted(b)
<1>1. Cardinality(OwnOf(b)) = Cardinality(OwnOf(m)) + 1
  BY Finite, FS_AddElement
<1>2. Cardinality(OwnOf(b) \cap Heap) <= Cardinality(OwnOf(m) \cap Heap) + 1
  <2>1. Cardinality(OwnOf(m) \cap Heap) \in Nat
    BY Finite
  <2>2. CASE p \in Heap
    <3>1. OwnOf(b) \cap Heap = (OwnOf(m) \cap Heap) \cup {p}
      BY <2>2
    <3>2. Cardinality(OwnOf(b) \cap Heap) = Cardinality(OwnOf(m) \cap Heap) + 1
      BY <3>1, Finite, FS_AddElement
    <3>3. QED
      BY <2>1, <3>2
  <2>3. CASE p \notin Heap
    <3>1. OwnOf(b) \cap Heap = OwnOf(m) \cap Heap
      BY <2>3
    <3>2. QED
      BY <2>1, <3>1
  <2>4. QED
    BY <2>2, <2>3
<1>3. QED
  BY <1>1, <1>2, Finite DEF Counted

\* u_free counts a page of the heap off when it frees its frame.
LEMMA LossCounted ==
    ASSUME UserMemAssumption, NEW m, NEW b, Counted(m), m.n \in Int,
           NEW p \in Heap, p \in OwnOf(m), OwnOf(b) = OwnOf(m) \ {p}, TabsOf(b) = TabsOf(m),
           b.n = m.n - 1
    PROVE  Counted(b)
<1>1. Cardinality(OwnOf(b)) = Cardinality(OwnOf(m)) - 1
  BY Finite, FS_RemoveElement
<1>2. OwnOf(b) \cap Heap = (OwnOf(m) \cap Heap) \ {p}
  OBVIOUS
<1>3. Cardinality(OwnOf(b) \cap Heap) = Cardinality(OwnOf(m) \cap Heap) - 1
  BY <1>2, Finite, FS_RemoveElement
<1>4. QED
  BY <1>1, <1>3, Finite DEF Counted

\* An error changes nothing but the result.
LEMMA FailIs ==
    ASSUME NEW R, NEW m, Sound(m, R)
    PROVE  /\ Sound(Fail(m), R) /\ (Counted(m) => Counted(Fail(m)))
           /\ Fail(m).err = TRUE /\ Fail(m).dir = m.dir /\ Fail(m).tab = m.tab
           /\ Fail(m).data = m.data /\ Fail(m).n = m.n
           /\ OwnOf(Fail(m)) = OwnOf(m) /\ TabsOf(Fail(m)) = TabsOf(m) /\ ViewIn(Fail(m)) = ViewIn(m)
<1>1. m \in Memories
  BY DEF Sound
<1>2. /\ Fail(m) \in Memories /\ Fail(m).err = TRUE /\ Fail(m).dir = m.dir /\ Fail(m).tab = m.tab
      /\ Fail(m).data = m.data /\ Fail(m).n = m.n /\ Fail(m).free = m.free
  BY <1>1 DEF Memories, Fail
<1>3. OwnOf(Fail(m)) = OwnOf(m) /\ TabsOf(Fail(m)) = TabsOf(m) /\ ViewIn(Fail(m)) = ViewIn(m)
  BY <1>2 DEF OwnOf, TabsOf, ViewIn
<1>4. FramesOf(Fail(m)) = FramesOf(m)
  BY <1>2, <1>3 DEF FramesOf
<1>5. Apart(m) => Apart(Fail(m))
  BY <1>2, <1>3 DEF Apart
<1>6. Sound(Fail(m), R)
  BY <1>2, <1>4, <1>5 DEF Sound, Places
<1>7. QED
  BY <1>2, <1>3, <1>6 DEF Counted

\* What a task sees is in its page table and the frames.
LEMMA SameView ==
    ASSUME NEW m, NEW b, b.tab = m.tab, b.data = m.data
    PROVE  ViewIn(b) = ViewIn(m) /\ OwnOf(b) = OwnOf(m)
BY DEF ViewIn, OwnOf

\* pg_alloc returns a free frame.
LEMMA FreeIs ==
    ASSUME UserMemAssumption, NEW R, NEW m, Sound(m, R), m.free # {}
    PROVE  Min(m.free) \in m.free
<1>1. m.free \in SUBSET Nat
  BY DEF Sound, Memories, UserMemAssumption
<1>2. QED
  BY <1>1, MinIs

\* The loop of u_alloc.
TablesAsked(m, b, S, R) ==
    /\ Sound(b, R) /\ Counted(b)
    /\ b.tab = m.tab /\ b.data = m.data
    /\ \A l \in Table : m.dir[l] # 0 => b.dir[l] # 0
    /\ ~b.err => \A l \in S : b.dir[l] # 0

\* One table of u_alloc: there is no frame, or it is taken and counted once.
LEMMA NewTableRight ==
    ASSUME UserMemAssumption, NEW R, NEW m, NEW S \in SUBSET Table, NEW b,
           NEW k \in Table, TablesAsked(m, b, S, R)
    PROVE  TablesAsked(m, NewTable(b, k), S \cup {k}, R)
<1> DEFINE c == NewTable(b, k)
<1>1. Sound(b, R) /\ b \in Memories /\ b.n \in Int
  BY DEF TablesAsked, Sound, Memories
<1>2. CASE b.dir[k] # 0
  BY <1>2 DEF TablesAsked, NewTable
<1>3. CASE b.dir[k] = 0 /\ b.free = {}
  <2>1. c = Fail(b)
    BY <1>3 DEF NewTable
  <2> HIDE DEF c
  <2>2. TablesAsked(m, c, S \cup {k}, R)
    BY <1>1, <2>1, FailIs DEF TablesAsked
  <2>3. QED
    BY <2>2 DEF c
<1>4. CASE b.dir[k] = 0 /\ b.free # {}
  <2> DEFINE f == Min(b.free)
  <2>1. f \in b.free
    BY <1>1, <1>4, FreeIs
  <2>2. c = [b EXCEPT !.dir[k] = f, !.free = @ \ {f}, !.n = @ + 1]
    BY <1>4 DEF NewTable
  <2> HIDE DEF c, f
  <2>3. c.n = b.n + 1 /\ TakesTable(b, c, k, f)
    <3>1. Whole(c)
      BY <1>1, <2>2 DEF Memories, Whole
    <3>2. /\ c.dir = [b.dir EXCEPT ![k] = f] /\ c.free = b.free \ {f} /\ c.n = b.n + 1
          /\ c.tab = b.tab /\ c.data = b.data /\ c.err = b.err
      BY <1>1, <2>2 DEF Memories
    <3>3. QED
      BY <1>1, <1>4, <2>1, <3>1, <3>2 DEF TakesTable
  <2>4. Sound(c, R) /\ TabsOf(c) = TabsOf(b) \cup {k}
    BY <1>1, <2>3, TableTaken
  <2>5. Counted(c)
    <3>1. k \notin TabsOf(b) /\ OwnOf(c) = OwnOf(b)
      BY <1>4, <2>3, SameView DEF TabsOf, TakesTable
    <3>2. QED
      BY <1>1, <2>3, <2>4, <3>1, TableCounted DEF TablesAsked
  <2>6. c.dir[k] # 0 /\ \A l \in Table : b.dir[l] # 0 => c.dir[l] # 0
    <3>1. k \in TabsOf(c) /\ \A l \in TabsOf(b) : l \in TabsOf(c)
      BY <2>4
    <3>2. QED
      BY <3>1 DEF TabsOf
  <2>7. QED
    BY <2>3, <2>4, <2>5, <2>6 DEF TablesAsked, TakesTable, c
<1>5. QED
  BY <1>2, <1>3, <1>4

\* pg_uauto for the pages of a request.
PagesOwned(m, b, S, R) ==
    /\ Sound(b, R)
    /\ Counted(m) => Counted(b)
    /\ b.dir = m.dir
    /\ ViewIn(b) = ViewIn(m)
    /\ OwnOf(m) \subseteq OwnOf(b)
    /\ \A g \in R : b.data[g] = m.data[g]
    /\ ~b.err => S \subseteq OwnOf(b)

\* pg_uauto: the page gets a frame of its own and the task sees no difference.
LEMMA AutoRight ==
    ASSUME UserMemAssumption, NEW R, NEW m, NEW S \in SUBSET Page, NEW b,
           NEW p \in Page, PagesOwned(m, b, S, R)
    PROVE  PagesOwned(m, pg_uauto(b, p), S \cup {p}, R)
<1> DEFINE c == pg_uauto(b, p)
<1>1. Sound(b, R) /\ b \in Memories /\ b.n \in Int /\ b.tab[p] \in Entry
  BY DEF PagesOwned, Sound, Memories
<1>2. CASE \/ b.dir[TableOf[p]] = 0 \/ b.tab[p] = None
           \/ ~(b.tab[p].f # 0 /\ ~b.tab[p].cow) /\ b.free = {}
  <2>1. c = Fail(b)
    BY <1>1, <1>2, EntryHas DEF pg_uauto
  <2> HIDE DEF c
  <2>2. PagesOwned(m, c, S \cup {p}, R)
    BY <1>1, <2>1, FailIs DEF PagesOwned
  <2>3. QED
    BY <2>2 DEF c
<1>3. CASE b.dir[TableOf[p]] # 0 /\ b.tab[p] # None /\ b.tab[p].f # 0 /\ ~b.tab[p].cow
  <2>1. c = b /\ p \in OwnOf(b)
    BY <1>3 DEF pg_uauto, OwnOf
  <2> HIDE DEF c
  <2>2. QED
    BY <2>1 DEF PagesOwned, c
<1>4. CASE /\ b.dir[TableOf[p]] # 0 /\ b.tab[p] # None /\ ~(b.tab[p].f # 0 /\ ~b.tab[p].cow)
           /\ b.free # {}
  <2> DEFINE f == Min(b.free)
             v == IF b.tab[p].cow THEN b.data[b.tab[p].f] ELSE Zero
  <2>1. f \in b.free
    BY <1>1, <1>4, FreeIs
  <2>2. c = [b EXCEPT !.tab[p] = Own(f), !.free = @ \ {f}, !.n = @ + 1, !.data[f] = v]
    BY <1>4 DEF pg_uauto
  <2>3. v \in Contents /\ v = ViewIn(b)[p]
    <3>1. CASE b.tab[p].cow
      BY <1>1, <1>4, <3>1, EntryIs DEF Memories, ViewIn
    <3>2. CASE ~b.tab[p].cow
      <4>1. b.tab[p] = AutoPage
        BY <1>1, <1>4, <3>2, EntryIs
      <4>2. QED
        BY <3>2, <4>1, <1>4, EntryHas DEF ViewIn, Contents
    <3>3. QED
      BY <3>1, <3>2
  <2> HIDE DEF c, f, v
  <2>4. c.n = b.n + 1
    BY <1>1, <2>2 DEF Memories
  <2>5. p \notin OwnOf(b)
    BY <1>4 DEF OwnOf
  <2>6. TakesPage(b, c, p, f, v)
    <3>1. Whole(c)
      BY <1>1, <2>2 DEF Memories, Whole
    <3>2. /\ c.tab = [b.tab EXCEPT ![p] = Own(f)] /\ c.free = b.free \ {f}
          /\ c.dir = b.dir /\ c.data = [b.data EXCEPT ![f] = v] /\ c.err = b.err
      BY <1>1, <2>2 DEF Memories
    <3>3. QED
      BY <1>1, <1>4, <2>1, <2>3, <2>4, <2>5, <3>1, <3>2 DEF TakesPage
  <2>7. Sound(c, R) /\ OwnOf(c) = OwnOf(b) \cup {p} /\ Shows(b, c, p, v)
    BY <1>1, <2>1, <2>6, PageTaken
  <2>8. Counted(b) => Counted(c)
    <3>1. TabsOf(c) = TabsOf(b)
      BY <2>6 DEF TabsOf, TakesPage
    <3>2. QED
      BY <1>1, <2>4, <2>5, <2>7, <3>1, PageCounted
  <2>9. ViewIn(c) = ViewIn(b)
    <3>1. \A q \in Page : ViewIn(c)[q] = ViewIn(b)[q]
      BY <2>3, <2>7 DEF Shows
    <3>2. QED
      BY <3>1 DEF ViewIn
  <2>10. \A g \in R : c.data[g] = b.data[g]
    <3>1. f \notin R /\ b.data \in [Frame \cup Kernel -> Contents] /\ R \subseteq Frame
      BY <1>1, <2>1 DEF Sound, Places, Memories
    <3>2. QED
      BY <2>6, <3>1 DEF TakesPage
  <2>11. QED
    BY <2>6, <2>7, <2>8, <2>9, <2>10 DEF PagesOwned, TakesPage, c
<1>5. QED
  BY <1>2, <1>3, <1>4

\* The loop of u_free over the heap.
PagesFreed(m, b, S, R) ==
    /\ Sound(b, R)
    /\ Counted(m) => Counted(b)
    /\ b.dir = m.dir
    /\ \A g \in R : b.data[g] = m.data[g]
    /\ \A p \in Page : ViewIn(b)[p] = ViewIn(m)[p] \/ (p \in S /\ ViewIn(b)[p] = NoPage)

\* One page of u_free.
LEMMA FreeRight ==
    ASSUME UserMemAssumption, NEW R, NEW m, NEW S \in SUBSET Heap, NEW b,
           NEW p \in Heap, PagesFreed(m, b, S, R)
    PROVE  PagesFreed(m, FreePage(b, p), S \cup {p}, R)
<1> DEFINE c == FreePage(b, p)
<1>1. p \in Page /\ p \notin LdrPages
  BY DEF UserMemAssumption, LdrPages
<1>2. Sound(b, R) /\ b \in Memories /\ b.n \in Int /\ b.tab[p] \in Entry /\ ~b.tab[p].cow
  BY <1>1, EntryIs DEF PagesFreed, Sound, Memories
<1>3. CASE b.tab[p] = None
  <2>1. c = Fail(b)
    BY <1>3 DEF FreePage
  <2> HIDE DEF c
  <2>2. PagesFreed(m, c, S \cup {p}, R)
    <3>1. /\ Sound(c, R) /\ (Counted(b) => Counted(c)) /\ c.dir = b.dir /\ c.data = b.data
          /\ ViewIn(c) = ViewIn(b)
      BY <1>2, <2>1, FailIs
    <3>2. QED
      BY <3>1 DEF PagesFreed
  <2>3. QED
    BY <2>2 DEF c
<1>4. CASE b.tab[p] # None /\ b.tab[p].f = 0
  <2> DEFINE tb == [b.tab EXCEPT ![p] = None]
  <2>1. c = [b EXCEPT !.tab = tb]
    BY <1>4 DEF FreePage
  <2> HIDE DEF c
  <2>2. tb \in [Page -> Entry] /\ tb[p] = None /\ \A q \in Page \ {p} : tb[q] = b.tab[q]
    BY <1>1, <1>2, EntryHas DEF Memories
  <2>3. p \notin OwnOf(b)
    BY <1>4 DEF OwnOf
  <2> HIDE DEF tb
  <2>4. /\ Sound(c, R) /\ OwnOf(c) = OwnOf(b) /\ TabsOf(c) = TabsOf(b)
        /\ c.tab = tb /\ c.dir = b.dir /\ c.data = b.data /\ c.n = b.n
    <3>1. \A q \in Page : \/ tb[q] = b.tab[q]
                          \/ /\ q \notin OwnOf(b)
                             /\ tb[q].f = 0 \/ tb[q].cow
                             /\ tb[q].cow => q \in LdrPages
                             /\ tb[q] # None => b.dir[TableOf[q]] # 0
      BY <2>2, <2>3, EntryHas
    <3>2. QED
      BY <1>2, <2>1, <2>2, <3>1, MarksChanged
  <2>5. \A q \in Page \ {p} : ViewIn(c)[q] = ViewIn(b)[q]
    BY <2>2, <2>4 DEF ViewIn
  <2>6. ViewIn(c)[p] = NoPage
    BY <1>1, <2>2, <2>4 DEF ViewIn
  <2>7. Counted(b) => Counted(c)
    BY <2>4 DEF Counted
  <2>8. QED
    BY <2>4, <2>5, <2>6, <2>7 DEF PagesFreed, c
<1>5. CASE b.tab[p].f # 0
  <2> DEFINE f == b.tab[p].f
  <2>1. p \in OwnOf(b) /\ b.tab[p] # None
    BY <1>1, <1>2, <1>5, EntryHas DEF OwnOf
  <2>2. c = [b EXCEPT !.tab[p] = None, !.n = @ - 1, !.free = @ \cup {f}, !.data[f] = Junk]
    BY <1>5, <2>1 DEF FreePage
  <2> HIDE DEF c
  <2>3. c.n = b.n - 1 /\ LosesPage(b, c, p, f)
    <3>1. Whole(c)
      BY <1>2, <2>2 DEF Memories, Whole
    <3>2. /\ c.tab = [b.tab EXCEPT ![p] = None] /\ c.free = b.free \cup {f} /\ c.n = b.n - 1
          /\ c.dir = b.dir /\ c.data = [b.data EXCEPT ![f] = Junk] /\ c.err = b.err
      BY <1>2, <2>2 DEF Memories
    <3>3. QED
      BY <1>2, <2>1, <3>1, <3>2 DEF LosesPage
  <2> HIDE DEF f
  <2>4. /\ Sound(c, R)
        /\ OwnOf(c) = OwnOf(b) \ {p} /\ TabsOf(c) = TabsOf(b)
        /\ \A g \in R : c.data[g] = b.data[g]
        /\ Shows(b, c, p, NoPage)
    BY <1>2, <2>3, PageLost
  <2>5. Counted(b) => Counted(c)
    BY <1>2, <2>1, <2>3, <2>4, LossCounted
  <2>6. \A q \in Page : ViewIn(c)[q] = IF q = p THEN NoPage ELSE ViewIn(b)[q]
    BY <2>4 DEF Shows
  <2>7. c.dir = b.dir
    BY <2>3 DEF LosesPage
  <2>8. QED
    BY <2>4, <2>5, <2>6, <2>7 DEF PagesFreed, c
<1>6. QED
  BY <1>3, <1>4, <1>5

\* What is needed of a parent whose memory is copied.
Parent(t, R) ==
    /\ FramesOf(Mem(t)) \subseteq R
    /\ pg_dir[t] \in [Table -> Frame \cup {0}] /\ pg_tab[t] \in [Page -> Entry]
    /\ data \in [Frame \cup Kernel -> Contents]
    /\ \A p \in Page : pg_tab[t][p] # None => pg_dir[t][TableOf[p]] # 0
    /\ \A f \in Kernel : data[f] = LdrData

\* The loop of copy_pages.
PagesCopied(t, m, b, S, R) ==
    /\ Sound(b, R)
    /\ b.n = m.n
    /\ \A g \in R : b.data[g] = data[g]
    /\ \A k \in Table : b.dir[k] # 0 => pg_dir[t][k] # 0
    /\ \A p \in Page \ S : b.tab[p] = None
    /\ ~b.err => \A p \in S : /\ pg_dir[t][TableOf[p]] # 0 => b.dir[TableOf[p]] # 0
                              /\ ViewIn(b)[p] = ViewIn(Mem(t))[p]
                              /\ p \in OwnOf(b) <=> pg_tab[t][p].f # 0

\* What the loop does for one page.
PageCopied(t, b, c, p, R) ==
    /\ Sound(c, R)
    /\ c.n = b.n
    /\ \A g \in R : c.data[g] = b.data[g]
    /\ \A l \in Table : /\ c.dir[l] = b.dir[l] \/ pg_dir[t][l] # 0
                        /\ b.dir[l] # 0 => c.dir[l] # 0
    /\ \A q \in Page : q # p => /\ c.tab[q] = b.tab[q]
                                /\ ViewIn(c)[q] = ViewIn(b)[q]
                                /\ q \in OwnOf(c) <=> q \in OwnOf(b)
    /\ ~c.err => /\ pg_dir[t][TableOf[p]] # 0 => c.dir[TableOf[p]] # 0
                 /\ ViewIn(c)[p] = ViewIn(Mem(t))[p]
                 /\ p \in OwnOf(c) <=> pg_tab[t][p].f # 0

\* What copy_pages has done for one page more.
LEMMA OneMoreCopied ==
    ASSUME UserMemAssumption, NEW R, NEW t, NEW m, NEW S \in SUBSET Page, NEW b, ~b.err,
           NEW p \in Page, p \notin S, PagesCopied(t, m, b, S, R),
           NEW c, PageCopied(t, b, c, p, R)
    PROVE  PagesCopied(t, m, c, S \cup {p}, R)
<1>1. Sound(c, R) /\ c.n = m.n /\ \A g \in R : c.data[g] = data[g]
  BY DEF PageCopied, PagesCopied
<1>2. \A l \in Table : c.dir[l] # 0 => pg_dir[t][l] # 0
  BY DEF PageCopied, PagesCopied
<1>3. \A q \in Page \ (S \cup {p}) : c.tab[q] = None
  BY DEF PageCopied, PagesCopied
<1>4. ASSUME ~c.err, NEW q \in S \cup {p}
      PROVE  /\ pg_dir[t][TableOf[q]] # 0 => c.dir[TableOf[q]] # 0
             /\ ViewIn(c)[q] = ViewIn(Mem(t))[q]
             /\ q \in OwnOf(c) <=> pg_tab[t][q].f # 0
  <2>1. CASE q = p
    BY <1>4, <2>1 DEF PageCopied
  <2>2. CASE q # p
    <3>1. q \in Page /\ q \in S /\ TableOf[q] \in Table
      BY <2>2 DEF UserMemAssumption
    <3>2. /\ pg_dir[t][TableOf[q]] # 0 => b.dir[TableOf[q]] # 0
          /\ ViewIn(b)[q] = ViewIn(Mem(t))[q]
          /\ q \in OwnOf(b) <=> pg_tab[t][q].f # 0
      BY <3>1 DEF PagesCopied
    <3>3. /\ b.dir[TableOf[q]] # 0 => c.dir[TableOf[q]] # 0
          /\ ViewIn(c)[q] = ViewIn(b)[q]
          /\ q \in OwnOf(c) <=> q \in OwnOf(b)
      BY <2>2, <3>1 DEF PageCopied
    <3>4. QED
      BY <3>2, <3>3
  <2>3. QED
    BY <2>1, <2>2
<1>5. QED
  BY <1>1, <1>2, <1>3, <1>4 DEF PagesCopied

\* copy_pages for one page: the child gets a table, a mark, the loader's frame, or a
\* frame of its own with the parent's bytes; or there is no frame.
LEMMA CopyRight ==
    ASSUME UserMemAssumption, NEW R, NEW t, Parent(t, R),
           NEW m, NEW S \in SUBSET Page, NEW b, ~b.err,
           NEW p \in Page, p \notin S, PagesCopied(t, m, b, S, R)
    PROVE  PagesCopied(t, m, CopyPage(b, t, p), S \cup {p}, R)
<1> DEFINE c == CopyPage(b, t, p)
           K == TableOf[p]
           needTable == b.dir[K] = 0
           k == IF b.free = {} THEN 0 ELSE Min(b.free)
           d == IF needTable THEN [b EXCEPT !.dir[K] = k, !.free = b.free \ {k}] ELSE b
           f == Min(d.free)
           e == pg_tab[t][p]
<1>1. /\ Sound(b, R) /\ b \in Memories /\ b.n \in Int /\ b.tab[p] = None
      /\ K \in Table /\ e \in Entry /\ b.err = FALSE
  BY DEF PagesCopied, Sound, Memories, UserMemAssumption, Parent
<1>2. ViewIn(Mem(t))[p] = IF e = None THEN NoPage ELSE IF e.auto THEN Zero ELSE data[e.f]
  BY DEF ViewIn, Mem
<1>3. c = IF pg_dir[t][K] = 0 THEN b
          ELSE IF needTable /\ k = 0 THEN Fail(b)
          ELSE IF e.auto THEN [d EXCEPT !.tab[p] = AutoPage]
          ELSE IF e.f = 0 THEN d
          ELSE IF d.free = {} THEN Fail(d)
          ELSE [d EXCEPT !.tab[p] = Own(f), !.free = d.free \ {f}, !.data[f] = d.data[e.f]]
  BY DEF CopyPage
<1>4. b.free # {} => k \in b.free /\ k # 0
  <2>1. ASSUME b.free # {} PROVE k = Min(b.free) /\ k \in b.free
    BY <1>1, <2>1, FreeIs
  <2>2. b.free \subseteq Frame
    BY <1>1 DEF Memories
  <2>3. QED
    BY <2>1, <2>2, KernelIs
<1>5. \A g \in R : b.data[g] = data[g]
  BY DEF PagesCopied
<1> HIDE DEF c, k, d, f
<1>6. ASSUME pg_dir[t][K] = 0 PROVE PageCopied(t, b, c, p, R)
  <2>1. c = b /\ e = None
    BY <1>3, <1>6 DEF Parent
  <2>2. ViewIn(b)[p] = NoPage /\ p \notin OwnOf(b) /\ e.f = 0
    BY <1>1, <2>1, EntryHas DEF ViewIn, OwnOf
  <2> HIDE DEF e
  <2>3. QED
    BY <1>1, <1>2, <1>6, <2>1, <2>2 DEF PageCopied, e
<1>7. ASSUME pg_dir[t][K] # 0, needTable /\ k = 0 PROVE PageCopied(t, b, c, p, R)
  <2>1. c = Fail(b)
    BY <1>3, <1>7
  <2>2. /\ Sound(c, R) /\ c.dir = b.dir /\ c.data = b.data /\ c.tab = b.tab /\ c.n = b.n
        /\ c.err = TRUE
    BY <1>1, <2>1, FailIs
  <2>3. ViewIn(c) = ViewIn(b) /\ OwnOf(c) = OwnOf(b)
    BY <2>2, SameView
  <2>4. QED
    BY <2>2, <2>3 DEF PageCopied
<1>8. ASSUME pg_dir[t][K] # 0, ~ (needTable /\ k = 0) PROVE PageCopied(t, b, c, p, R)
  <2>1. /\ Sound(d, R) /\ d.tab = b.tab /\ d.data = b.data /\ d.n = b.n /\ d.err = b.err
        /\ d.dir[K] # 0 /\ \A l \in Table : l # K => d.dir[l] = b.dir[l]
    <3>1. CASE ~needTable
      BY <1>1, <3>1 DEF d
    <3>2. CASE needTable
      <4>1. k \in b.free /\ k # 0
        BY <1>4, <1>8, <3>2 DEF k
      <4>2. d = [b EXCEPT !.dir[K] = k, !.free = b.free \ {k}]
        BY <3>2 DEF d
      <4>3. Whole(d)
        BY <1>1, <4>2 DEF Memories, Whole
      <4>4. /\ d.dir = [b.dir EXCEPT ![K] = k] /\ d.free = b.free \ {k} /\ d.n = b.n
            /\ d.tab = b.tab /\ d.data = b.data /\ d.err = b.err
        BY <1>1, <4>2 DEF Memories
      <4>5. TakesTable(b, d, K, k)
        BY <1>1, <3>2, <4>1, <4>3, <4>4 DEF TakesTable
      <4>6. Sound(d, R)
        BY <1>1, <4>5, TableTaken
      <4>7. d.dir[K] # 0 /\ \A l \in Table : l # K => d.dir[l] = b.dir[l]
        BY <1>1, <4>1, <4>4 DEF Memories
      <4>8. QED
        BY <4>4, <4>6, <4>7
    <3>3. QED
      BY <3>1, <3>2
  <2>2. OwnOf(d) = OwnOf(b) /\ ViewIn(d) = ViewIn(b) /\ d \in Memories
    BY <2>1, SameView DEF Sound
  <2>3. p \notin OwnOf(d) /\ ViewIn(d)[p] = NoPage
    BY <1>1, <2>1, EntryHas DEF OwnOf, ViewIn
  <2>4. /\ d.n = b.n /\ d.data = b.data /\ d.tab = b.tab /\ d.dir[K] # 0
         /\ \A l \in Table : /\ d.dir[l] = b.dir[l] \/ pg_dir[t][l] # 0
                             /\ b.dir[l] # 0 => d.dir[l] # 0
    BY <1>8, <2>1
  <2>5. CASE e.auto
    <3> DEFINE tb == [d.tab EXCEPT ![p] = AutoPage]
    <3>1. c = [d EXCEPT !.tab = tb] /\ e = AutoPage /\ e # None /\ e.f = 0
      BY <1>1, <1>3, <1>8, <2>5, EntryIs, EntryHas
    <3>2. tb \in [Page -> Entry] /\ tb[p] = AutoPage /\ \A q \in Page : q # p => tb[q] = d.tab[q]
      BY <2>2, EntryHas DEF Memories
    <3> HIDE DEF tb, e
    <3>3. /\ Sound(c, R) /\ OwnOf(c) = OwnOf(d) /\ c.tab = tb /\ c.dir = d.dir /\ c.data = d.data
          /\ c.n = d.n /\ c.err = d.err
      <4>1. \A q \in Page : \/ tb[q] = d.tab[q]
                            \/ /\ q \notin OwnOf(d)
                               /\ tb[q].f = 0 \/ tb[q].cow
                               /\ tb[q].cow => q \in LdrPages
                               /\ tb[q] # None => d.dir[TableOf[q]] # 0
        BY <2>1, <2>3, <3>2, EntryHas
      <4>2. QED
        BY <2>1, <3>1, <3>2, <4>1, MarksChanged
    <3>4. \A q \in Page : q # p => ViewIn(c)[q] = ViewIn(d)[q]
      BY <3>2, <3>3 DEF ViewIn
    <3>5. ViewIn(c)[p] = Zero
      BY <3>2, <3>3, EntryHas DEF ViewIn
    <3>6. ViewIn(Mem(t))[p] = Zero
      BY <1>2, <2>5, <3>1
    <3>7. QED
      BY <2>4, <2>2, <2>3, <3>1, <3>2, <3>3, <3>4, <3>5, <3>6 DEF PageCopied, e
  <2>6. CASE ~e.auto /\ e.f = 0
    <3>1. c = d /\ e = None
      BY <1>1, <1>3, <1>8, <2>6, EntryIs, EntryHas
    <3>2. ViewIn(Mem(t))[p] = NoPage
      BY <1>2, <3>1
    <3>3. QED
      BY <2>1, <2>4, <2>2, <2>3, <2>6, <3>1, <3>2 DEF PageCopied
  <2>7. CASE ~e.auto /\ e.f # 0 /\ d.free = {}
    <3>1. c = Fail(d)
      BY <1>3, <1>8, <2>7
    <3>2. /\ Sound(c, R) /\ c.dir = d.dir /\ c.data = d.data /\ c.tab = d.tab /\ c.n = d.n
          /\ c.err = TRUE /\ ViewIn(c) = ViewIn(d) /\ OwnOf(c) = OwnOf(d)
      <4>1. Sound(d, R)
        BY <2>1
      <4>2. QED
        BY <3>1, <4>1, FailIs
    <3>3. QED
      BY <2>2, <2>4, <3>2 DEF PageCopied
  <2>8. CASE ~e.auto /\ e.f # 0 /\ d.free # {}
    <3> DEFINE v == d.data[e.f]
    <3>1. c = [d EXCEPT !.tab[p] = Own(f), !.free = d.free \ {f}, !.data[f] = v]
      BY <1>3, <1>8, <2>8
    <3>2. f \in d.free
      BY <2>1, <2>8, FreeIs DEF f
    <3>3. e # None /\ v = data[e.f] /\ v \in Contents
      <4>1. e # None /\ e.f \in Frame \cup Kernel
        BY <1>1, <2>8, EntryIs, EntryHas
      <4>2. v \in Contents
        BY <2>2, <4>1 DEF Memories
      <4>3. CASE e.cow
        <5>1. e.f \in Kernel
          BY <1>1, <4>3, EntryIs
        <5>2. v = LdrData /\ data[e.f] = LdrData
          BY <2>1, <5>1 DEF Sound, Parent
        <5>3. QED
          BY <4>1, <4>2, <5>2
      <4>4. CASE ~e.cow
        <5>1. e.f \in FramesOf(Mem(t))
          BY <2>8, <4>4 DEF FramesOf, OwnOf, Mem
        <5>2. e.f \in R
          BY <5>1 DEF Parent
        <5>3. v = data[e.f]
          BY <1>5, <2>1, <5>2
        <5>4. QED
          BY <4>1, <4>2, <5>3
      <4>5. QED
        BY <4>3, <4>4
    <3> HIDE DEF v
    <3>4. TakesPage(d, c, p, f, v) /\ c.n = d.n
      <4>1. Whole(c)
        BY <2>2, <3>1 DEF Memories, Whole
      <4>2. /\ c.tab = [d.tab EXCEPT ![p] = Own(f)] /\ c.free = d.free \ {f} /\ c.n = d.n
            /\ c.dir = d.dir /\ c.data = [d.data EXCEPT ![f] = v] /\ c.err = d.err
        BY <2>2, <3>1 DEF Memories
      <4>3. QED
        BY <1>1, <2>1, <2>3, <3>2, <3>3, <4>1, <4>2 DEF TakesPage
    <3>5. Sound(c, R) /\ OwnOf(c) = OwnOf(d) \cup {p} /\ Shows(d, c, p, v)
      <4>1. Sound(d, R)
        BY <2>1
      <4>2. QED
        BY <3>4, <4>1, PageTaken
    <3>6. /\ c.dir = d.dir /\ c.n = d.n /\ c.err = d.err
          /\ \A q \in Page : q # p => c.tab[q] = d.tab[q]
      BY <2>2, <3>4 DEF TakesPage, Memories
    <3>7. \A g \in R : c.data[g] = d.data[g]
      <4>1. f \notin R /\ d.data \in [Frame \cup Kernel -> Contents] /\ R \subseteq Frame
        BY <2>1, <2>2, <3>2 DEF Sound, Places, Memories
      <4>2. QED
        BY <3>4, <4>1 DEF TakesPage
    <3>8. /\ \A q \in Page : q # p => ViewIn(c)[q] = ViewIn(d)[q]
          /\ ViewIn(c)[p] = v
      BY <3>5 DEF Shows
    <3>9. ViewIn(Mem(t))[p] = v
      BY <1>2, <2>8, <3>3
    <3> HIDE DEF e
    <3>10. QED
      BY <2>2, <2>3, <2>4, <2>8, <3>5, <3>6, <3>7, <3>8, <3>9 DEF PageCopied, e
  <2>9. QED
    BY <2>5, <2>6, <2>7, <2>8
<1>9. QED
  <2>1. PageCopied(t, b, c, p, R)
    BY <1>6, <1>7, <1>8
  <2>2. QED
    BY <2>1, OneMoreCopied DEF c

----
----------------------------------------------------------------------------
(* The calls. *)

\* The whole loop of u_alloc.
LEMMA TablesRightly ==
    ASSUME UserMemAssumption, NEW R, NEW m, Sound(m, R), Counted(m), NEW ks \in SUBSET Table
    PROVE  TablesAsked(m, Each(m, NewTable, ks), ks, R)
<1> DEFINE G == [S \in SUBSET ks |-> {b \in Memories : TablesAsked(m, b, S, R)}]
<1>1. ks \in SUBSET Nat /\ IsFiniteSet(ks)
  BY FS_Subset DEF UserMemAssumption
<1>2. m \in G[{}]
  BY DEF TablesAsked, Sound
<1>3. ASSUME NEW S \in SUBSET ks, S # {}, NEW b \in G[S \ {Max(S)}]
      PROVE  (IF b.err THEN b ELSE NewTable(b, Max(S))) \in G[S]
  <2>1. Max(S) \in S /\ S \ {Max(S)} \in SUBSET ks
    BY <1>1, <1>3, MaxIs, FS_Subset
  <2>2. TablesAsked(m, b, S \ {Max(S)}, R) /\ b \in Memories
    BY <1>3, <2>1
  <2> HIDE DEF G
  <2>3. CASE b.err
    <3>1. TablesAsked(m, b, S, R)
      BY <2>2, <2>3 DEF TablesAsked
    <3>2. QED
      BY <2>2, <2>3, <3>1 DEF G
  <2>4. CASE ~b.err
    <3> DEFINE c == NewTable(b, Max(S))
    <3>1. TablesAsked(m, c, (S \ {Max(S)}) \cup {Max(S)}, R)
      BY <2>1, <2>2, NewTableRight
    <3>2. (S \ {Max(S)}) \cup {Max(S)} = S
      BY <2>1
    <3> HIDE DEF c
    <3>3. TablesAsked(m, c, S, R) /\ c \in Memories
      BY <3>1, <3>2 DEF TablesAsked, Sound
    <3>4. c \in G[S]
      BY <3>3 DEF G
    <3>5. QED
      BY <2>4, <3>4 DEF c
  <2>5. QED
    BY <2>3, <2>4
<1> HIDE DEF G
<1>4. Each(m, NewTable, ks) \in G[ks]
  BY <1>1, <1>2, <1>3, EachTable
<1>5. QED
  BY <1>4 DEF G

\* The whole loop over pg_uauto.
LEMMA OwnedRightly ==
    ASSUME UserMemAssumption, NEW R, NEW m, Sound(m, R), NEW ps \in SUBSET Page
    PROVE  PagesOwned(m, Each(m, pg_uauto, ps), ps, R)
<1> DEFINE G == [S \in SUBSET ps |-> {b \in Memories : PagesOwned(m, b, S, R)}]
<1>1. ps \in SUBSET Nat /\ IsFiniteSet(ps)
  BY FS_Subset DEF UserMemAssumption
<1>2. m \in G[{}]
  BY DEF PagesOwned, Sound
<1>3. ASSUME NEW S \in SUBSET ps, S # {}, NEW b \in G[S \ {Max(S)}]
      PROVE  (IF b.err THEN b ELSE pg_uauto(b, Max(S))) \in G[S]
  <2>1. Max(S) \in S /\ S \ {Max(S)} \in SUBSET ps
    BY <1>1, <1>3, MaxIs, FS_Subset
  <2>2. PagesOwned(m, b, S \ {Max(S)}, R) /\ b \in Memories
    BY <1>3, <2>1
  <2> HIDE DEF G
  <2>3. CASE b.err
    <3>1. PagesOwned(m, b, S, R)
      BY <2>2, <2>3 DEF PagesOwned
    <3>2. QED
      BY <2>2, <2>3, <3>1 DEF G
  <2>4. CASE ~b.err
    <3> DEFINE c == pg_uauto(b, Max(S))
    <3>1. PagesOwned(m, c, (S \ {Max(S)}) \cup {Max(S)}, R)
      BY <2>1, <2>2, AutoRight
    <3>2. (S \ {Max(S)}) \cup {Max(S)} = S
      BY <2>1
    <3> HIDE DEF c
    <3>3. PagesOwned(m, c, S, R) /\ c \in Memories
      BY <3>1, <3>2 DEF PagesOwned, Sound
    <3>4. c \in G[S]
      BY <3>3 DEF G
    <3>5. QED
      BY <2>4, <3>4 DEF c
  <2>5. QED
    BY <2>3, <2>4
<1> HIDE DEF G
<1>4. Each(m, pg_uauto, ps) \in G[ps]
  BY <1>1, <1>2, <1>3, EachAuto
<1>5. QED
  BY <1>4 DEF G

\* The whole loop of u_free.
LEMMA FreedRightly ==
    ASSUME UserMemAssumption, NEW R, NEW m, Sound(m, R), NEW ps \in SUBSET Heap
    PROVE  PagesFreed(m, Each(m, FreePage, ps), ps, R)
<1> DEFINE G == [S \in SUBSET ps |-> {b \in Memories : PagesFreed(m, b, S, R)}]
<1>1. ps \in SUBSET Nat /\ IsFiniteSet(ps)
  BY FS_Subset DEF UserMemAssumption
<1>2. m \in G[{}]
  BY DEF PagesFreed, Sound
<1>3. ASSUME NEW S \in SUBSET ps, S # {}, NEW b \in G[S \ {Max(S)}]
      PROVE  (IF b.err THEN b ELSE FreePage(b, Max(S))) \in G[S]
  <2>1. Max(S) \in S /\ S \ {Max(S)} \in SUBSET ps
    BY <1>1, <1>3, MaxIs, FS_Subset
  <2>2. PagesFreed(m, b, S \ {Max(S)}, R) /\ b \in Memories
    BY <1>3, <2>1
  <2> HIDE DEF G
  <2>3. CASE b.err
    <3>1. PagesFreed(m, b, S, R)
      BY <2>2, <2>3 DEF PagesFreed
    <3>2. QED
      BY <2>2, <2>3, <3>1 DEF G
  <2>4. CASE ~b.err
    <3> DEFINE c == FreePage(b, Max(S))
    <3>1. PagesFreed(m, c, (S \ {Max(S)}) \cup {Max(S)}, R)
      BY <2>1, <2>2, FreeRight
    <3>2. (S \ {Max(S)}) \cup {Max(S)} = S
      BY <2>1
    <3> HIDE DEF c
    <3>3. PagesFreed(m, c, S, R) /\ c \in Memories
      BY <3>1, <3>2 DEF PagesFreed, Sound
    <3>4. c \in G[S]
      BY <3>3 DEF G
    <3>5. QED
      BY <2>4, <3>4 DEF c
  <2>5. QED
    BY <2>3, <2>4
<1> HIDE DEF G
<1>4. Each(m, FreePage, ps) \in G[ps]
  BY <1>1, <1>2, <1>3, EachFree
<1>5. QED
  BY <1>4 DEF G

\* The whole of copy_pages into a new directory.
LEMMA CopiedRightly ==
    ASSUME UserMemAssumption, NEW R, NEW t, Parent(t, R), NEW m, Sound(m, R), ~m.err,
           \A g \in R : m.data[g] = data[g], \A k \in Table : m.dir[k] = 0
    PROVE  PagesCopied(t, m, copy_pages(m, t), Page, R)
<1> DEFINE G == [S \in SUBSET Page |-> {b \in Memories : PagesCopied(t, m, b, S, R)}]
<1>1. Page \in SUBSET Nat /\ IsFiniteSet(Page)
  BY DEF UserMemAssumption
<1>2. m \in G[{}]
  <2>1. \A p \in Page : m.tab[p] = None
    BY DEF Sound, UserMemAssumption
  <2>2. QED
    BY <2>1 DEF PagesCopied, Sound
<1>3. ASSUME NEW S \in SUBSET Page, S # {}, NEW b \in G[S \ {Max(S)}]
      PROVE  (IF b.err THEN b ELSE CopyPage(b, t, Max(S))) \in G[S]
  <2>1. Max(S) \in S /\ S \ {Max(S)} \in SUBSET Page
    BY <1>1, <1>3, MaxIs, FS_Subset
  <2>2. PagesCopied(t, m, b, S \ {Max(S)}, R) /\ b \in Memories
    BY <1>3, <2>1
  <2> HIDE DEF G
  <2>3. CASE b.err
    <3>1. PagesCopied(t, m, b, S, R)
      BY <2>2, <2>3 DEF PagesCopied
    <3>2. QED
      BY <2>2, <2>3, <3>1 DEF G
  <2>4. CASE ~b.err
    <3> DEFINE c == CopyPage(b, t, Max(S))
    <3>1. PagesCopied(t, m, c, (S \ {Max(S)}) \cup {Max(S)}, R)
      BY <2>1, <2>2, <2>4, CopyRight
    <3>2. (S \ {Max(S)}) \cup {Max(S)} = S
      BY <2>1
    <3> HIDE DEF c
    <3>3. PagesCopied(t, m, c, S, R) /\ c \in Memories
      BY <3>1, <3>2 DEF PagesCopied, Sound
    <3>4. c \in G[S]
      BY <3>3 DEF G
    <3>5. QED
      BY <2>4, <3>4 DEF c
  <2>5. QED
    BY <2>3, <2>4
<1> HIDE DEF G
<1> DEFINE d == copy_pages(m, t)
<1>4. d \in G[Page]
  BY <1>1, <1>2, <1>3, EachCopy
<1> HIDE DEF d
<1>5. PagesCopied(t, m, d, Page, R)
  BY <1>4 DEF G
<1>6. QED
  BY <1>5 DEF d

\* The bytes of a page are never those of no page.
LEMMA SeenIs ==
    ASSUME UserMemAssumption, NEW R, NEW m, Sound(m, R), NEW p \in Page
    PROVE  /\ ViewIn(m)[p] = NoPage <=> m.tab[p] = None
           /\ p \in OwnOf(m) => ViewIn(m)[p] # NoPage
<1>1. m.tab[p] \in Entry /\ m \in Memories
  BY DEF Sound, Memories
<1>2. NoPage \notin Contents /\ Zero # NoPage
  BY DEF Contents, NoPage, Zero, LdrData, ArgData, Junk, UserMemAssumption
<1>3. ASSUME m.tab[p] # None, ~m.tab[p].auto PROVE ViewIn(m)[p] # NoPage
  <2>1. m.tab[p].f \in Frame \cup Kernel
    BY <1>1, <1>3, EntryIs, EntryHas
  <2>2. m.data[m.tab[p].f] \in Contents
    BY <1>1, <2>1 DEF Memories
  <2>3. QED
    BY <1>2, <1>3, <2>2 DEF ViewIn
<1>4. p \in OwnOf(m) => m.tab[p] # None
  BY EntryHas DEF OwnOf
<1>5. QED
  BY <1>2, <1>3, <1>4 DEF ViewIn

\* u_alloc: the pages asked for are there, or nothing is seen of it.
Asked(m, c, ps, R) ==
    /\ Sound(c, R) /\ Counted(c)
    /\ c.data = m.data /\ OwnOf(c) = OwnOf(m)
    /\ c.err => c.tab = m.tab
    /\ ~c.err => /\ c.tab = [p \in Page |-> IF p \in ps /\ m.tab[p] = None THEN AutoPage ELSE m.tab[p]]
                 /\ \A p \in ps : c.dir[TableOf[p]] # 0

\* u_alloc marks all of the pages or none of them.
LEMMA u_allocRight ==
    ASSUME UserMemAssumption, NEW R, NEW m, Sound(m, R), Counted(m), NEW ps \in SUBSET Page
    PROVE  Asked(m, u_alloc(m, ps), ps, R)
<1> DEFINE ks == {TableOf[p] : p \in ps}
           b == Each(m, NewTable, ks)
           c == u_alloc(m, ps)
           tb == [p \in Page |-> IF p \in ps /\ b.tab[p] = None THEN AutoPage ELSE b.tab[p]]
<1>1. ks \in SUBSET Table
  <2>1. \A p \in ps : TableOf[p] \in Table
    BY DEF UserMemAssumption
  <2>2. QED
    BY <2>1
<1>2. c = IF b.err THEN b ELSE [b EXCEPT !.tab = tb]
  BY DEF u_alloc
<1>3. \A p \in ps : TableOf[p] \in ks
  OBVIOUS
<1> HIDE DEF ks
<1>4. TablesAsked(m, b, ks, R)
  BY <1>1, TablesRightly
<1> HIDE DEF b, c
<1>5. Sound(b, R) /\ Counted(b) /\ b.tab = m.tab /\ b.data = m.data /\ OwnOf(b) = OwnOf(m)
  BY <1>4, SameView DEF TablesAsked
<1>6. CASE b.err
  <2>1. Asked(m, c, ps, R)
    BY <1>2, <1>5, <1>6 DEF Asked
  <2>2. QED
    BY <2>1 DEF c
<1>7. CASE ~b.err
  <2>1. c = [b EXCEPT !.tab = tb]
    BY <1>2, <1>7
  <2>2. \A p \in Page : tb[p] = IF p \in ps /\ b.tab[p] = None THEN AutoPage ELSE b.tab[p]
    OBVIOUS
  <2>3. \A p \in Page : b.tab[p] \in Entry
    BY <1>5 DEF Sound, Memories
  <2>4. tb \in [Page -> Entry]
    BY <2>3, EntryHas
  <2>5. \A p \in ps : b.dir[TableOf[p]] # 0
    BY <1>3, <1>4, <1>7 DEF TablesAsked
  <2>6. tb = [p \in Page |-> IF p \in ps /\ m.tab[p] = None THEN AutoPage ELSE m.tab[p]]
    BY <1>5
  <2> HIDE DEF tb
  <2>7. \A p \in Page : \/ tb[p] = b.tab[p]
                        \/ /\ p \notin OwnOf(b)
                           /\ tb[p].f = 0 \/ tb[p].cow
                           /\ tb[p].cow => p \in LdrPages
                           /\ tb[p] # None => b.dir[TableOf[p]] # 0
    <3>1. ASSUME NEW p \in ps, b.tab[p] = None PROVE p \notin OwnOf(b) /\ tb[p] = AutoPage
      BY <2>2, <3>1, EntryHas DEF OwnOf
    <3>2. QED
      BY <2>2, <2>5, <3>1, EntryHas
  <2>8. /\ Sound(c, R) /\ OwnOf(c) = OwnOf(b) /\ TabsOf(c) = TabsOf(b)
        /\ c.tab = tb /\ c.dir = b.dir /\ c.err = b.err /\ c.data = b.data /\ c.n = b.n
    BY <1>5, <2>1, <2>4, <2>7, MarksChanged
  <2>9. Counted(c)
    BY <1>5, <2>8 DEF Counted
  <2>10. Asked(m, c, ps, R)
    BY <1>5, <1>7, <2>5, <2>6, <2>8, <2>9 DEF Asked
  <2>11. QED
    BY <2>10 DEF c
<1>8. QED
  BY <1>6, <1>7

\* tucpy: the bytes are there, or nothing is seen of it.
Put(m, c, ps, v, R) ==
    /\ Sound(c, R)
    /\ Counted(m) => Counted(c)
    /\ \A g \in R : c.data[g] = m.data[g]
    /\ c.err => ViewIn(c) = ViewIn(m)
    /\ ~c.err => /\ \A p \in ps : ViewIn(m)[p] # NoPage
                 /\ \A p \in Page : ViewIn(c)[p] = IF p \in ps THEN v ELSE ViewIn(m)[p]

\* tucpy writes all of the bytes or, when a page has no frame to get, none.
LEMMA tucpyRight ==
    ASSUME UserMemAssumption, NEW R, NEW m, Sound(m, R), NEW ps \in SUBSET Page, NEW v \in Contents
    PROVE  Put(m, tucpy(m, ps, v), ps, v, R)
<1> DEFINE b == Each(m, pg_uauto, ps)
           c == tucpy(m, ps, v)
<1>1. c = IF b.err THEN b ELSE Written(b, ps, v)
  BY DEF tucpy, Written
<1>2. PagesOwned(m, b, ps, R)
  BY OwnedRightly
<1> HIDE DEF b, c
<1>3. CASE b.err
  <2>1. Put(m, c, ps, v, R)
    BY <1>1, <1>2, <1>3 DEF Put, PagesOwned
  <2>2. QED
    BY <2>1 DEF c
<1>4. CASE ~b.err
  <2>1. /\ c = Written(b, ps, v)
        /\ Sound(b, R) /\ ps \in SUBSET OwnOf(b)
    BY <1>1, <1>2, <1>4 DEF PagesOwned
  <2>2. /\ Sound(c, R)
        /\ OwnOf(c) = OwnOf(b) /\ TabsOf(c) = TabsOf(b)
        /\ c.tab = b.tab /\ c.dir = b.dir /\ c.n = b.n /\ c.err = b.err
        /\ \A g \in R : c.data[g] = b.data[g]
        /\ \A p \in Page : ViewIn(c)[p] = IF p \in ps THEN v ELSE ViewIn(b)[p]
    BY <2>1, PagesWritten
  <2>3. Counted(b) => Counted(c)
    BY <2>2 DEF Counted
  <2>4. \A p \in ps : ViewIn(b)[p] # NoPage
    BY <2>1, SeenIs
  <2>5. Put(m, c, ps, v, R)
    BY <1>2, <1>4, <2>2, <2>3, <2>4 DEF Put, PagesOwned
  <2>6. QED
    BY <2>5 DEF c
<1>5. QED
  BY <1>3, <1>4

\* The loader's pages are the kernel's.
\* do_exec maps the loader's pages, which stay the kernel's.
LEMMA MapLoaderRight ==
    ASSUME UserMemAssumption, NEW R, NEW m, Sound(m, R), OwnOf(m) = {},
           \A p \in LdrPages : m.dir[TableOf[p]] # 0
    PROVE  /\ Sound(MapLoader(m), R)
           /\ Counted(m) => Counted(MapLoader(m))
           /\ MapLoader(m).data = m.data /\ MapLoader(m).err = m.err
           /\ \A p \in Page : ViewIn(MapLoader(m))[p] = IF p \in LdrPages THEN LdrData ELSE ViewIn(m)[p]
<1> DEFINE tb == [p \in Page |-> IF p \in LdrPages THEN Cow(LdrFrame[p]) ELSE m.tab[p]]
           c == MapLoader(m)
<1>1. c = [m EXCEPT !.tab = tb]
  BY DEF MapLoader
<1>2. \A p \in Page : tb[p] = IF p \in LdrPages THEN Cow(LdrFrame[p]) ELSE m.tab[p]
  OBVIOUS
<1>3. \A p \in LdrPages : /\ LdrFrame[p] \in Kernel /\ Cow(LdrFrame[p]) \in Entry
                          /\ Cow(LdrFrame[p]).cow /\ Cow(LdrFrame[p]).f = LdrFrame[p]
                          /\ ~Cow(LdrFrame[p]).auto /\ Cow(LdrFrame[p]) # None
  <2>1. \A p \in LdrPages : LdrFrame[p] \in Kernel
    BY DEF Kernel
  <2>2. \A p \in LdrPages : Cow(LdrFrame[p]) \in Entry
    BY <2>1 DEF Entry
  <2>3. \A f : Cow(f).cow /\ Cow(f).f = f /\ ~Cow(f).auto
    BY DEF Cow
  <2>4. QED
    BY <2>1, <2>2, <2>3, EntryHas
<1>4. \A p \in Page : m.tab[p] \in Entry
  BY DEF Sound, Memories
<1>5. tb \in [Page -> Entry]
  BY <1>3, <1>4
<1> HIDE DEF tb, c
<1>6. \A p \in Page : \/ tb[p] = m.tab[p]
                      \/ /\ p \notin OwnOf(m)
                         /\ tb[p].f = 0 \/ tb[p].cow
                         /\ tb[p].cow => p \in LdrPages
                         /\ tb[p] # None => m.dir[TableOf[p]] # 0
  BY <1>2, <1>3
<1>7. /\ Sound(c, R) /\ OwnOf(c) = OwnOf(m) /\ TabsOf(c) = TabsOf(m)
      /\ c.tab = tb /\ c.err = m.err /\ c.data = m.data /\ c.n = m.n
  BY <1>1, <1>5, <1>6, MarksChanged
<1>8. Counted(m) => Counted(c)
  BY <1>7 DEF Counted
<1>9. ASSUME NEW p \in Page PROVE ViewIn(c)[p] = IF p \in LdrPages THEN LdrData ELSE ViewIn(m)[p]
  <2>1. CASE p \in LdrPages
    <3>1. c.tab[p] = Cow(LdrFrame[p])
      BY <1>2, <1>7, <2>1
    <3>2. c.data[LdrFrame[p]] = LdrData
      BY <1>3, <1>7, <2>1 DEF Sound
    <3>3. QED
      BY <1>3, <2>1, <3>1, <3>2 DEF ViewIn
  <2>2. CASE p \notin LdrPages
    BY <1>2, <1>7, <2>2 DEF ViewIn
  <2>3. QED
    BY <2>1, <2>2
<1>10. QED
  BY <1>7, <1>8, <1>9 DEF c

\* The memory do_exec leaves.
ExecOf(t) ==
    LET stack == u_alloc(uclean(Mem(t)), Stack)
        ldr == IF stack.err THEN stack ELSE u_alloc(stack, LdrArea)
    IN  IF ldr.err THEN ldr ELSE tucpy(MapLoader(ldr), ArgPages, ArgData)

\* A new image, or a failure that loses nothing.
LEMMA ExecRight ==
    ASSUME UserMemAssumption, NEW R, NEW t, Sound(Mem(t), R)
    PROVE  /\ Sound(ExecOf(t), R) /\ Counted(ExecOf(t))
           /\ \A g \in R : ExecOf(t).data[g] = data[g]
           /\ ~ExecOf(t).err => ViewIn(ExecOf(t)) = NewImage
<1> DEFINE m == uclean(Mem(t))
           stack == u_alloc(m, Stack)
           ldr == IF stack.err THEN stack ELSE u_alloc(stack, LdrArea)
           c == IF ldr.err THEN ldr ELSE tucpy(MapLoader(ldr), ArgPages, ArgData)
<1>1. /\ Sound(m, R) /\ Counted(m) /\ OwnOf(m) = {}
      /\ \A p \in Page : m.tab[p] = None
      /\ \A g \in R : m.data[g] = data[g]
  <2>1. Emptied(Mem(t), m, R)
    BY MemoryDropped
  <2>2. Mem(t).data = data
    BY DEF Mem
  <2> HIDE DEF m
  <2>3. QED
    BY <2>1, <2>2 DEF Emptied
<1>2. ExecOf(t) = c
  BY DEF ExecOf
<1>3. /\ Stack \in SUBSET Page /\ LdrArea \in SUBSET Page /\ ArgPages \in SUBSET Page
      /\ Stack \cap LdrArea = {} /\ LdrPages \subseteq LdrArea /\ ArgPages \subseteq Stack
  BY DEF UserMemAssumption, LdrPages
<1> HIDE DEF m
<1>4. Asked(m, stack, Stack, R)
  BY <1>1, <1>3, u_allocRight
<1> HIDE DEF stack
<1>5. Sound(stack, R) /\ Counted(stack) /\ stack.data = m.data /\ OwnOf(stack) = {}
  BY <1>1, <1>4 DEF Asked
<1>6. CASE stack.err
  <2>1. c = stack /\ c.err
    BY <1>6
  <2> HIDE DEF c
  <2>2. QED
    BY <1>1, <1>2, <1>5, <2>1
<1>7. CASE ~stack.err
  <2>1. ldr = u_alloc(stack, LdrArea)
    BY <1>7
  <2> HIDE DEF ldr
  <2>2. Asked(stack, ldr, LdrArea, R)
    BY <1>3, <1>5, <2>1, u_allocRight
  <2>3. Sound(ldr, R) /\ Counted(ldr) /\ ldr.data = m.data /\ OwnOf(ldr) = {}
    BY <1>5, <2>2 DEF Asked
  <2>4. CASE ldr.err
    <3>1. c = ldr /\ c.err
      BY <2>4
    <3> HIDE DEF c
    <3>2. QED
      BY <1>1, <1>2, <2>3, <3>1
  <2>5. CASE ~ldr.err
    <3> DEFINE d == MapLoader(ldr)
    <3>1. c = tucpy(d, ArgPages, ArgData)
      BY <2>5
    <3>2. \A p \in LdrPages : ldr.dir[TableOf[p]] # 0
      BY <1>3, <2>2, <2>5 DEF Asked
    <3>3. /\ Sound(d, R) /\ Counted(d) /\ d.data = ldr.data
          /\ \A p \in Page : ViewIn(d)[p] = IF p \in LdrPages THEN LdrData ELSE ViewIn(ldr)[p]
      BY <2>3, <3>2, MapLoaderRight
    <3> HIDE DEF c, d
    <3>4. Put(d, c, ArgPages, ArgData, R)
      BY <1>3, <3>1, <3>3, tucpyRight DEF Contents
    <3>5. Sound(c, R) /\ Counted(c) /\ \A g \in R : c.data[g] = data[g]
      BY <1>1, <2>3, <3>3, <3>4 DEF Put
    <3>6. \A p \in Page : ldr.tab[p] = IF p \in Stack \cup LdrArea THEN AutoPage ELSE None
      BY <1>1, <1>3, <1>4, <1>7, <2>2, <2>5 DEF Asked
    <3>7. \A p \in Page : ViewIn(ldr)[p] = IF p \in Stack \cup LdrArea THEN Zero ELSE NoPage
      BY <3>6, EntryHas DEF ViewIn
    <3>8. ASSUME ~c.err PROVE ViewIn(c) = NewImage
      <4>1. \A p \in Page : ViewIn(c)[p] = IF p \in ArgPages THEN ArgData ELSE ViewIn(d)[p]
        BY <3>4, <3>8 DEF Put
      <4>2. \A p \in Page : ViewIn(c)[p] = NewImage[p]
        BY <3>3, <3>7, <4>1 DEF NewImage
      <4>3. QED
        BY <4>2 DEF ViewIn, NewImage
    <3>9. QED
      BY <1>2, <3>5, <3>8
  <2>6. QED
    BY <2>4, <2>5
<1>8. QED
  BY <1>6, <1>7

----
----------------------------------------------------------------------------
(* The memory of all tasks. *)

\* The frames of the tasks but one.
Rest(mm, t) == UNION {FramesOf(mm[u]) : u \in Task \ {t}}

\* Every task has its frames to itself, and all see the same free frames and bytes.
AllSound(mm) ==
    /\ \A t \in Task : Sound(mm[t], Rest(mm, t)) /\ mm[t].err = FALSE
    /\ \A t, u \in Task : mm[t].data = mm[u].data

\* One task's memory has become m.
After(mm, t, m) ==
    [u \in Task |-> IF u = t THEN [m EXCEPT !.err = FALSE]
                    ELSE [mm[u] EXCEPT !.free = m.free, !.data = m.data]]

\* Tables, pages and frames are those of the directory and the page table.
LEMMA SameMemory ==
    ASSUME NEW m, NEW b, b.dir = m.dir, b.tab = m.tab
    PROVE  /\ TabsOf(b) = TabsOf(m) /\ OwnOf(b) = OwnOf(m) /\ FramesOf(b) = FramesOf(m)
           /\ Apart(m) => Apart(b)
           /\ b.data = m.data => ViewIn(b) = ViewIn(m)
<1>1. TabsOf(b) = TabsOf(m) /\ OwnOf(b) = OwnOf(m)
  BY DEF TabsOf, OwnOf
<1>2. FramesOf(b) = FramesOf(m)
  BY <1>1 DEF FramesOf
<1>3. Apart(m) => Apart(b)
  BY <1>1 DEF Apart
<1>4. b.data = m.data => ViewIn(b) = ViewIn(m)
  BY DEF ViewIn
<1>5. QED
  BY <1>1, <1>2, <1>3, <1>4

\* What an operation does to one task, taking frames from the free ones only and
\* leaving the bytes of the others, keeps the memory of all the others.
LEMMA OthersKept ==
    ASSUME UserMemAssumption, NEW mm, AllSound(mm), NEW t \in Task, NEW m, Sound(m, Rest(mm, t)),
           \A g \in Rest(mm, t) : m.data[g] = mm[t].data[g]
    PROVE  /\ AllSound(After(mm, t, m))
           /\ ViewIn(After(mm, t, m)[t]) = ViewIn(m)
           /\ \A u \in Task : u # t => ViewIn(After(mm, t, m)[u]) = ViewIn(mm[u])
<1> DEFINE nn == After(mm, t, m)
<1>1. m \in Memories /\ \A u \in Task : mm[u] \in Memories
  BY DEF Sound, AllSound
<1>2. /\ nn[t].dir = m.dir /\ nn[t].tab = m.tab /\ nn[t].n = m.n /\ nn[t].err = FALSE
      /\ nn[t].free = m.free /\ nn[t].data = m.data /\ nn[t] \in Memories
  BY <1>1 DEF After, Memories
<1>3. ASSUME NEW u \in Task, u # t
      PROVE  /\ nn[u].dir = mm[u].dir /\ nn[u].tab = mm[u].tab /\ nn[u].n = mm[u].n
             /\ nn[u].free = m.free /\ nn[u].data = m.data /\ nn[u].err = FALSE /\ nn[u] \in Memories
  <2>1. nn[u] = [mm[u] EXCEPT !.free = m.free, !.data = m.data]
    BY <1>3 DEF After
  <2>2. mm[u] \in Memories /\ mm[u].err = FALSE
    BY <1>1 DEF AllSound
  <2> HIDE DEF nn
  <2>3. QED
    BY <1>1, <2>1, <2>2 DEF Memories
<1> HIDE DEF nn
<1>4. FramesOf(nn[t]) = FramesOf(m) /\ (Apart(m) => Apart(nn[t]))
  BY <1>2, SameMemory
<1>5. ASSUME NEW u \in Task, u # t
      PROVE  /\ FramesOf(nn[u]) = FramesOf(mm[u]) /\ (Apart(mm[u]) => Apart(nn[u]))
             /\ OwnOf(nn[u]) = OwnOf(mm[u])
  BY <1>3, <1>5, SameMemory
<1>6. Rest(nn, t) = Rest(mm, t)
  BY <1>5 DEF Rest
<1>7. Sound(nn[t], Rest(nn, t))
  BY <1>2, <1>4, <1>6 DEF Sound, Places
<1>8. ASSUME NEW u \in Task, u # t
      PROVE  Sound(nn[u], Rest(nn, u)) /\ ViewIn(nn[u]) = ViewIn(mm[u])
  <2> DEFINE O == UNION {FramesOf(mm[w]) : w \in Task \ {t, u}}
  <2>1. Rest(mm, t) = FramesOf(mm[u]) \cup O
    BY <1>8 DEF Rest
  <2>2. Rest(mm, u) = FramesOf(mm[t]) \cup O
    BY <1>8 DEF Rest
  <2>3. Rest(nn, u) = FramesOf(m) \cup O
    BY <1>4, <1>5, <1>8 DEF Rest
  <2> HIDE DEF O
  <2>4. Places(mm[u], Rest(mm, u)) /\ Places(m, Rest(mm, t))
    BY DEF AllSound, Sound
  <2>5. Apart(nn[u]) /\ FramesOf(nn[u]) = FramesOf(mm[u]) /\ nn[u].free = m.free
    BY <1>3, <1>5, <1>8, <2>4 DEF Places
  <2>6. Places(nn[u], Rest(nn, u))
    BY <2>1, <2>2, <2>3, <2>4, <2>5 DEF Places
  <2>7. Sound(nn[u], Rest(nn, u))
    <3>1. /\ \A p \in Page : mm[u].tab[p] # None => mm[u].dir[TableOf[p]] # 0
          /\ \A p \in Page : mm[u].tab[p].cow => p \in LdrPages
          /\ \A f \in Kernel : m.data[f] = LdrData
      BY DEF AllSound, Sound
    <3>2. QED
      BY <1>3, <1>8, <2>6, <3>1 DEF Sound
  <2>8. ASSUME NEW p \in Page PROVE ViewIn(nn[u])[p] = ViewIn(mm[u])[p]
    <3>1. mm[u].tab[p] \in Entry /\ nn[u].tab[p] = mm[u].tab[p] /\ nn[u].data = m.data
      BY <1>1, <1>3, <1>8 DEF Memories
    <3>2. CASE mm[u].tab[p].f = 0
      BY <3>1, <3>2, EntryIs, EntryHas DEF ViewIn
    <3>3. CASE mm[u].tab[p].f # 0
      <4> DEFINE f == mm[u].tab[p].f
      <4>1. m.data[f] = mm[u].data[f]
        <5>1. CASE mm[u].tab[p].cow
          <6>1. f \in Kernel
            BY <3>1, <5>1, EntryIs
          <6>2. QED
            BY <6>1 DEF AllSound, Sound
        <5>2. CASE ~mm[u].tab[p].cow
          <6>1. f \in FramesOf(mm[u])
            BY <3>3, <5>2 DEF FramesOf, OwnOf
          <6>2. m.data[f] = mm[t].data[f]
            BY <2>1, <6>1
          <6>3. mm[t].data = mm[u].data
            BY DEF AllSound
          <6>4. QED
            BY <6>2, <6>3
        <5>3. QED
          BY <5>1, <5>2
      <4>2. QED
        BY <3>1, <4>1 DEF ViewIn
    <3>4. QED
      BY <3>2, <3>3
  <2>9. ViewIn(nn[u]) = ViewIn(mm[u])
    BY <2>8 DEF ViewIn
  <2>10. QED
    BY <2>7, <2>9
<1>9. \A u \in Task : nn[u].err = FALSE /\ nn[u].data = m.data
  BY <1>2, <1>3
<1>10. AllSound(nn)
  BY <1>7, <1>8, <1>9 DEF AllSound
<1>11. ViewIn(nn[t]) = ViewIn(m)
  BY <1>2 DEF ViewIn
<1>12. QED
  BY <1>8, <1>10, <1>11 DEF nn

----
----------------------------------------------------------------------------
(* The steps. *)

\* Every task's memory, and that of a task that has none.
Memo == [t \in Task |-> Mem(t)]
Gone == [p \in Page |-> NoPage]

\* The inductive invariant.
UserInv ==
    /\ UserTypes
    /\ AllSound(Memo)
    /\ Task = {} => free = Frame
    /\ \A t \in Task : st[t] \in {"none", "new"} => TabsOf(Memo[t]) = {}
    /\ \A t \in Task : st[t] = "run" => Counted(Memo[t])

\* What an operation may make of a task's memory.
Good(t, m) ==
    /\ Sound(m, Rest(Memo, t))
    /\ \A g \in Rest(Memo, t) : m.data[g] = data[g]
    /\ m.n \in Nat

\* And what the task is then.
Becomes(s, t, m) ==
    /\ s \in [Task -> {"none", "new", "run", "doomed"}]
    /\ \A u \in Task : u # t => s[u] = st[u]
    /\ s[t] \in {"none", "new"} => TabsOf(m) = {}
    /\ s[t] = "run" => Counted(m)

\* SetMem sets one memory, and the free frames and the bytes for all.
LEMMA MemSet ==
    ASSUME UserInv, NEW t \in Task, NEW m, Sound(m, Rest(Memo, t)), SetMem(t, m)
    PROVE  Memo' = After(Memo, t, m)
<1>1. /\ pg_dir \in [Task -> [Table -> Frame \cup {0}]]
      /\ pg_tab \in [Task -> [Page -> Entry]]
      /\ pg_count \in [Task -> Nat]
  BY DEF UserInv, UserTypes
<1>2. m = [dir |-> m.dir, tab |-> m.tab, n |-> m.n, free |-> m.free, data |-> m.data, err |-> m.err]
  BY DEF Sound, Memories
<1>3. ASSUME NEW u \in Task PROVE Mem(u)' = After(Memo, t, m)[u]
  <2>1. Mem(u)' = [dir |-> pg_dir'[u], tab |-> pg_tab'[u], n |-> pg_count'[u], free |-> free',
                   data |-> data', err |-> FALSE]
    BY DEF Mem
  <2>2. CASE u = t
    <3>1. Mem(u)' = [dir |-> m.dir, tab |-> m.tab, n |-> m.n, free |-> m.free, data |-> m.data,
                     err |-> FALSE]
      BY <1>1, <2>1, <2>2 DEF SetMem
    <3>2. After(Memo, t, m)[u] = [m EXCEPT !.err = FALSE]
      BY <2>2 DEF After
    <3>3. QED
      BY <1>2, <3>1, <3>2
  <2>3. CASE u # t
    <3>1. Mem(u)' = [dir |-> pg_dir[u], tab |-> pg_tab[u], n |-> pg_count[u], free |-> m.free,
                     data |-> m.data, err |-> FALSE]
      BY <1>1, <2>1, <2>3 DEF SetMem
    <3>2. After(Memo, t, m)[u] = [Mem(u) EXCEPT !.free = m.free, !.data = m.data]
      BY <2>3 DEF After, Memo
    <3>3. QED
      BY <3>1, <3>2 DEF Mem
  <2>4. QED
    BY <2>2, <2>3
<1>4. QED
  BY <1>3 DEF Memo, After

\* What a task that runs sees, by its memory.
LEMMA ViewIs ==
    ASSUME NEW t \in Task
    PROVE  View(t) = IF st[t] = "run" THEN ViewIn(Memo[t]) ELSE Gone
<1>1. Memo[t].tab = pg_tab[t] /\ Memo[t].data = data
  BY DEF Memo, Mem
<1>2. QED
  BY <1>1 DEF View, ViewIn, Gone

\* An operation on one task's memory is seen in that task only.
LEMMA ViewsAre ==
    ASSUME UserInv, NEW t \in Task, NEW m, Good(t, m), SetMem(t, m), Becomes(st', t, m),
           UserMemAssumption
    PROVE  Seen' = [Seen EXCEPT ![t] = IF st'[t] = "run" THEN ViewIn(m) ELSE Gone]
<1>1. Memo' = After(Memo, t, m)
  BY MemSet DEF Good
<1>2. /\ ViewIn(After(Memo, t, m)[t]) = ViewIn(m)
      /\ \A u \in Task : u # t => ViewIn(After(Memo, t, m)[u]) = ViewIn(Memo[u])
  <2>1. \A g \in Rest(Memo, t) : m.data[g] = Memo[t].data[g]
    BY DEF Good, Memo, Mem
  <2>2. QED
    BY <2>1, OthersKept DEF Good, UserInv
<1>3. ASSUME NEW u \in Task PROVE View(u)' = IF st'[u] = "run" THEN ViewIn(Memo'[u]) ELSE Gone
  <2>1. Memo'[u].tab = pg_tab'[u] /\ Memo'[u].data = data'
    BY DEF Memo, Mem
  <2>2. QED
    BY <2>1 DEF View, ViewIn, Gone
<1>4. \A u \in Task : u # t => View(u)' = View(u)
  BY <1>1, <1>2, <1>3, ViewIs DEF Becomes
<1>5. View(t)' = IF st'[t] = "run" THEN ViewIn(m) ELSE Gone
  BY <1>1, <1>2, <1>3
<1>6. QED
  BY <1>4, <1>5 DEF Seen

\* And keeps the invariant.
LEMMA InvKept ==
    ASSUME UserInv, NEW t \in Task, NEW m, Good(t, m), SetMem(t, m), Becomes(st', t, m),
           UserMemAssumption
    PROVE  UserInv'
<1>1. Memo' = After(Memo, t, m)
  BY MemSet DEF Good
<1>2. AllSound(After(Memo, t, m))
  <2>1. \A g \in Rest(Memo, t) : m.data[g] = Memo[t].data[g]
    BY DEF Good, Memo, Mem
  <2>2. QED
    BY <2>1, OthersKept DEF Good, UserInv
<1>3. AllSound(Memo')
  BY <1>1, <1>2
<1>4. UserTypes'
  <2>1. m \in Memories /\ m.n \in Nat
    BY DEF Good, Sound
  <2>2. /\ pg_dir' \in [Task -> [Table -> Frame \cup {0}]]
        /\ pg_tab' \in [Task -> [Page -> Entry]]
        /\ pg_count' \in [Task -> Nat]
        /\ free' \in SUBSET Frame
        /\ data' \in [Frame \cup Kernel -> Contents]
    BY <2>1 DEF UserInv, UserTypes, SetMem, Memories
  <2>3. QED
    BY <2>2 DEF UserTypes, Becomes, Contents
<1>5. ASSUME NEW u \in Task
      PROVE  /\ st'[u] \in {"none", "new"} => TabsOf(Memo'[u]) = {}
             /\ st'[u] = "run" => Counted(Memo'[u])
  <2>1. CASE u = t
    <3>1. Memo'[u].dir = m.dir /\ Memo'[u].tab = m.tab /\ Memo'[u].n = m.n
      BY <1>1, <2>1 DEF After, Good, Sound, Memories
    <3>2. TabsOf(Memo'[u]) = TabsOf(m) /\ OwnOf(Memo'[u]) = OwnOf(m)
      BY <3>1, SameMemory
    <3>3. QED
      BY <2>1, <3>1, <3>2 DEF Becomes, Counted
  <2>2. CASE u # t
    <3>1. Memo'[u] = [Memo[u] EXCEPT !.free = m.free, !.data = m.data]
      BY <1>1, <2>2 DEF After
    <3>2. Memo[u] \in Memories
      BY DEF UserInv, AllSound, Sound
    <3>3. Memo'[u].dir = Memo[u].dir /\ Memo'[u].tab = Memo[u].tab /\ Memo'[u].n = Memo[u].n
      BY <3>1, <3>2 DEF Memories
    <3>4. TabsOf(Memo'[u]) = TabsOf(Memo[u]) /\ OwnOf(Memo'[u]) = OwnOf(Memo[u])
      BY <3>3, SameMemory
    <3>5. QED
      BY <2>2, <3>3, <3>4 DEF UserInv, Becomes, Counted
  <2>3. QED
    BY <2>1, <2>2
<1>6. QED
  BY <1>3, <1>4, <1>5 DEF UserInv

\* The memory of a task as the invariant has it.
LEMMA Standing ==
    ASSUME UserMemAssumption, UserInv, NEW t \in Task
    PROVE  /\ Sound(Mem(t), Rest(Memo, t)) /\ Good(t, Mem(t)) /\ ~Mem(t).err
           /\ Mem(t).data = data /\ Mem(t).tab = pg_tab[t] /\ Mem(t).dir = pg_dir[t]
           /\ Mem(t).n = pg_count[t] /\ Memo[t] = Mem(t) /\ st \in [Task -> {"none", "new", "run", "doomed"}]
           /\ st[t] = "run" => Counted(Mem(t)) /\ View(t) = ViewIn(Mem(t))
           /\ st[t] # "run" => View(t) = Gone
           /\ st[t] \in {"none", "new"} => TabsOf(Mem(t)) = {}
<1>1. /\ Memo[t] = Mem(t) /\ Mem(t).data = data /\ ~Mem(t).err
      /\ Mem(t).tab = pg_tab[t] /\ Mem(t).dir = pg_dir[t] /\ Mem(t).n = pg_count[t]
  BY DEF Memo, Mem
<1>2. Sound(Mem(t), Rest(Memo, t))
  BY <1>1 DEF UserInv, AllSound
<1>3. Good(t, Mem(t))
  BY <1>1, <1>2 DEF Good, UserInv, UserTypes
<1>4. View(t) = IF st[t] = "run" THEN ViewIn(Mem(t)) ELSE Gone
  BY <1>1, ViewIs
<1>5. /\ st[t] = "run" => Counted(Mem(t))
      /\ st[t] \in {"none", "new"} => TabsOf(Mem(t)) = {}
      /\ st \in [Task -> {"none", "new", "run", "doomed"}]
  BY <1>1 DEF UserInv, UserTypes
<1>6. QED
  BY <1>1, <1>2, <1>3, <1>4, <1>5

\* A run of pages is a set of them.
LEMMA RunsAre == ASSUME NEW S, NEW ps \in Runs(S) PROVE ps \in SUBSET S
BY DEF Runs

\* What is seen of a step.
Shown(t, w) == Seen' = [Seen EXCEPT ![t] = w]
\* What an address space may do.
Promised == [Memory!Next]_(Memory!vars)

\* A step no program sees.
LEMMA NothingShown ==
    ASSUME UserMemAssumption, UserInv, NEW t \in Task, Shown(t, View(t)) PROVE Promised
<1>1. Seen = [u \in Task |-> View(u)]
  BY DEF Seen
<1>2. Seen' = Seen
  BY <1>1 DEF Shown
<1>3. QED
  BY <1>2 DEF Promised, Memory!vars

\* A step that shows a new image (do_exec).
LEMMA BeginShown == ASSUME NEW t \in Task, Shown(t, NewImage) PROVE Promised
BY DEF Shown, Promised, Memory!Next, Memory!Begins

\* A step that ends a task, or dooms it.
LEMMA EndShown == ASSUME NEW t \in Task, Shown(t, Gone) PROVE Promised
BY DEF Shown, Promised, Memory!Next, Memory!Ends, Memory!Gone, Gone

\* A step that shows zeroes where there was no page (sys__pg_alloc).
LEMMA ObtainShown ==
    ASSUME NEW t \in Task, NEW ps \in SUBSET Page, NEW w,
           w = [p \in Page |-> IF p \in ps /\ View(t)[p] = NoPage THEN Zero ELSE View(t)[p]],
           Shown(t, w)
    PROVE  Promised
<1>1. Seen[t] = View(t)
  BY DEF Seen
<1>2. w = [p \in Page |-> IF p \in ps \ Memory!Has(t) THEN Zero ELSE Seen[t][p]]
  BY <1>1 DEF Memory!Has
<1>3. Memory!Obtains(t, ps)
  BY <1>2 DEF Shown, Memory!Obtains
<1>4. QED
  BY <1>3 DEF Promised, Memory!Next

\* A step that takes pages away (sys__pg_free).
LEMMA DiscardShown ==
    ASSUME NEW t \in Task, NEW w, w = [p \in Page |-> w[p]],
           \A p \in Page : w[p] = View(t)[p] \/ w[p] = NoPage, Shown(t, w)
    PROVE  Promised
<1> DEFINE ps == {p \in Page : w[p] = NoPage}
<1>1. Seen[t] = View(t)
  BY DEF Seen
<1>2. \A p \in Page : w[p] = IF p \in ps THEN NoPage ELSE Seen[t][p]
  BY <1>1
<1>3. w = [p \in Page |-> IF p \in ps THEN NoPage ELSE Seen[t][p]]
  BY <1>2
<1>4. ps \in SUBSET Page
  OBVIOUS
<1> HIDE DEF ps
<1>5. Memory!Discards(t, ps)
  BY <1>3 DEF Shown, Memory!Discards
<1>6. QED
  BY <1>4, <1>5 DEF Promised, Memory!Next

\* A step that writes to pages that are there.
LEMMA WriteShown ==
    ASSUME NEW t \in Task, NEW ps \in SUBSET Page, NEW v \in Values, NEW w,
           \A p \in ps : View(t)[p] # NoPage,
           w = [p \in Page |-> IF p \in ps THEN v ELSE View(t)[p]],
           Shown(t, w)
    PROVE  Promised
<1>1. Seen[t] = View(t)
  BY DEF Seen
<1>2. ps \subseteq Memory!Has(t)
  BY <1>1 DEF Memory!Has
<1>3. Memory!Writes(t, ps, v)
  BY <1>1, <1>2 DEF Shown, Memory!Writes
<1>4. QED
  BY <1>3 DEF Promised, Memory!Next

\* A step that shows a new task its parent's memory.
LEMMA ForkShown ==
    ASSUME NEW t \in Task, NEW c \in Task \ {t}, View(c) = Gone, Shown(c, View(t)) PROVE Promised
<1>1. Seen[t] = View(t) /\ Seen[c] = View(c)
  BY DEF Seen
<1>2. Memory!Forks(t, c)
  BY <1>1 DEF Shown, Memory!Forks, Memory!Gone, Gone
<1>3. QED
  BY <1>2 DEF Promised, Memory!Next

\* What is left of a step on one task's memory: what it then sees.
LEMMA Worked ==
    ASSUME UserMemAssumption, UserInv, NEW t \in Task, NEW m, Good(t, m), SetMem(t, m),
           Becomes(st', t, m)
    PROVE  UserInv' /\ Shown(t, IF st'[t] = "run" THEN ViewIn(m) ELSE Gone)
BY InvKept, ViewsAre DEF Shown

\* Where only the task's state changes.
LEMMA MemSame ==
    ASSUME UserMemAssumption, UserInv, NEW t \in Task,
           UNCHANGED <<pg_dir, pg_tab, pg_count, free, data>>
    PROVE  SetMem(t, Mem(t))
BY DEF SetMem, Mem, UserInv, UserTypes

\* task_creat.
LEMMA CreatRight ==
    ASSUME UserMemAssumption, UserInv, NEW t \in Task, Creat(t) PROVE UserInv' /\ Promised
<1>1. SetMem(t, Mem(t))
  BY MemSame DEF Creat
<1>2. Becomes(st', t, Mem(t)) /\ st'[t] = "new" /\ View(t) = Gone
  BY Standing DEF Creat, Becomes
<1>3. UserInv' /\ Shown(t, Gone)
  BY <1>1, <1>2, Standing, Worked
<1>4. QED
  BY <1>3, EndShown

\* A fatal signal.
LEMMA KillRight ==
    ASSUME UserMemAssumption, UserInv, NEW t \in Task, Kill(t) PROVE UserInv' /\ Promised
<1>1. SetMem(t, Mem(t))
  BY MemSame DEF Kill
<1>2. Becomes(st', t, Mem(t)) /\ st'[t] = "doomed"
  BY Standing DEF Kill, Becomes
<1>3. UserInv' /\ Shown(t, Gone)
  BY <1>1, <1>2, Standing, Worked
<1>4. QED
  BY <1>3, EndShown

\* task_exit gives back every frame of the task.
LEMMA ExitRight ==
    ASSUME UserMemAssumption, UserInv, NEW t \in Task, Exit(t) PROVE UserInv' /\ Promised
<1> DEFINE m == uclean(Mem(t))
<1>1. Emptied(Mem(t), m, Rest(Memo, t))
  BY Standing, MemoryDropped
<1>2. SetMem(t, m) /\ st' = [st EXCEPT ![t] = "none"]
  BY DEF Exit
<1> HIDE DEF m
<1>3. Good(t, m) /\ TabsOf(m) = {}
  BY <1>1, Standing DEF Emptied, Good
<1>4. Becomes(st', t, m) /\ st'[t] = "none"
  BY <1>2, <1>3, Standing DEF Becomes
<1>5. UserInv' /\ Shown(t, Gone)
  BY <1>2, <1>3, <1>4, Worked
<1>6. QED
  BY <1>5, EndShown

\* A count that is at least that of the pages of the heap is no less than 0.
LEMMA CountIs ==
    ASSUME UserMemAssumption, NEW R, NEW m, Sound(m, R), Counted(m) PROVE m.n \in Nat
<1>1. m.n \in Int /\ Cardinality(OwnOf(m) \cap Heap) \in Nat
  BY Finite DEF Sound, Memories
<1>2. QED
  BY <1>1 DEF Counted

\* do_exec: the old image is gone in any case, and the new one is there or the task
\* is doomed.
LEMMA do_execRight ==
    ASSUME UserMemAssumption, UserInv, NEW t \in Task, NEW found \in BOOLEAN, do_exec(t, found)
    PROVE  UserInv' /\ Promised
<1> DEFINE m == ExecOf(t)
<1>1. /\ Sound(m, Rest(Memo, t)) /\ Counted(m)
      /\ \A g \in Rest(Memo, t) : m.data[g] = data[g]
      /\ ~m.err => ViewIn(m) = NewImage
  BY Standing, ExecRight
<1>2. SetMem(t, m) /\ st' = [st EXCEPT ![t] = IF m.err \/ ~found THEN "doomed" ELSE "run"]
  BY DEF do_exec, ExecOf
<1> HIDE DEF m
<1>3. Good(t, m)
  BY <1>1, CountIs DEF Good
<1>4. Becomes(st', t, m) /\ st'[t] = IF m.err \/ ~found THEN "doomed" ELSE "run"
  BY <1>1, <1>2, Standing DEF Becomes
<1>5. UserInv' /\ Shown(t, IF st'[t] = "run" THEN ViewIn(m) ELSE Gone)
  BY <1>2, <1>3, <1>4, Worked
<1>6. CASE st'[t] = "run"
  BY <1>1, <1>4, <1>5, <1>6, BeginShown
<1>7. CASE st'[t] # "run"
  BY <1>5, <1>7, EndShown
<1>8. QED
  BY <1>6, <1>7

\* sys__pg_alloc.
LEMMA PgAllocRight ==
    ASSUME UserMemAssumption, UserInv, NEW t \in Task, NEW ps \in SUBSET Heap, PgAlloc(t, ps)
    PROVE  UserInv' /\ Promised
<1> DEFINE m == u_alloc(Mem(t), ps)
<1>1. ps \in SUBSET Page
  BY DEF UserMemAssumption
<1>2. Asked(Mem(t), m, ps, Rest(Memo, t))
  BY <1>1, Standing, u_allocRight DEF PgAlloc
<1>3. SetMem(t, m) /\ UNCHANGED st /\ st[t] = "run"
  BY DEF PgAlloc
<1> HIDE DEF m
<1>4. Sound(m, Rest(Memo, t)) /\ Counted(m) /\ m.data = data
  BY <1>2, Standing DEF Asked
<1>5. Good(t, m)
  BY <1>4, CountIs DEF Good
<1>6. Becomes(st', t, m)
  BY <1>3, <1>4, Standing DEF Becomes
<1>7. UserInv' /\ Shown(t, ViewIn(m))
  BY <1>3, <1>5, <1>6, Worked
<1>8. View(t) = ViewIn(Mem(t)) /\ Mem(t).data = data /\ Sound(Mem(t), Rest(Memo, t))
  BY <1>3, Standing
<1>9. CASE m.err
  <2>1. ViewIn(m) = ViewIn(Mem(t))
    BY <1>2, <1>4, <1>8, <1>9, SameView DEF Asked
  <2>2. QED
    BY <1>7, <1>8, <2>1, NothingShown
<1>10. CASE ~m.err
  <2>1. \A p \in Page : m.tab[p] = IF p \in ps /\ Mem(t).tab[p] = None THEN AutoPage ELSE Mem(t).tab[p]
    BY <1>2, <1>10 DEF Asked
  <2>2. \A p \in Page : View(t)[p] = NoPage <=> Mem(t).tab[p] = None
    BY <1>8, SeenIs
  <2>3. ASSUME NEW p \in Page
        PROVE  ViewIn(m)[p] = IF p \in ps /\ View(t)[p] = NoPage THEN Zero ELSE View(t)[p]
    <3>1. CASE p \in ps /\ Mem(t).tab[p] = None
      BY <2>1, <2>2, <3>1, EntryHas DEF ViewIn
    <3>2. CASE ~(p \in ps /\ Mem(t).tab[p] = None)
      <4>1. m.tab[p] = Mem(t).tab[p]
        BY <2>1, <3>2
      <4>2. ViewIn(m)[p] = ViewIn(Mem(t))[p]
        BY <1>4, <1>8, <4>1 DEF ViewIn
      <4>3. QED
        BY <1>8, <2>2, <3>2, <4>2
    <3>3. QED
      BY <3>1, <3>2
  <2>4. ViewIn(m) = [p \in Page |-> IF p \in ps /\ View(t)[p] = NoPage THEN Zero ELSE View(t)[p]]
    BY <2>3 DEF ViewIn
  <2>5. QED
    BY <1>1, <1>7, <2>4, ObtainShown
<1>11. QED
  BY <1>9, <1>10

\* sys__pg_free.
LEMMA PgFreeRight ==
    ASSUME UserMemAssumption, UserInv, NEW t \in Task, NEW ps \in SUBSET Heap, PgFree(t, ps)
    PROVE  UserInv' /\ Promised
<1> DEFINE m == Each(Mem(t), FreePage, ps)
<1>1. PagesFreed(Mem(t), m, ps, Rest(Memo, t))
  BY Standing, FreedRightly
<1>2. SetMem(t, m) /\ UNCHANGED st /\ st[t] = "run"
  BY DEF PgFree
<1> HIDE DEF m
<1>3. /\ Sound(m, Rest(Memo, t)) /\ Counted(m)
      /\ \A g \in Rest(Memo, t) : m.data[g] = data[g]
      /\ \A p \in Page : ViewIn(m)[p] = View(t)[p] \/ ViewIn(m)[p] = NoPage
  BY <1>1, <1>2, Standing DEF PagesFreed
<1>4. Good(t, m)
  BY <1>3, CountIs DEF Good
<1>5. Becomes(st', t, m)
  BY <1>2, <1>3, Standing DEF Becomes
<1>6. UserInv' /\ Shown(t, ViewIn(m))
  BY <1>2, <1>4, <1>5, Worked
<1>7. ViewIn(m) = [p \in Page |-> ViewIn(m)[p]]
  BY DEF ViewIn
<1>8. QED
  BY <1>3, <1>6, <1>7, DiscardShown

\* A write to ps as its task sees it: all of it, or nothing.
WroteAs(t, m, ps, v) ==
    /\ m.err => ViewIn(m) = View(t)
    /\ ~m.err => /\ \A p \in ps : View(t)[p] # NoPage
                 /\ ViewIn(m) = [p \in Page |-> IF p \in ps THEN v ELSE View(t)[p]]

\* tucpy on the memory of a task that runs.
LEMMA PutGood ==
    ASSUME UserMemAssumption, UserInv, NEW t \in Task, st[t] = "run",
           NEW ps \in SUBSET Page, NEW v \in Values, NEW m, m = tucpy(Mem(t), ps, v)
    PROVE  Good(t, m) /\ Counted(m) /\ WroteAs(t, m, ps, v)
<1>1. v \in Contents
  BY DEF Contents
<1>2. Put(Mem(t), m, ps, v, Rest(Memo, t))
  BY <1>1, Standing, tucpyRight
<1>3. Sound(m, Rest(Memo, t)) /\ Counted(m) /\ \A g \in Rest(Memo, t) : m.data[g] = data[g]
  BY <1>2, Standing DEF Put
<1>4. Good(t, m)
  BY <1>3, CountIs DEF Good
<1>5. View(t) = ViewIn(Mem(t))
  BY Standing
<1>6. m.err => ViewIn(m) = View(t)
  BY <1>2, <1>5 DEF Put
<1>7. ASSUME ~m.err
      PROVE  /\ \A p \in ps : View(t)[p] # NoPage
             /\ ViewIn(m) = [p \in Page |-> IF p \in ps THEN v ELSE View(t)[p]]
  <2>1. /\ \A p \in ps : View(t)[p] # NoPage
        /\ \A p \in Page : ViewIn(m)[p] = IF p \in ps THEN v ELSE View(t)[p]
    BY <1>2, <1>5, <1>7 DEF Put
  <2>2. QED
    BY <2>1 DEF ViewIn
<1>8. QED
  BY <1>3, <1>4, <1>6, <1>7 DEF WroteAs

\* A program writes to a page, or is killed for it (pg_fault).
LEMMA WritesRight ==
    ASSUME UserMemAssumption, UserInv, NEW t \in Task, NEW p \in Page, NEW v \in Values,
           Writes(t, p, v)
    PROVE  UserInv' /\ Promised
<1> DEFINE m == tucpy(Mem(t), {p}, v)
<1>1. SetMem(t, m) /\ st[t] = "run" /\ st' = [st EXCEPT ![t] = IF m.err THEN "doomed" ELSE "run"]
  BY DEF Writes
<1>2. m = tucpy(Mem(t), {p}, v) /\ {p} \in SUBSET Page
  OBVIOUS
<1> HIDE DEF m
<1>3. Good(t, m) /\ Counted(m) /\ WroteAs(t, m, {p}, v)
  BY <1>1, <1>2, PutGood
<1>4. Becomes(st', t, m) /\ st'[t] = IF m.err THEN "doomed" ELSE "run"
  BY <1>1, <1>3, Standing DEF Becomes
<1>5. UserInv' /\ Shown(t, IF st'[t] = "run" THEN ViewIn(m) ELSE Gone)
  BY <1>1, <1>3, <1>4, Worked
<1>6. CASE m.err
  BY <1>4, <1>5, <1>6, EndShown
<1>7. CASE ~m.err
  <2>1. Shown(t, ViewIn(m))
    BY <1>4, <1>5, <1>7
  <2>2. QED
    BY <1>2, <1>3, <1>5, <1>7, <2>1, WriteShown DEF WroteAs
<1>8. QED
  BY <1>6, <1>7

\* The kernel writes to a program's buffer (tucpy).
LEMMA KernelWritesRight ==
    ASSUME UserMemAssumption, UserInv, NEW t \in Task, NEW ps \in SUBSET Page, NEW v \in Values,
           KernelWrites(t, ps, v)
    PROVE  UserInv' /\ Promised
<1> DEFINE m == tucpy(Mem(t), ps, v)
<1>1. SetMem(t, m) /\ st[t] = "run" /\ st' = st
  BY DEF KernelWrites
<1>2. m = tucpy(Mem(t), ps, v)
  OBVIOUS
<1> HIDE DEF m
<1>3. Good(t, m) /\ Counted(m) /\ WroteAs(t, m, ps, v)
  BY <1>1, <1>2, PutGood
<1>4. Becomes(st', t, m)
  BY <1>1, <1>3, Standing DEF Becomes
<1>5. UserInv' /\ Shown(t, ViewIn(m))
  BY <1>1, <1>3, <1>4, Worked
<1>6. CASE m.err
  BY <1>3, <1>5, <1>6, NothingShown DEF WroteAs
<1>7. CASE ~m.err
  BY <1>3, <1>5, <1>7, WriteShown DEF WroteAs
<1>8. QED
  BY <1>6, <1>7

\* pg_uauto on the memory of a task that runs.
LEMMA OwnedGood ==
    ASSUME UserMemAssumption, UserInv, NEW t \in Task, st[t] = "run",
           NEW S \in SUBSET Page, NEW m, PagesOwned(Mem(t), m, S, Rest(Memo, t))
    PROVE  Good(t, m) /\ Counted(m) /\ ViewIn(m) = View(t)
<1>1. /\ Sound(m, Rest(Memo, t)) /\ Counted(m) /\ \A g \in Rest(Memo, t) : m.data[g] = data[g]
      /\ ViewIn(m) = View(t)
  BY Standing DEF PagesOwned
<1>2. QED
  BY <1>1, CountIs DEF Good

\* A program reads a page that has no frame, or is killed for it (pg_fault).
LEMMA ReadsRight ==
    ASSUME UserMemAssumption, UserInv, NEW t \in Task, NEW p \in Page, Reads(t, p)
    PROVE  UserInv' /\ Promised
<1> DEFINE m == pg_uauto(Mem(t), p)
<1>1. SetMem(t, m) /\ st[t] = "run" /\ st' = [st EXCEPT ![t] = IF m.err THEN "doomed" ELSE "run"]
  BY DEF Reads
<1>2. PagesOwned(Mem(t), m, {} \cup {p}, Rest(Memo, t))
  <2>1. PagesOwned(Mem(t), Mem(t), {}, Rest(Memo, t))
    BY Standing DEF PagesOwned
  <2>2. QED
    BY <2>1, AutoRight
<1> HIDE DEF m
<1>3. Good(t, m) /\ Counted(m) /\ ViewIn(m) = View(t)
  BY <1>1, <1>2, OwnedGood
<1>4. Becomes(st', t, m) /\ st'[t] = IF m.err THEN "doomed" ELSE "run"
  BY <1>1, <1>3, Standing DEF Becomes
<1>5. UserInv' /\ Shown(t, IF st'[t] = "run" THEN ViewIn(m) ELSE Gone)
  BY <1>1, <1>3, <1>4, Worked
<1>6. CASE m.err
  BY <1>4, <1>5, <1>6, EndShown
<1>7. CASE ~m.err
  BY <1>3, <1>4, <1>5, <1>7, NothingShown
<1>8. QED
  BY <1>6, <1>7

\* The kernel reads a program's buffer (fucpy).
LEMMA KernelReadsRight ==
    ASSUME UserMemAssumption, UserInv, NEW t \in Task, NEW ps \in SUBSET Page, KernelReads(t, ps)
    PROVE  UserInv' /\ Promised
<1> DEFINE m == Each(Mem(t), pg_uauto, ps)
<1>1. SetMem(t, m) /\ st[t] = "run" /\ st' = st
  BY DEF KernelReads
<1>2. PagesOwned(Mem(t), m, ps, Rest(Memo, t))
  BY Standing, OwnedRightly
<1> HIDE DEF m
<1>3. Good(t, m) /\ Counted(m) /\ ViewIn(m) = View(t)
  BY <1>1, <1>2, OwnedGood
<1>4. Becomes(st', t, m)
  BY <1>1, <1>3, Standing DEF Becomes
<1>5. UserInv' /\ Shown(t, ViewIn(m))
  BY <1>1, <1>3, <1>4, Worked
<1>6. QED
  BY <1>3, <1>5, NothingShown

\* do_fork: the child has all its parent has, or is doomed and what it has got can be
\* given back.
LEMMA ForkRight ==
    ASSUME UserMemAssumption, UserInv, NEW t \in Task, NEW c \in Task \ {t}, Fork(t, c)
    PROVE  UserInv' /\ Promised
<1> DEFINE new == [Mem(c) EXCEPT !.n = pg_count[t]]
           m == copy_pages(new, t)
           R == Rest(Memo, c)
<1>1. /\ SetMem(c, m) /\ st[t] = "run" /\ st[c] = "none"
      /\ st' = [st EXCEPT ![c] = IF m.err THEN "doomed" ELSE "run"]
  BY DEF Fork
<1>2. Mem(t).data = data /\ Mem(t).tab = pg_tab[t] /\ Mem(t).dir = pg_dir[t] /\ Mem(t).n = pg_count[t]
  BY Standing
<1>3. Parent(t, R)
  <2>1. FramesOf(Mem(t)) \subseteq R
    <3>1. Memo[t] = Mem(t) /\ t \in Task \ {c}
      BY Standing
    <3>2. QED
      BY <3>1 DEF Rest
  <2>2. Sound(Mem(t), Rest(Memo, t)) /\ Mem(t) \in Memories
    BY Standing DEF Sound
  <2>3. QED
    BY <1>2, <2>1, <2>2 DEF Parent, Sound, Memories
<1>4. /\ Sound(new, R) /\ ~new.err /\ new.n = pg_count[t]
      /\ \A g \in R : new.data[g] = data[g]
      /\ \A k \in Table : new.dir[k] = 0
  <2>1. /\ Sound(Mem(c), R) /\ Mem(c) \in Memories /\ TabsOf(Mem(c)) = {} /\ Mem(c).data = data
        /\ ~Mem(c).err
    BY <1>1, Standing DEF Sound
  <2>2. pg_count[t] \in Nat
    BY DEF UserInv, UserTypes
  <2>3. /\ new.dir = Mem(c).dir /\ new.tab = Mem(c).tab /\ new.free = Mem(c).free
        /\ new.data = Mem(c).data /\ new.err = Mem(c).err /\ new.n = pg_count[t] /\ new \in Memories
    BY <2>1, <2>2 DEF Memories
  <2> HIDE DEF new
  <2>4. FramesOf(new) = FramesOf(Mem(c)) /\ (Apart(Mem(c)) => Apart(new))
    BY <2>3, SameMemory
  <2>5. Sound(new, R)
    BY <2>1, <2>3, <2>4 DEF Sound, Places
  <2>6. \A k \in Table : new.dir[k] = 0
    BY <2>1, <2>3 DEF TabsOf
  <2>7. QED
    BY <2>1, <2>3, <2>5, <2>6
<1> HIDE DEF new, R
<1>5. PagesCopied(t, new, m, Page, R)
  BY <1>3, <1>4, CopiedRightly
<1> HIDE DEF m
<1>6. Good(c, m)
  <2>1. pg_count[t] \in Nat
    BY DEF UserInv, UserTypes
  <2>2. QED
    BY <1>4, <1>5, <2>1 DEF PagesCopied, Good, R
<1>7. ASSUME ~m.err PROVE ViewIn(m) = View(t) /\ Counted(m)
  <2>1. View(t) = ViewIn(Mem(t)) /\ Counted(Mem(t))
    BY <1>1, Standing
  <2>2. \A p \in Page : /\ pg_dir[t][TableOf[p]] # 0 => m.dir[TableOf[p]] # 0
                        /\ ViewIn(m)[p] = ViewIn(Mem(t))[p]
                        /\ p \in OwnOf(m) <=> pg_tab[t][p].f # 0
    BY <1>5, <1>7 DEF PagesCopied
  <2>3. ViewIn(m) = View(t)
    BY <2>1, <2>2 DEF ViewIn
  <2>4. TabsOf(Mem(t)) \subseteq TabsOf(m)
    <3>1. ASSUME NEW k \in Table, pg_dir[t][k] # 0 PROVE m.dir[k] # 0
      <4>1. PICK p \in Page : TableOf[p] = k
        BY DEF UserMemAssumption
      <4>2. QED
        BY <2>2, <3>1, <4>1
    <3>2. QED
      BY <1>2, <3>1 DEF TabsOf
  <2>5. OwnOf(Mem(t)) \subseteq OwnOf(m)
    BY <1>2, <2>2 DEF OwnOf
  <2>6. OwnOf(m) \cap Heap = OwnOf(Mem(t)) \cap Heap
    <3>1. ASSUME NEW p \in Heap, p \in OwnOf(m) PROVE p \in OwnOf(Mem(t))
      <4>1. p \in Page /\ p \notin LdrPages
        BY DEF UserMemAssumption, LdrPages
      <4>2. ~pg_tab[t][p].cow
        BY <1>2, <4>1, Standing DEF Sound
      <4>3. QED
        BY <1>2, <2>2, <3>1, <4>1, <4>2 DEF OwnOf
    <3>2. QED
      BY <2>5, <3>1
  <2>7. /\ Cardinality(TabsOf(Mem(t))) <= Cardinality(TabsOf(m))
        /\ Cardinality(OwnOf(Mem(t))) <= Cardinality(OwnOf(m))
    BY <2>4, <2>5, Finite, FS_Subset
  <2>8. m.n = Mem(t).n /\ Mem(t).n \in Nat
    <3>1. pg_count[t] \in Nat
      BY DEF UserInv, UserTypes
    <3>2. QED
      BY <1>2, <1>4, <1>5, <3>1 DEF PagesCopied
  <2>9. /\ Cardinality(TabsOf(m)) \in Nat /\ Cardinality(OwnOf(m)) \in Nat
        /\ Cardinality(TabsOf(Mem(t))) \in Nat /\ Cardinality(OwnOf(Mem(t))) \in Nat
    BY Finite
  <2>10. Counted(m)
    BY <2>1, <2>6, <2>7, <2>8, <2>9 DEF Counted
  <2>11. QED
    BY <2>3, <2>10
<1>8. Becomes(st', c, m) /\ st'[c] = IF m.err THEN "doomed" ELSE "run"
  BY <1>1, <1>7, Standing DEF Becomes
<1>9. UserInv' /\ Shown(c, IF st'[c] = "run" THEN ViewIn(m) ELSE Gone)
  BY <1>1, <1>6, <1>8, Worked
<1>10. View(c) = Gone
  BY <1>1, Standing
<1>11. CASE m.err
  BY <1>8, <1>9, <1>11, EndShown
<1>12. CASE ~m.err
  BY <1>7, <1>8, <1>9, <1>10, <1>12, ForkShown
<1>13. QED
  BY <1>11, <1>12

\* Every step keeps the invariant, and is a step of an address space or of none.
LEMMA UserNextRight ==
    ASSUME UserMemAssumption, UserInv, [UserNext]_umemVars PROVE UserInv' /\ Promised
<1>1. CASE UNCHANGED umemVars
  <2>1. UserInv'
    BY <1>1 DEF umemVars, UserInv, UserTypes, Memo, Mem
  <2>2. Seen' = Seen
    BY <1>1 DEF umemVars, Seen, View
  <2>3. QED
    BY <2>1, <2>2 DEF Promised, Memory!vars
<1>2. ASSUME NEW t \in Task,
             \/ Creat(t)
             \/ \E found \in BOOLEAN : do_exec(t, found)
             \/ \E ps \in Runs(Heap) : PgAlloc(t, ps) \/ PgFree(t, ps)
             \/ \E p \in Page, v \in Values : Writes(t, p, v)
             \/ \E p \in Page : Reads(t, p)
             \/ \E ps \in Runs(Page), v \in Values : KernelWrites(t, ps, v)
             \/ \E ps \in Runs(Page) : KernelReads(t, ps)
             \/ \E c \in Task \ {t} : Fork(t, c)
             \/ Kill(t)
             \/ Exit(t)
      PROVE  UserInv' /\ Promised
  <2>1. CASE Creat(t)
    BY <2>1, CreatRight
  <2>2. CASE \E found \in BOOLEAN : do_exec(t, found)
    BY <2>2, do_execRight
  <2>3. CASE \E ps \in Runs(Heap) : PgAlloc(t, ps) \/ PgFree(t, ps)
    BY <2>3, RunsAre, PgAllocRight, PgFreeRight
  <2>4. CASE \E p \in Page, v \in Values : Writes(t, p, v)
    BY <2>4, WritesRight
  <2>5. CASE \E p \in Page : Reads(t, p)
    BY <2>5, ReadsRight
  <2>6. CASE \E ps \in Runs(Page), v \in Values : KernelWrites(t, ps, v)
    BY <2>6, RunsAre, KernelWritesRight
  <2>7. CASE \E ps \in Runs(Page) : KernelReads(t, ps)
    BY <2>7, RunsAre, KernelReadsRight
  <2>8. CASE \E c \in Task \ {t} : Fork(t, c)
    BY <2>8, ForkRight
  <2>9. CASE Kill(t)
    BY <2>9, KillRight
  <2>10. CASE Exit(t)
    BY <2>10, ExitRight
  <2>11. QED
    BY <1>2, <2>1, <2>2, <2>3, <2>4, <2>5, <2>6, <2>7, <2>8, <2>9, <2>10
<1>3. QED
  BY <1>1, <1>2 DEF UserNext

\* The kernel starts with all frames free, and no task has any memory.
LEMMA UserInitRight == ASSUME UserMemAssumption, UserInit PROVE UserInv /\ Memory!Init
<1>1. UserTypes
  <2>1. data \in [Frame \cup Kernel -> Contents]
    BY DEF UserInit, Contents
  <2>2. QED
    BY <2>1, EntryHas DEF UserInit, UserTypes, Contents
<1>2. ASSUME NEW t \in Task
      PROVE  /\ Mem(t) = [dir |-> [k \in Table |-> 0], tab |-> [p \in Page |-> None], n |-> 0,
                          free |-> Frame,
                          data |-> [f \in Frame \cup Kernel |-> IF f \in Kernel THEN LdrData ELSE Junk],
                          err |-> FALSE]
             /\ Memo[t] = Mem(t)
  BY DEF UserInit, Mem, Memo
<1>3. ASSUME NEW t \in Task PROVE TabsOf(Memo[t]) = {} /\ OwnOf(Memo[t]) = {} /\ FramesOf(Memo[t]) = {}
  <2>1. TabsOf(Memo[t]) = {} /\ OwnOf(Memo[t]) = {}
    BY <1>2, EntryHas DEF TabsOf, OwnOf
  <2>2. QED
    BY <2>1 DEF FramesOf
<1>4. \A t \in Task : Rest(Memo, t) = {}
  BY <1>3 DEF Rest
<1>5. ASSUME NEW t \in Task PROVE Sound(Memo[t], Rest(Memo, t))
  <2> DEFINE m == Memo[t]
  <2>1. /\ m.dir = [k \in Table |-> 0] /\ m.tab = [p \in Page |-> None] /\ m.n = 0 /\ m.free = Frame
        /\ m.data = [f \in Frame \cup Kernel |-> IF f \in Kernel THEN LdrData ELSE Junk]
        /\ m.err = FALSE /\ Whole(m)
    BY <1>2 DEF Whole
  <2>2. TabsOf(m) = {} /\ OwnOf(m) = {} /\ FramesOf(m) = {} /\ Rest(Memo, t) = {}
    BY <1>3, <1>4
  <2> HIDE DEF m
  <2>3. m.data \in [Frame \cup Kernel -> Contents]
    BY <2>1 DEF Contents
  <2>4. m \in Memories
    <3>1. m.dir \in [Table -> Frame \cup {0}] /\ m.tab \in [Page -> Entry] /\ m.n \in Nat
      BY <2>1, EntryHas
    <3>2. m.free \in SUBSET Frame /\ m.err \in BOOLEAN
      BY <2>1
    <3>3. QED
      BY <2>1, <2>3, <3>1, <3>2 DEF Memories, Whole
  <2>5. Places(m, Rest(Memo, t))
    BY <2>1, <2>2 DEF Places, Apart
  <2>6. Sound(m, Rest(Memo, t))
    BY <2>1, <2>4, <2>5, EntryHas DEF Sound
  <2>7. QED
    BY <2>6 DEF m
<1>6. AllSound(Memo)
  BY <1>2, <1>5 DEF AllSound
<1>7. \A t \in Task : st[t] = "none"
  BY DEF UserInit
<1>8. UserInv
  BY <1>1, <1>3, <1>6, <1>7 DEF UserInv, UserInit
<1>9. \A t \in Task : View(t) = Gone
  BY <1>7, ViewIs
<1>10. Memory!Init
  BY <1>9 DEF Memory!Init, Memory!Gone, Gone, Seen
<1>11. QED
  BY <1>8, <1>10

\* The invariant says what the frames and the counts have to be.
LEMMA InvSays == ASSUME UserMemAssumption, UserInv PROVE UserMemRight
<1>1. ASSUME NEW t \in Task
      PROVE  /\ TabsOf(Memo[t]) = Tables(t) /\ OwnOf(Memo[t]) = Owned(t)
             /\ FramesOf(Memo[t]) = Frames(t) /\ Memo[t].free = free
             /\ Memo[t].dir = pg_dir[t] /\ Memo[t].tab = pg_tab[t] /\ Memo[t].n = pg_count[t]
  BY DEF Memo, Mem, TabsOf, OwnOf, FramesOf, Tables, Owned, Frames
<1>2. ASSUME NEW t \in Task
      PROVE  Sound(Memo[t], Rest(Memo, t)) /\ Rest(Memo, t) = UNION {Frames(u) : u \in Task \ {t}}
  BY <1>1 DEF Rest, UserInv, AllSound
<1>3. free \cup UNION {Frames(t) : t \in Task} = Frame
  <2>1. CASE Task = {}
    BY <2>1 DEF UserInv
  <2>2. CASE Task # {}
    <3>1. PICK t \in Task : TRUE
      BY <2>2
    <3>2. free \cup Frames(t) \cup Rest(Memo, t) = Frame
      BY <1>1, <1>2 DEF Sound, Places
    <3>3. UNION {Frames(u) : u \in Task} = Frames(t) \cup Rest(Memo, t)
      BY <1>2
    <3>4. QED
      BY <3>2, <3>3
  <2>3. QED
    BY <2>1, <2>2
<1>4. ASSUME NEW t \in Task
      PROVE  Frames(t) \cap free = {} /\ \A u \in Task : t # u => Frames(t) \cap Frames(u) = {}
  <2>1. free \cap Frames(t) = {} /\ Rest(Memo, t) \cap Frames(t) = {}
    BY <1>1, <1>2 DEF Sound, Places
  <2>2. \A u \in Task : t # u => Frames(u) \subseteq Rest(Memo, t)
    BY <1>2
  <2>3. QED
    BY <2>1, <2>2
<1>5. ASSUME NEW t \in Task
      PROVE  /\ \A k, l \in Tables(t) : pg_dir[t][k] = pg_dir[t][l] => k = l
             /\ \A p, q \in Owned(t) : pg_tab[t][p].f = pg_tab[t][q].f => p = q
             /\ \A k \in Tables(t), p \in Owned(t) : pg_dir[t][k] # pg_tab[t][p].f
  BY <1>1, <1>2 DEF Sound, Places, Apart
<1>6. FramesOnce
  BY <1>3, <1>4, <1>5 DEF FramesOnce
<1>7. TablesRight
  <2>1. \A t \in Task, p \in Page : pg_tab[t][p] # None => pg_dir[t][TableOf[p]] # 0
    BY <1>1, <1>2 DEF Sound
  <2>2. \A t \in Task : st[t] \in {"none", "new"} => Tables(t) = {}
    BY <1>1 DEF UserInv
  <2>3. \A t \in Task : st[t] = "run" =>
            pg_count[t] <= Cardinality(Tables(t)) + Cardinality(Owned(t))
    BY <1>1 DEF UserInv, Counted
  <2>4. QED
    BY <2>1, <2>2, <2>3 DEF TablesRight
<1>8. QED
  BY <1>6, <1>7 DEF UserMemRight, UserInv

\* Every task's memory is sound for every set of tasks, pages and frames: the frames
\* are the free ones, its own and those of the others, and pg_count is between its
\* pages of the heap and all of its tables and pages.
THEOREM UserInvariant == UserMemAssumption => (UserSpec => []UserInv)
<1>1. SUFFICES ASSUME UserMemAssumption PROVE UserSpec => []UserInv
  OBVIOUS
<1>2. UserInit => UserInv
  BY <1>1, UserInitRight
<1>3. UserInv /\ [UserNext]_umemVars => UserInv'
  BY <1>1, UserNextRight
<1>4. QED
  BY <1>2, <1>3, PTL DEF UserSpec

\* Every frame is free or holds one table or one page of one task, also after a fork,
\* an exec or an allocation that fails halfway; pages are under tables the task has, a
\* task that is gone has none, and none is counted for more than it has (do_fork,
\* do_exec, u_alloc, u_free, pg_count).
THEOREM UserMemCorrect == UserMemAssumption => (UserSpec => []UserMemRight)
<1>1. SUFFICES ASSUME UserMemAssumption PROVE UserSpec => []UserMemRight
  OBVIOUS
<1>2. UserSpec => []UserInv
  BY <1>1, UserInvariant
<1>3. UserInv => UserMemRight
  BY <1>1, InvSays
<1>4. QED
  BY <1>2, <1>3, PTL

\* Every task has its memory to itself and finds in it what it wrote, zeroes or its
\* parent's copy: pages that get a frame on first use, the loader's shared pages, frames
\* that are used again and calls that fail halfway do not show (pg_uauto, copy_pages).
THEOREM MemoryImplemented == UserMemAssumption => (UserSpec => MemorySpec)
<1>1. SUFFICES ASSUME UserMemAssumption PROVE UserSpec => MemorySpec
  OBVIOUS
<1>2. UserSpec => []UserInv
  BY <1>1, UserInvariant
<1>3. UserInit => Memory!Init
  BY <1>1, UserInitRight
<1>4. UserInv /\ [UserNext]_umemVars => [Memory!Next]_(Memory!vars)
  BY <1>1, UserNextRight DEF Promised
<1>5. QED
  BY <1>2, <1>3, <1>4, PTL DEF UserSpec, MemorySpec, Memory!Spec

----------------------------------------------------------------------------
(* Streams. *)

\* s over d from p on, place by place.
LEMMA OverRight ==
  ASSUME NEW C, NEW d \in Seq(C), NEW s \in Seq(C), NEW p \in 0..Len(d)
  PROVE  /\ Over(d, p, s) \in Seq(C)
         /\ Len(Over(d, p, s)) = IF p + Len(s) > Len(d) THEN p + Len(s) ELSE Len(d)
         /\ \A i \in 1..Len(Over(d, p, s)) :
              Over(d, p, s)[i] = IF i > p /\ i <= p + Len(s) THEN s[i - p] ELSE d[i]
<1> DEFINE n == IF p + Len(s) > Len(d) THEN p + Len(s) ELSE Len(d)
           at_(i) == IF i > p /\ i <= p + Len(s) THEN s[i - p] ELSE d[i]
<1>1. Len(d) \in Nat /\ Len(s) \in Nat /\ n \in Nat
  OBVIOUS
<1>2. Over(d, p, s) = [i \in 1..n |-> at_(i)]
  BY DEF Over
<1>3. ASSUME NEW i \in 1..n PROVE at_(i) \in C
  <2>1. CASE i > p /\ i <= p + Len(s)
    <3>1. i - p \in 1..Len(s)
      BY <1>1, <2>1
    <3> QED BY <2>1, <3>1
  <2>2. CASE ~(i > p /\ i <= p + Len(s))
    <3>1. i \in 1..Len(d)
      BY <1>1, <2>2
    <3> QED BY <2>2, <3>1
  <2> QED BY <2>1, <2>2
<1> HIDE DEF at_, n
<1>4. Over(d, p, s) \in [1..n -> C]
  BY <1>2, <1>3
<1>5. Over(d, p, s) \in Seq(C) /\ Len(Over(d, p, s)) = n
  BY <1>1, <1>4, SeqDef
<1> QED BY <1>2, <1>5 DEF at_, n

\* Nothing written over a text leaves it, ...
LEMMA OverNone ==
  ASSUME NEW C, NEW d \in Seq(C), NEW p \in 0..Len(d)
  PROVE  Over(d, p, <<>>) = d
<1>1. <<>> \in Seq(C) /\ Len(<<>>) = 0
  OBVIOUS
<1>2. /\ Over(d, p, <<>>) \in Seq(C) /\ Len(Over(d, p, <<>>)) = Len(d)
      /\ \A i \in 1..Len(Over(d, p, <<>>)) : Over(d, p, <<>>)[i] = d[i]
  <2> DEFINE e == <<>>
             x == Over(d, p, e)
  <2>1. e \in Seq(C) /\ Len(e) = 0
    BY <1>1
  <2> HIDE DEF e
  <2>2. /\ x \in Seq(C) /\ Len(x) = IF p + Len(e) > Len(d) THEN p + Len(e) ELSE Len(d)
        /\ \A i \in 1..Len(x) : x[i] = IF i > p /\ i <= p + Len(e) THEN e[i - p] ELSE d[i]
    BY <2>1, OverRight
  <2> HIDE DEF x
  <2>3. x \in Seq(C) /\ Len(x) = Len(d) /\ \A i \in 1..Len(x) : x[i] = d[i]
    BY <2>1, <2>2
  <2> QED BY <2>3 DEF x, e
<1> QED BY <1>2, SeqEqual

\* ... and a byte written behind s is s with the byte written.
LEMMA OverMore ==
  ASSUME NEW C, NEW d \in Seq(C), NEW s \in Seq(C), NEW p \in 0..Len(d), NEW c \in C
  PROVE  Over(Over(d, p, s), p + Len(s), <<c>>) = Over(d, p, Append(s, c))
<1> DEFINE x == Over(d, p, s)
           q == p + Len(s)
           one == <<c>>
           t == Append(s, c)
           y == Over(x, q, one)
           z == Over(d, p, t)
<1>1. /\ one \in Seq(C) /\ Len(one) = 1 /\ one[1] = c
      /\ t \in Seq(C) /\ Len(t) = Len(s) + 1 /\ t[Len(s) + 1] = c
      /\ \A i \in 1..Len(s) : t[i] = s[i]
  OBVIOUS
<1>2. /\ x \in Seq(C) /\ Len(x) = IF q > Len(d) THEN q ELSE Len(d)
      /\ \A i \in 1..Len(x) : x[i] = IF i > p /\ i <= q THEN s[i - p] ELSE d[i]
  BY OverRight
<1>3. q \in 0..Len(x) /\ Len(s) \in Nat /\ Len(d) \in Nat
  BY <1>2
<1> HIDE DEF x, one, t
<1>4. /\ y \in Seq(C) /\ Len(y) = IF q + 1 > Len(x) THEN q + 1 ELSE Len(x)
      /\ \A i \in 1..Len(y) : y[i] = IF i > q /\ i <= q + 1 THEN one[i - q] ELSE x[i]
  <2>1. /\ y \in Seq(C) /\ Len(y) = IF q + Len(one) > Len(x) THEN q + Len(one) ELSE Len(x)
        /\ \A i \in 1..Len(y) : y[i] = IF i > q /\ i <= q + Len(one) THEN one[i - q] ELSE x[i]
    BY <1>1, <1>2, <1>3, OverRight
  <2> QED BY <2>1, <1>1
<1>5. /\ z \in Seq(C) /\ Len(z) = IF q + 1 > Len(d) THEN q + 1 ELSE Len(d)
      /\ \A i \in 1..Len(z) : z[i] = IF i > p /\ i <= q + 1 THEN t[i - p] ELSE d[i]
  <2>1. /\ z \in Seq(C) /\ Len(z) = IF p + Len(t) > Len(d) THEN p + Len(t) ELSE Len(d)
        /\ \A i \in 1..Len(z) : z[i] = IF i > p /\ i <= p + Len(t) THEN t[i - p] ELSE d[i]
    BY <1>1, OverRight
  <2>2. p + Len(t) = q + 1
    BY <1>1, <1>3
  <2> QED BY <2>1, <2>2
<1> HIDE DEF y, z
<1>6. Len(y) = Len(z) /\ Len(y) \in Nat
  BY <1>2, <1>3, <1>4, <1>5
<1>7. ASSUME NEW i \in 1..Len(y) PROVE y[i] = z[i]
  <2>1. CASE i = q + 1
    <3>1. y[i] = c
      <4>1. i - q = 1 /\ i > q /\ i <= q + 1
        BY <2>1, <1>3
      <4> QED BY <4>1, <1>1, <1>4
    <3>2. z[i] = c
      <4>1. i - p = Len(s) + 1 /\ i > p /\ i <= q + 1 /\ i \in 1..Len(z)
        BY <2>1, <1>3, <1>6
      <4> QED BY <4>1, <1>1, <1>5
    <3> QED BY <3>1, <3>2
  <2>2. CASE i # q + 1
    <3>1. i \in 1..Len(x) /\ y[i] = x[i]
      <4>1. Len(x) \in Nat /\ ~(i > q /\ i <= q + 1) /\ i <= Len(x)
        BY <2>2, <1>2, <1>3, <1>4
      <4> QED BY <4>1, <1>4
    <3>2. i \in 1..Len(z)
      BY <1>6
    <3>3. CASE i > p /\ i <= q
      <4>1. i - p \in 1..Len(s)
        BY <3>3, <1>3
      <4>2. i <= q + 1
        BY <3>3, <1>3
      <4> QED BY <3>1, <3>2, <3>3, <4>1, <4>2, <1>1, <1>2, <1>5
    <3>4. CASE ~(i > p /\ i <= q)
      <4>1. ~(i > p /\ i <= q + 1)
        BY <2>2, <3>4, <1>3
      <4> QED BY <3>1, <3>2, <3>4, <4>1, <1>2, <1>5
    <3> QED BY <3>3, <3>4
  <2> QED BY <2>1, <2>2
<1>8. y = z
  BY <1>4, <1>5, <1>6, <1>7, SeqEqual
<1> QED BY <1>8 DEF y, z, x, one, t

\* What a file is, and what the calls of a flush of s make of it.
StreamFile == [data : Seq(Char), pos : Nat, err : BOOLEAN, short : BOOLEAN]

Longer(m, n) == IF m > n THEN m ELSE n

Reached(f, s, g) ==
  /\ g \in StreamFile /\ g.pos <= Len(g.data)
  /\ g.pos <= f.pos + Len(s) /\ Len(g.data) <= Longer(f.pos + Len(s), Len(f.data))
  /\ ~g.err => g.pos = f.pos + Len(s) /\ Len(g.data) = Longer(f.pos + Len(s), Len(f.data))
  /\ ~g.err /\ ~g.short => g.data = Over(f.data, f.pos, s)
  /\ f.short => g.short

LEMMA TransfersRight ==
  ASSUME NEW f \in StreamFile, f.pos <= Len(f.data), ~f.err, NEW s \in Seq(Char),
         NEW g \in Transfers(f, s)
  PROVE  Reached(f, s, g) /\ g.short = f.short
<1> DEFINE d == Over(f.data, f.pos, s)
<1>1. f.data \in Seq(Char) /\ f.pos \in 0..Len(f.data) /\ Len(f.data) \in Nat /\ Len(s) \in Nat
  BY DEF StreamFile
<1>2. d \in Seq(Char) /\ Len(d) = Longer(f.pos + Len(s), Len(f.data))
  BY <1>1, OverRight DEF Longer
<1> HIDE DEF d
<1>3. CASE g = WriteAll(f, s)
  <2>1. g = [data |-> d, pos |-> f.pos + Len(s), err |-> FALSE, short |-> f.short]
    BY <1>3 DEF WriteAll, d, StreamFile
  <2>2. f.pos + Len(s) \in Nat /\ f.pos + Len(s) <= Len(d) /\ f.short \in BOOLEAN /\ Len(d) \in Nat
    BY <1>1, <1>2 DEF StreamFile, Longer
  <2> QED BY <2>1, <2>2, <1>2 DEF Reached, StreamFile, d
<1>4. CASE g = Failed(f)
  <2>1. g = [data |-> f.data, pos |-> f.pos, err |-> TRUE, short |-> f.short]
    BY <1>4 DEF Failed, StreamFile
  <2>2. f.pos \in Nat /\ f.short \in BOOLEAN
    BY DEF StreamFile
  <2>3. f.pos <= f.pos + Len(s) /\ Len(f.data) <= Longer(f.pos + Len(s), Len(f.data))
    BY <1>1 DEF Longer
  <2> QED BY <2>1, <2>2, <2>3, <1>1 DEF Reached, StreamFile
<1> QED BY <1>3, <1>4 DEF Transfers

LEMMA FlushesRight ==
  ASSUME NEW f \in StreamFile, f.pos <= Len(f.data), ~f.err, NEW s \in Seq(Char),
         NEW g \in Flushes(f, s)
  PROVE  Reached(f, s, g)
<1>1. CASE g \in Transfers(f, s)
  BY <1>1, TransfersRight
<1>2. ASSUME NEW k \in 1..(Len(s) - 1),
             NEW h \in Transfers(WriteAll(f, SubSeq(s, 1, k)), SubSeq(s, 1, Len(s) - k)),
             g = [h EXCEPT !.short = TRUE]
      PROVE  Reached(f, s, g)
  <2> DEFINE a == SubSeq(s, 1, k)
             b == SubSeq(s, 1, Len(s) - k)
             m == WriteAll(f, a)
  <2>1. a \in Seq(Char) /\ Len(a) = k /\ b \in Seq(Char) /\ Len(b) = Len(s) - k
    OBVIOUS
  <2>2. Len(s) \in Nat /\ Len(f.data) \in Nat /\ f.pos \in Nat /\ k \in Nat
    BY DEF StreamFile
  <2> HIDE DEF a, b
  <2>3. m \in Transfers(f, a) /\ ~m.err
    BY DEF Transfers, WriteAll, StreamFile
  <2>4. Reached(f, a, m)
    BY <2>1, <2>3, TransfersRight
  <2> HIDE DEF m
  <2>5. m \in StreamFile /\ m.pos <= Len(m.data)
    BY <2>4 DEF Reached
  <2>6. Reached(m, b, h)
    <3>1. h \in Transfers(m, b)
      BY <1>2 DEF a, b, m
    <3> QED BY <2>1, <2>3, <2>5, <3>1, TransfersRight
  <2>7. /\ g = [data |-> h.data, pos |-> h.pos, err |-> h.err, short |-> TRUE]
        /\ h \in StreamFile
    BY <1>2, <2>6 DEF Reached, StreamFile
  <2>8. /\ m.pos = f.pos + k /\ Len(m.data) = Longer(f.pos + k, Len(f.data))
        /\ m.pos + Len(b) = f.pos + Len(s)
    <3>1. m.pos = f.pos + Len(a) /\ Len(m.data) = Longer(f.pos + Len(a), Len(f.data))
      BY <2>3, <2>4 DEF Reached
    <3>2. Len(a) = k /\ Len(b) = Len(s) - k
      BY <2>1
    <3>3. m.pos = f.pos + k /\ Len(m.data) = Longer(f.pos + k, Len(f.data))
      BY <3>1, <3>2, Zenon
    <3>4. m.pos + Len(b) = f.pos + k + (Len(s) - k)
      BY <3>2, <3>3
    <3> QED BY <2>2, <3>3, <3>4
  <2>9. Longer(m.pos + Len(b), Len(m.data)) = Longer(f.pos + Len(s), Len(f.data))
    <3>1. Len(m.data) = Longer(f.pos + k, Len(f.data)) /\ f.pos + k <= f.pos + Len(s)
      BY <2>2, <2>8
    <3>2. Longer(f.pos + Len(s), Longer(f.pos + k, Len(f.data))) = Longer(f.pos + Len(s), Len(f.data))
      BY <2>2, <3>1 DEF Longer
    <3> QED BY <2>8, <3>1, <3>2
  <2>10. g \in StreamFile /\ g.short
    BY <2>7 DEF StreamFile
  <2>11. g.data = h.data /\ g.pos = h.pos /\ g.err = h.err
    BY <2>7
  <2> QED BY <2>6, <2>8, <2>9, <2>10, <2>11 DEF Reached
<1>3. CASE g \in UNION {{[h EXCEPT !.short = TRUE] : h \in Transfers(WriteAll(f, SubSeq(s, 1, k)), SubSeq(s, 1, Len(s) - k))} :
                         k \in 1..(Len(s) - 1)}
  BY <1>2, <1>3
<1> QED BY <1>1, <1>3 DEF Flushes

----------------------------------------------------------------------------
(* The invariant.  A stream that is read has in its buffer what the file has before the offset;  *)
(* one that is written has the text in the file and the buffer together.                         *)

\* With s written from p on, d is t, unless x; and a is where that ends.
Ahead(d, p, s, t, a, x) ==
  /\ p <= Len(d) /\ a = p + Len(s)
  /\ Len(t) = Longer(a, Len(d))
  /\ x \/ Over(d, p, s) = t

ReadInv ==
  fmode = "r" =>
    /\ ~buf_write /\ content = text /\ offset <= Len(content)
    /\ buf_pos <= buf_insize /\ buf_insize <= offset
    /\ buf_mode = "none" => buf_insize = 0
    /\ \A i \in 1..buf_insize : fbuf[i] = content[offset - buf_insize + i]
    /\ at = offset - buf_insize + buf_pos - (IF ungotc # EOF THEN 1 ELSE 0)
    /\ ungotc # EOF => at < Len(text) /\ ungotc = text[at + 1]
    /\ result.is # EOF => ungotc = EOF /\ at > 0 /\ result.is = text[at]

WriteInv ==
  fmode = "w" =>
    /\ ungotc = EOF /\ result = NoResult /\ buf_insize = 0
    /\ ~buf_write => buf_pos = 0
    /\ buf_mode = "none" => ~buf_write
    /\ \A i \in 1..buf_pos : fbuf[i] \in Char
    /\ ~ferr => Ahead(content, offset, Pending, text, at, shortened)

StreamInv == StdioTypes /\ GetRight /\ ReadInv /\ WriteInv

\* A byte more is ahead of the file, ...
LEMMA AheadMore ==
  ASSUME NEW d \in Seq(Char), NEW p \in Nat, NEW s \in Seq(Char), NEW t \in Seq(Char),
         NEW a \in Nat, NEW x \in BOOLEAN, NEW c \in Char, Ahead(d, p, s, t, a, x)
  PROVE  Ahead(d, p, Append(s, c), Over(t, a, <<c>>), a + 1, x)
<1> DEFINE n == Len(d)
           one == <<c>>
           u == Over(t, a, one)
<1>1. /\ n \in Nat /\ Len(s) \in Nat /\ Len(t) \in Nat /\ p <= n
      /\ a = p + Len(s) /\ Len(t) = Longer(a, n)
  BY DEF Ahead
<1>2. one \in Seq(Char) /\ Len(one) = 1 /\ Len(Append(s, c)) = Len(s) + 1
  OBVIOUS
<1>3. a \in 0..Len(t)
  BY <1>1 DEF Longer
<1> HIDE DEF one
<1>4. Len(u) = IF a + Len(one) > Len(t) THEN a + Len(one) ELSE Len(t)
  BY <1>2, <1>3, OverRight
<1>5. Len(u) = Longer(a + 1, n)
  BY <1>1, <1>2, <1>4 DEF Longer
<1>6. x \/ Over(d, p, Append(s, c)) = u
  <2>1. p \in 0..Len(d)
    BY <1>1
  <2>2. CASE Over(d, p, s) = t
    BY <1>1, <2>1, <2>2, OverMore DEF one
  <2> QED BY <2>2 DEF Ahead
<1>7. a + 1 = p + Len(Append(s, c))
  BY <1>1, <1>2
<1> QED BY <1>1, <1>5, <1>6, <1>7 DEF Ahead, one

\* ... a flush that succeeds leaves nothing ahead, ...
LEMMA AheadFlushed ==
  ASSUME NEW f \in StreamFile, NEW s \in Seq(Char), NEW t \in Seq(Char), NEW a \in Nat,
         NEW x \in BOOLEAN, NEW g, Ahead(f.data, f.pos, s, t, a, x), Reached(f, s, g), ~g.err
  PROVE  Ahead(g.data, g.pos, <<>>, t, a, x \/ g.short)
<1>1. /\ Len(f.data) \in Nat /\ Len(s) \in Nat /\ f.pos \in Nat
      /\ g.data \in Seq(Char) /\ g.pos \in Nat /\ Len(g.data) \in Nat /\ g.short \in BOOLEAN
  BY DEF Reached, StreamFile
<1>2. /\ g.pos <= Len(g.data) /\ g.pos = f.pos + Len(s)
      /\ Len(g.data) = Longer(f.pos + Len(s), Len(f.data))
      /\ g.short \/ g.data = Over(f.data, f.pos, s)
  BY DEF Reached
<1>3. /\ a = f.pos + Len(s) /\ Len(t) = Longer(a, Len(f.data))
      /\ x \/ Over(f.data, f.pos, s) = t
  BY DEF Ahead
<1>4. Over(g.data, g.pos, <<>>) = g.data
  BY <1>1, <1>2, OverNone
<1>5. Len(<<>>) = 0
  OBVIOUS
<1>6. a = g.pos + Len(<<>>)
  BY <1>1, <1>2, <1>3, <1>5
<1>7. Len(t) = Longer(a, Len(g.data))
  BY <1>1, <1>2, <1>3 DEF Longer
<1> QED BY <1>2, <1>3, <1>4, <1>6, <1>7 DEF Ahead

\* ... and with nothing ahead another position may be taken.
LEMMA AheadSought ==
  ASSUME NEW d \in Seq(Char), NEW p \in Nat, NEW t \in Seq(Char), NEW a \in Nat,
         NEW x \in BOOLEAN, Ahead(d, p, <<>>, t, a, x)
  PROVE  /\ Len(t) = Len(d) /\ a = p
         /\ \A b \in 0..Len(t) : Ahead(d, b, <<>>, t, b, x)
<1>1. Len(<<>>) = 0 /\ Len(d) \in Nat
  OBVIOUS
<1>2. a = p /\ p <= Len(d) /\ Len(t) = Longer(a, Len(d))
  BY <1>1 DEF Ahead
<1>3. Len(t) = Len(d)
  BY <1>1, <1>2 DEF Longer
<1>4. \A b \in 0..Len(d) : Over(d, b, <<>>) = d
  BY OverNone
<1>5. x \/ d = t
  BY <1>1, <1>2, <1>4 DEF Ahead
<1>6. \A b \in 0..Len(d) : b = b + Len(<<>>) /\ Len(t) = Longer(b, Len(d))
  BY <1>1, <1>3 DEF Longer
<1> QED BY <1>2, <1>3, <1>4, <1>5, <1>6 DEF Ahead

\* What is still to be written.
LEMMA PendingRight ==
  ASSUME StdioAssumption, StdioTypes, WriteInv, fmode = "w"
  PROVE  /\ Pending \in Seq(Char) /\ Len(Pending) = buf_pos
         /\ \A i \in 1..buf_pos : Pending[i] = fbuf[i]
         /\ Pending = <<>> <=> buf_pos = 0
         /\ buf_pos > 0 => buf_write
<1>1. BUFSIZ \in Nat /\ buf_pos \in 0..BUFSIZ /\ fbuf \in [1..BUFSIZ -> Char \cup {0}] /\ buf_write \in BOOLEAN
  BY DEF StdioAssumption, StdioTypes
<1>2. (~buf_write => buf_pos = 0) /\ \A i \in 1..buf_pos : fbuf[i] \in Char
  BY DEF WriteInv
<1>3. CASE buf_pos = 0
  <2>1. Pending = <<>>
    <3>1. SubSeq(fbuf, 1, 0) = <<>>
      OBVIOUS
    <3> QED BY <1>3, <3>1 DEF Pending
  <2> QED BY <1>3, <2>1
<1>4. CASE buf_pos > 0
  <2>1. Pending = SubSeq(fbuf, 1, buf_pos)
    BY <1>1, <1>2, <1>4 DEF Pending
  <2>2. SubSeq(fbuf, 1, buf_pos) = [i \in 1..buf_pos |-> fbuf[i]]
    <3>1. fbuf \in Seq(Char \cup {0}) /\ Len(fbuf) = BUFSIZ
      BY <1>1, SeqDef
    <3>2. /\ SubSeq(fbuf, 1, buf_pos) \in Seq(Char \cup {0}) /\ Len(SubSeq(fbuf, 1, buf_pos)) = buf_pos
          /\ \A i \in 1..buf_pos : SubSeq(fbuf, 1, buf_pos)[i] = fbuf[i]
      BY <1>1, <1>4, <3>1
    <3> QED BY <3>2, SeqDef
  <2>3. Pending \in [1..buf_pos -> Char]
    BY <2>1, <2>2, <1>2
  <2>4. Pending \in Seq(Char) /\ Len(Pending) = buf_pos
    BY <1>1, <2>3, SeqDef
  <2> QED BY <1>1, <1>2, <1>4, <2>1, <2>2, <2>4
<1> QED BY <1>1, <1>3, <1>4

\* What fflush makes of the file.
LEMMA FlushedRight ==
  ASSUME StdioAssumption, StdioTypes, WriteInv, fmode = "w", ~ferr,
         NEW f \in Flushed
  PROVE  /\ Reached(Now, Pending, f)
         /\ Now \in StreamFile /\ ~Now.err /\ Now.data = content /\ Now.pos = offset
         /\ (Pending = <<>> => f = Now) /\ f.short \in BOOLEAN /\ f.err \in BOOLEAN
<1>1. Now = [data |-> content, pos |-> offset, err |-> FALSE, short |-> FALSE]
  BY DEF Now, FileOf
<1>2. content \in Seq(Char) /\ offset \in 0..Len(content)
  BY DEF StdioTypes, WriteInv, Ahead
<1>3. Now \in StreamFile /\ ~Now.err /\ Now.data = content /\ Now.pos = offset /\ Now.pos <= Len(Now.data)
  BY <1>1, <1>2 DEF StreamFile
<1>4. Pending \in Seq(Char)
  BY PendingRight
<1>5. CASE Pending = <<>>
  <2>1. f = Now
    BY <1>5 DEF Flushed
  <2>2. Len(Pending) = 0
    BY <1>5
  <2>3. Over(content, offset, Pending) = content
    BY <1>2, <1>5, OverNone
  <2>4. Longer(offset + Len(Pending), Len(content)) = Len(content)
    BY <1>2, <2>2 DEF Longer
  <2> QED BY <1>1, <1>2, <1>3, <2>1, <2>2, <2>3, <2>4 DEF Reached
<1>6. CASE Pending # <<>>
  <2>1. f \in Flushes(Now, Pending)
    BY <1>6 DEF Flushed
  <2>2. Reached(Now, Pending, f)
    BY <1>3, <1>4, <2>1, FlushesRight
  <2> QED BY <1>3, <1>6, <2>2 DEF Reached, StreamFile
<1> QED BY <1>5, <1>6

LEMMA StdioStarts == ASSUME StdioAssumption, StdioInit PROVE StreamInv
<1> USE DEF StdioAssumption, StdioInit
<1>1. content \in Seq(Char) /\ Len(content) <= MaxText /\ Len(content) \in Nat
  OBVIOUS
<1>2. StdioTypes
  <2>1. fbuf \in [1..BUFSIZ -> Char \cup {0}]
    OBVIOUS
  <2>2. result \in [is : Char \cup {EOF}, due : Char \cup {EOF}]
    BY DEF NoResult
  <2>3. offset \in 0..MaxText /\ at \in 0..Len(text) /\ text \in Seq(Char) /\ Len(text) <= MaxText
    BY <1>1
  <2>4. buf_pos \in 0..BUFSIZ /\ buf_insize \in 0..BUFSIZ
    OBVIOUS
  <2>5. /\ shortened \in BOOLEAN /\ fmode \in {"r", "w"} /\ buf_mode \in Bufferings /\ buf_write \in BOOLEAN
        /\ ungotc \in Char \cup {EOF} /\ ferr \in BOOLEAN /\ feof \in BOOLEAN
    OBVIOUS
  <2> HIDE DEF StdioInit, StdioAssumption
  <2> QED BY <1>1, <2>1, <2>2, <2>3, <2>4, <2>5 DEF StdioTypes
<1>3. GetRight
  BY DEF GetRight, NoResult
<1>4. ReadInv
  BY <1>1 DEF ReadInv, NoResult
<1>5. WriteInv
  <2>1. Pending = <<>>
    BY DEF Pending
  <2>2. Over(content, 0, <<>>) = content /\ Len(<<>>) = 0
    BY <1>1, OverNone
  <2>3. Ahead(content, offset, Pending, text, at, shortened)
    BY <1>1, <2>1, <2>2 DEF Ahead, Longer
  <2> QED BY <2>3 DEF WriteInv
<1> QED BY <1>2, <1>3, <1>4, <1>5 DEF StreamInv

\* A call that only reads the file keeps what is said of writing, and the other way round.
LEMMA ReadsOnly == ASSUME fmode' = "r" PROVE WriteInv'
BY DEF WriteInv

LEMMA WritesOnly == ASSUME fmode' = "w" PROVE ReadInv'
BY DEF ReadInv

\* The facts of a stream that is read.
LEMMA ReadingFacts ==
  ASSUME StdioAssumption, StreamInv, fmode = "r"
  PROVE  /\ content \in Seq(Char) /\ Len(content) \in Nat /\ Len(content) <= MaxText /\ content = text
         /\ offset \in 0..Len(content) /\ buf_pos \in 0..buf_insize /\ buf_insize \in 0..BUFSIZ
         /\ buf_insize <= offset /\ BUFSIZ \in Nat /\ MaxText \in Nat /\ at \in 0..Len(text)
         /\ \A i \in 1..Len(content) : content[i] \in Char /\ content[i] # EOF
         /\ EOF \notin Char
         /\ Pending = <<>> /\ Flushed = {Now}
         /\ Now = [data |-> content, pos |-> offset, err |-> FALSE, short |-> FALSE]
<1> USE DEF StdioAssumption, StreamInv, StdioTypes, ReadInv
<1>1. content \in Seq(Char) /\ Len(content) \in Nat /\ \A i \in 1..Len(content) : content[i] \in Char
  OBVIOUS
<1>2. EOF \notin Char
  OBVIOUS
<1>3. Pending = <<>>
  BY DEF Pending
<1>4. Flushed = {Now}
  BY <1>3 DEF Flushed
<1>5. Now = [data |-> content, pos |-> offset, err |-> FALSE, short |-> FALSE]
  BY DEF Now, FileOf
<1> QED BY <1>1, <1>2, <1>3, <1>4, <1>5

LEMMA GetUngotRight == ASSUME StdioAssumption, StreamInv, GetUngot PROVE StreamInv'
<1> USE DEF GetUngot, Got, MayRead, onDisk
<1>1. fmode = "r" /\ fmode' = "r"
  OBVIOUS
<1>2. ReadInv /\ StdioTypes
  BY DEF StreamInv
<1>3. /\ at < Len(text) /\ ungotc = text[at + 1] /\ ungotc \in Char /\ at' = at + 1
      /\ at \in 0..Len(text)
  BY <1>1, <1>2, ReadingFacts DEF ReadInv, StdioTypes
<1>4. result' = [is |-> ungotc, due |-> ungotc]
  BY <1>3 DEF Due
<1>5. StdioTypes'
  BY <1>2, <1>3, <1>4 DEF StdioTypes
<1>6. ReadInv'
  BY <1>1, <1>2, <1>3, <1>4, ReadingFacts DEF ReadInv
<1> QED BY <1>1, <1>4, <1>5, <1>6, ReadsOnly DEF StreamInv, GetRight

LEMMA GetNbfRight == ASSUME StdioAssumption, StreamInv, GetNbf PROVE StreamInv'
<1> USE DEF GetNbf, MayRead
<1>1. fmode = "r" /\ fmode' = "r" /\ buf_mode = "none" /\ ungotc = EOF
  OBVIOUS
<1>2. ReadInv /\ StdioTypes
  BY DEF StreamInv
<1>3. buf_insize = 0 /\ buf_pos = 0 /\ at = offset
  BY <1>1, <1>2, ReadingFacts DEF ReadInv
<1>4. CASE NoByte /\ UNCHANGED offset /\ ferr' = TRUE
  <2>1. result' = NoResult /\ UNCHANGED <<text, at, content, shortened, fmode, buf_mode, fbuf, buf_pos, buf_insize, buf_write, ungotc, feof, offset>>
    BY <1>4 DEF NoByte
  <2>2. StdioTypes'
    BY <1>2, <1>4, <2>1 DEF StdioTypes, NoResult
  <2>3. ReadInv'
    BY <1>1, <1>2, <2>1 DEF ReadInv, NoResult
  <2> QED BY <1>1, <2>1, <2>2, <2>3, ReadsOnly DEF StreamInv, GetRight, NoResult
<1>5. ASSUME offset' = (IF offset < Len(content) THEN offset + 1 ELSE offset),
             Got(IF offset < Len(content) THEN content[offset + 1] ELSE EOF),
             UNCHANGED ferr
      PROVE  StreamInv'
  <2> DEFINE c == IF offset < Len(content) THEN content[offset + 1] ELSE EOF
  <2>1. c = Due /\ c \in Char \cup {EOF} /\ (c = EOF <=> offset = Len(content))
    BY <1>1, <1>3, ReadingFacts DEF Due
  <2>2. result' = [is |-> c, due |-> c] /\ UNCHANGED text /\ at' = IF c = EOF THEN at ELSE at + 1
    BY <1>5, <2>1 DEF Got
  <2>3. at' = offset' /\ at' \in 0..Len(content)
    BY <1>3, <1>5, <2>1, <2>2, ReadingFacts
  <2>4. c # EOF => at' > 0 /\ c = text[at']
    BY <1>1, <1>3, <2>1, <2>2, ReadingFacts
  <2> HIDE DEF c
  <2>5. StdioTypes'
    BY <1>1, <1>2, <1>5, <2>1, <2>2, <2>3, ReadingFacts DEF StdioTypes
  <2>6. ReadInv'
    <3>1. fmode' = "r" /\ ungotc' = EOF /\ buf_insize' = 0 /\ buf_pos' = 0
      BY <1>1, <1>3
    <3> QED BY <1>1, <1>2, <2>2, <2>3, <2>4, <3>1, ReadingFacts DEF ReadInv
  <2> QED BY <1>1, <2>2, <2>5, <2>6, ReadsOnly DEF StreamInv, GetRight
<1> QED BY <1>4, <1>5

LEMMA UngetcRight == ASSUME StdioAssumption, StreamInv, Ungetc PROVE StreamInv'
<1> USE DEF Ungetc, onDisk
<1>1. fmode = "r" /\ fmode' = "r"
  BY DEF StreamInv, StdioTypes, WriteInv, NoResult
<1>2. ReadInv /\ StdioTypes
  BY DEF StreamInv
<1>3. at \in 1..Len(text) /\ result.is = text[at] /\ result.is \in Char \cup {EOF} /\ result.is # EOF /\ ungotc = EOF
  BY <1>1, <1>2, ReadingFacts DEF ReadInv, StdioTypes
<1>4. at' = at - 1 /\ at' + 1 = at /\ at' \in 0..Len(text) /\ at' < Len(text)
  BY <1>3
<1>5. StdioTypes'
  BY <1>2, <1>3, <1>4 DEF StdioTypes, NoResult
<1>6. ReadInv'
  BY <1>1, <1>2, <1>3, <1>4, ReadingFacts DEF ReadInv, NoResult
<1> QED BY <1>1, <1>5, <1>6, ReadsOnly DEF StreamInv, GetRight, NoResult

LEMMA GetFbfRight == ASSUME StdioAssumption, StreamInv, GetFbf PROVE StreamInv'
<1>1. /\ fmode = "r" /\ fmode' = "r" /\ buf_mode # "none" /\ buf_mode' = buf_mode
      /\ ungotc = EOF /\ ungotc' = EOF /\ buf_write' = buf_write
  BY DEF GetFbf, MayRead
<1>2. ReadInv /\ StdioTypes
  BY DEF StreamInv
<1>3. at = offset - buf_insize + buf_pos /\ ~buf_write
  BY <1>1, <1>2, ReadingFacts DEF ReadInv
<1> DEFINE left == Len(content) - offset
<1>4. ASSUME buf_pos # buf_insize, Take(Now), ferr' = (ferr \/ FALSE),
             buf_pos' = buf_pos + 1, Got(fbuf[buf_pos + 1]), UNCHANGED <<fbuf, buf_insize, feof>>
      PROVE  StreamInv'
  <2> DEFINE c == fbuf[buf_pos + 1]
  <2>1. content' = content /\ offset' = offset /\ shortened' = (shortened \/ FALSE)
    BY <1>1, <1>4, ReadingFacts DEF Take
  <2>2. buf_pos + 1 \in 1..buf_insize /\ at + 1 \in 1..Len(content)
    BY <1>1, <1>3, <1>4, ReadingFacts
  <2>3. c = content[at + 1]
    <3>1. c = content[offset - buf_insize + (buf_pos + 1)]
      BY <1>1, <1>2, <2>2 DEF ReadInv
    <3>2. offset - buf_insize + (buf_pos + 1) = at + 1
      BY <1>1, <1>3, ReadingFacts
    <3> QED BY <3>1, <3>2
  <2>4. c \in Char /\ c # EOF /\ at < Len(text) /\ Due = c
    BY <1>1, <2>2, <2>3, ReadingFacts DEF Due
  <2> HIDE DEF c
  <2>5. result' = [is |-> c, due |-> c] /\ at' = at + 1 /\ text' = text
    BY <1>4, <2>4 DEF Got, c
  <2>6. StdioTypes'
    BY <1>1, <1>2, <1>4, <2>1, <2>2, <2>4, <2>5, ReadingFacts DEF StdioTypes
  <2>7. ReadInv'
    BY <1>1, <1>2, <1>3, <1>4, <2>1, <2>2, <2>3, <2>4, <2>5, ReadingFacts DEF ReadInv
  <2> QED BY <1>1, <2>5, <2>6, <2>7, ReadsOnly DEF StreamInv, GetRight
<1>5. ASSUME NEW n \in 1..BUFSIZ, n <= left, buf_pos = buf_insize,
             Take([Now EXCEPT !.pos = @ + n]),
             fbuf' = [i \in 1..BUFSIZ |-> IF i <= n THEN content[offset + i] ELSE fbuf[i]],
             buf_insize' = n, buf_pos' = 1, Got(content[offset + 1]),
             ferr' = (ferr \/ FALSE), UNCHANGED feof
      PROVE  StreamInv'
  <2> DEFINE c == content[offset + 1]
  <2>1. content' = content /\ offset' = offset + n /\ shortened' = (shortened \/ FALSE)
    BY <1>1, <1>5, ReadingFacts DEF Take
  <2>2. at = offset /\ offset + n <= Len(content) /\ offset + 1 \in 1..Len(content) /\ n \in Nat /\ offset \in Nat
    BY <1>1, <1>3, <1>5, ReadingFacts
  <2>3. c \in Char /\ c # EOF /\ at < Len(text) /\ Due = c /\ c = text[at + 1]
    BY <1>1, <2>2, ReadingFacts DEF Due
  <2> HIDE DEF c
  <2>4. result' = [is |-> c, due |-> c] /\ at' = at + 1 /\ text' = text
    BY <1>5, <2>3 DEF Got, c
  <2>5. fbuf' \in [1..BUFSIZ -> Char \cup {0}] /\ \A i \in 1..n : fbuf'[i] = content[offset + i]
    <3>1. ASSUME NEW i \in 1..BUFSIZ, i <= n PROVE content[offset + i] \in Char
      <4>1. offset + i \in 1..Len(content)
        BY <2>2, <3>1
      <4> QED BY <1>1, <4>1, ReadingFacts
    <3>2. fbuf \in [1..BUFSIZ -> Char \cup {0}]
      BY <1>2 DEF StdioTypes
    <3>3. \A i \in 1..n : i \in 1..BUFSIZ /\ i <= n
      BY <1>1, ReadingFacts
    <3> QED BY <1>5, <3>1, <3>2, <3>3
  <2>6. StdioTypes'
    BY <1>1, <1>2, <1>5, <2>1, <2>2, <2>3, <2>4, <2>5, ReadingFacts DEF StdioTypes
  <2>7. ReadInv'
    <3>1. \A i \in 1..buf_insize' : fbuf'[i] = content'[offset' - buf_insize' + i]
      <4> SUFFICES ASSUME NEW i \in 1..n PROVE fbuf'[i] = content[offset' - n + i]
        BY <1>5, <2>1
      <4>1. offset' - n + i = offset + i
        BY <2>1, <2>2
      <4> QED BY <2>5, <4>1
    <3>2. at' = offset' - buf_insize' + buf_pos' - 0
      BY <1>5, <2>1, <2>2, <2>4
    <3>3. buf_pos' <= buf_insize' /\ buf_insize' <= offset' /\ offset' <= Len(content')
      BY <1>5, <2>1, <2>2
    <3> QED BY <1>1, <1>2, <1>3, <2>1, <2>2, <2>3, <2>4, <3>1, <3>2, <3>3 DEF ReadInv
  <2> QED BY <1>1, <2>4, <2>6, <2>7, ReadsOnly DEF StreamInv, GetRight
<1>6. ASSUME left <= 0, buf_pos = buf_insize, Take(Now), buf_pos' = 0, buf_insize' = 0, feof' = TRUE,
             Got(EOF), ferr' = (ferr \/ FALSE), UNCHANGED fbuf
      PROVE  StreamInv'
  <2>1. content' = content /\ offset' = offset /\ shortened' = (shortened \/ FALSE)
    BY <1>1, <1>6, ReadingFacts DEF Take
  <2>2. at = offset /\ at = Len(text) /\ Due = EOF
    BY <1>1, <1>3, <1>6, ReadingFacts DEF Due
  <2>3. result' = [is |-> EOF, due |-> EOF] /\ at' = at /\ text' = text
    BY <1>6, <2>2 DEF Got
  <2>4. StdioTypes'
    BY <1>1, <1>2, <1>6, <2>1, <2>2, <2>3, ReadingFacts DEF StdioTypes
  <2>5. ReadInv'
    BY <1>1, <1>2, <1>3, <1>6, <2>1, <2>2, <2>3, ReadingFacts DEF ReadInv
  <2> QED BY <1>1, <2>3, <2>4, <2>5, ReadsOnly DEF StreamInv, GetRight
<1>7. ASSUME buf_pos = buf_insize, Take(Now), buf_pos' = 0, buf_insize' = 0, ferr' = TRUE,
             NoByte, UNCHANGED <<fbuf, feof>>
      PROVE  StreamInv'
  <2>1. content' = content /\ offset' = offset /\ shortened' = (shortened \/ FALSE)
    BY <1>1, <1>7, ReadingFacts DEF Take
  <2>2. at = offset /\ result' = [is |-> EOF, due |-> EOF] /\ at' = at /\ text' = text
    BY <1>1, <1>3, <1>7, ReadingFacts DEF NoByte, NoResult
  <2>3. StdioTypes'
    BY <1>1, <1>2, <1>7, <2>1, <2>2, ReadingFacts DEF StdioTypes
  <2>4. ReadInv'
    BY <1>1, <1>2, <1>3, <1>7, <2>1, <2>2, ReadingFacts DEF ReadInv
  <2> QED BY <1>1, <2>2, <2>3, <2>4, ReadsOnly DEF StreamInv, GetRight
<1>8. Pending = <<>> /\ Flushed = {Now} /\ Now = [data |-> content, pos |-> offset, err |-> FALSE, short |-> FALSE]
  BY <1>1, ReadingFacts
<1>9. Now.data = content /\ Now.pos = offset /\ Now.err = FALSE
  BY <1>8
<1>10. \/ /\ buf_pos # buf_insize /\ Take(Now) /\ ferr' = (ferr \/ FALSE)
          /\ buf_pos' = buf_pos + 1 /\ Got(fbuf[buf_pos + 1]) /\ UNCHANGED <<fbuf, buf_insize, feof>>
       \/ \E n \in 1..BUFSIZ :
            /\ n <= left /\ buf_pos = buf_insize
            /\ Take([Now EXCEPT !.pos = @ + n])
            /\ fbuf' = [i \in 1..BUFSIZ |-> IF i <= n THEN content[offset + i] ELSE fbuf[i]]
            /\ buf_insize' = n /\ buf_pos' = 1 /\ Got(content[offset + 1])
            /\ ferr' = (ferr \/ FALSE) /\ UNCHANGED feof
       \/ /\ left <= 0 /\ buf_pos = buf_insize /\ Take(Now) /\ buf_pos' = 0 /\ buf_insize' = 0
          /\ feof' = TRUE /\ Got(EOF) /\ ferr' = (ferr \/ FALSE) /\ UNCHANGED fbuf
       \/ /\ buf_pos = buf_insize /\ Take(Now) /\ buf_pos' = 0 /\ buf_insize' = 0 /\ ferr' = TRUE
          /\ NoByte /\ UNCHANGED <<fbuf, feof>>
  BY <1>8, <1>9, Zenon DEF Empty, GetFbf
<1> QED BY <1>4, <1>5, <1>6, <1>7, <1>10, Zenon

\* The facts of a stream that is written.
LEMMA WritingFacts ==
  ASSUME StdioAssumption, StreamInv, fmode = "w", ~ferr
  PROVE  /\ content \in Seq(Char) /\ Len(content) \in Nat /\ Len(content) <= MaxText
         /\ text \in Seq(Char) /\ Len(text) \in Nat /\ Len(text) <= MaxText /\ at \in 0..Len(text)
         /\ BUFSIZ \in Nat \ {0} /\ MaxText \in Nat /\ buf_pos \in 0..BUFSIZ /\ offset \in 0..Len(content)
         /\ fbuf \in [1..BUFSIZ -> Char \cup {0}]
         /\ shortened \in BOOLEAN /\ buf_write \in BOOLEAN
         /\ ungotc = EOF /\ result = NoResult /\ buf_insize = 0
         /\ Now \in StreamFile /\ ~Now.err /\ ~Now.short /\ Now.data = content /\ Now.pos = offset
         /\ Ahead(content, offset, Pending, text, at, shortened)
<1>1. Ahead(content, offset, Pending, text, at, shortened)
  BY DEF StreamInv, WriteInv
<1>2. Now = [data |-> content, pos |-> offset, err |-> FALSE, short |-> FALSE]
  BY DEF Now, FileOf
<1>3. content \in Seq(Char) /\ offset \in 0..MaxText /\ offset <= Len(content)
  BY <1>1 DEF StreamInv, StdioTypes, Ahead
<1>4. Now \in StreamFile /\ ~Now.err /\ ~Now.short /\ Now.data = content /\ Now.pos = offset
  BY <1>2, <1>3 DEF StreamFile, StdioAssumption
<1> QED BY <1>1, <1>3, <1>4 DEF StreamInv, StdioTypes, WriteInv, StdioAssumption

\* What a flush reaches is no longer than the text.
LEMMA ReachedFits ==
  ASSUME NEW f \in StreamFile, NEW s \in Seq(Char), NEW t \in Seq(Char), NEW a \in Nat, NEW x \in BOOLEAN,
         NEW g, Ahead(f.data, f.pos, s, t, a, x), Reached(f, s, g), Len(t) <= MaxText, MaxText \in Nat
  PROVE  /\ g.data \in Seq(Char) /\ Len(g.data) <= MaxText /\ Len(g.data) \in Nat
         /\ g.pos \in 0..MaxText /\ g.pos \in 0..Len(g.data)
         /\ g.short \in BOOLEAN /\ g.err \in BOOLEAN /\ g \in StreamFile
<1>1. Len(f.data) \in Nat /\ Len(s) \in Nat /\ f.pos \in Nat /\ Len(t) \in Nat
  BY DEF StreamFile
<1>2. /\ g.data \in Seq(Char) /\ g.pos \in Nat /\ g.short \in BOOLEAN /\ g.err \in BOOLEAN
      /\ Len(g.data) \in Nat /\ g \in StreamFile
  BY DEF Reached, StreamFile
<1>3. g.pos <= Len(g.data) /\ Len(g.data) <= Longer(f.pos + Len(s), Len(f.data))
  BY DEF Reached
<1>4. Longer(f.pos + Len(s), Len(f.data)) = Len(t)
  BY DEF Ahead
<1> QED BY <1>1, <1>2, <1>3, <1>4

\* A byte put into the text.
LEMMA PutTypes ==
  ASSUME StdioAssumption, StreamInv, fmode = "w", ~ferr, NEW c \in Char, PutText(c), at < MaxText
  PROVE  /\ text' \in Seq(Char) /\ Len(text') <= MaxText /\ Len(text') \in Nat
         /\ at' \in 0..Len(text') /\ at' = at + 1 /\ result' = NoResult
         /\ text' = Over(text, at, <<c>>)
<1> DEFINE one == <<c>>
           u == Over(text, at, one)
<1>1. one \in Seq(Char) /\ Len(one) = 1
  OBVIOUS
<1>2. text' = u /\ at' = at + 1 /\ result' = NoResult
  BY DEF PutText
<1>3. text \in Seq(Char) /\ at \in 0..Len(text) /\ Len(text) <= MaxText /\ MaxText \in Nat /\ Len(text) \in Nat
  BY WritingFacts
<1> HIDE DEF one
<1>4. u \in Seq(Char) /\ Len(u) = IF at + Len(one) > Len(text) THEN at + Len(one) ELSE Len(text)
  BY <1>1, <1>3, OverRight
<1> HIDE DEF u
<1>5. Len(u) \in Nat /\ Len(u) <= MaxText /\ at + 1 \in 0..Len(u)
  BY <1>1, <1>3, <1>4
<1> QED BY <1>2, <1>4, <1>5 DEF u, one

LEMMA FflushRight == ASSUME StdioAssumption, StreamInv, ~ferr, Fflush PROVE StreamInv'
<1> DEFINE none == <<>>
<1>1. /\ fmode = "w" /\ fmode' = "w" /\ result' = NoResult
      /\ UNCHANGED <<buf_mode, fbuf, buf_insize, buf_write, ungotc, feof, text, at>>
  BY DEF Fflush
<1>2. WriteInv /\ StdioTypes
  BY DEF StreamInv
<1>3. PICK f \in Flushed : Take(f) /\ ferr' = (ferr \/ f.err)
  BY DEF Fflush
<1>4. Reached(Now, Pending, f) /\ Pending \in Seq(Char) /\ (Pending = <<>> <=> buf_pos = 0)
  BY <1>1, <1>2, <1>3, FlushedRight, PendingRight
<1>5. buf_pos' = 0
  BY <1>4 DEF Fflush
<1>6. Pending' = <<>>
  BY <1>5, SubSeqEmpty DEF Pending
<1>7. Ahead(Now.data, Now.pos, Pending, text, at, shortened)
  BY <1>1, WritingFacts
<1>8. /\ f.data \in Seq(Char) /\ Len(f.data) <= MaxText /\ f.pos \in 0..MaxText
      /\ f.short \in BOOLEAN /\ f.err \in BOOLEAN
  BY <1>1, <1>4, <1>7, WritingFacts, ReachedFits
<1>9. StdioTypes'
  BY <1>1, <1>2, <1>3, <1>5, <1>8, WritingFacts DEF StdioTypes, Take
<1>10. WriteInv'
  <2>1. ~ferr' => Ahead(content', offset', Pending', text', at', shortened')
    <3>1. SUFFICES ASSUME ~f.err PROVE Ahead(f.data, f.pos, <<>>, text, at, shortened \/ f.short)
      BY <1>1, <1>3, <1>6 DEF Take
    <3> QED BY <1>1, <1>4, <1>7, <3>1, WritingFacts, AheadFlushed
  <2> QED BY <1>1, <1>2, <1>5, <2>1, WritingFacts DEF WriteInv
<1> QED BY <1>1, <1>9, <1>10, WritesOnly DEF StreamInv, GetRight, NoResult

LEMMA WrongWayRight == ASSUME StdioAssumption, StreamInv, WrongWay PROVE StreamInv'
<1>1. /\ ferr' = TRUE /\ result' = NoResult
      /\ UNCHANGED <<content, offset, shortened, fmode, buf_mode, fbuf, buf_pos, buf_insize, buf_write, ungotc, feof, text, at>>
  BY DEF WrongWay, onDisk
<1>2. StdioTypes'
  BY <1>1 DEF StreamInv, StdioTypes, NoResult
<1>3. ReadInv'
  BY <1>1 DEF StreamInv, ReadInv, NoResult
<1>4. WriteInv'
  BY <1>1 DEF StreamInv, WriteInv
<1> QED BY <1>1, <1>2, <1>3, <1>4 DEF StreamInv, GetRight, NoResult

LEMMA PutNbfRight ==
  ASSUME StdioAssumption, StreamInv, ~ferr, NEW c \in Char, PutNbf(c)
  PROVE  StreamInv'
<1> DEFINE one == <<c>>
<1>1. /\ fmode = "w" /\ fmode' = "w" /\ buf_mode = "none" /\ PutText(c) /\ at < MaxText
      /\ UNCHANGED <<buf_mode, fbuf, buf_pos, buf_insize, buf_write, ungotc, feof>>
  BY DEF PutNbf, MayWrite
<1>2. WriteInv /\ StdioTypes
  BY DEF StreamInv
<1>3. PICK f \in Transfers(Now, one) : Take(f) /\ ferr' = (ferr \/ f.err)
  BY DEF PutNbf
<1>4. buf_write = FALSE /\ buf_pos = 0 /\ Pending = <<>> /\ Pending' = <<>>
  BY <1>1, <1>2, WritingFacts DEF WriteInv, Pending
<1>5. /\ text' \in Seq(Char) /\ Len(text') <= MaxText /\ at' \in 0..Len(text') /\ at' = at + 1
      /\ result' = NoResult /\ text' = Over(text, at, one)
  BY <1>1, PutTypes
<1>6. Ahead(content, offset, one, text', at', shortened)
  <2>1. Pending \in Seq(Char) /\ Append(Pending, c) = one
    BY <1>4
  <2>2. Ahead(content, offset, Pending, text, at, shortened)
    BY <1>1, WritingFacts
  <2>3. /\ at \in Nat /\ offset \in Nat /\ shortened \in BOOLEAN
        /\ content \in Seq(Char) /\ text \in Seq(Char)
    BY <1>1, WritingFacts
  <2>4. Ahead(content, offset, Append(Pending, c), Over(text, at, <<c>>), at + 1, shortened)
    BY <2>1, <2>2, <2>3, AheadMore, Zenon
  <2> QED BY <1>5, <2>1, <2>4
<1>7. one \in Seq(Char)
  OBVIOUS
<1> HIDE DEF one
<1>8. Reached(Now, one, f)
  <2>1. Now.pos <= Len(Now.data)
    BY <1>1, WritingFacts
  <2> QED BY <1>1, <1>3, <1>7, <2>1, WritingFacts, TransfersRight
<1>9. Ahead(Now.data, Now.pos, one, text', at', shortened) /\ at' \in Nat /\ MaxText \in Nat
  BY <1>1, <1>5, <1>6, WritingFacts
<1>10. /\ f.data \in Seq(Char) /\ Len(f.data) <= MaxText /\ f.pos \in 0..MaxText
       /\ f.short \in BOOLEAN /\ f.err \in BOOLEAN
  BY <1>1, <1>5, <1>7, <1>8, <1>9, WritingFacts, ReachedFits
<1>11. StdioTypes'
  BY <1>1, <1>2, <1>3, <1>5, <1>10, WritingFacts DEF StdioTypes, Take, NoResult
<1>12. WriteInv'
  <2>1. ~ferr' => Ahead(content', offset', Pending', text', at', shortened')
    <3>1. SUFFICES ASSUME ~f.err PROVE Ahead(f.data, f.pos, <<>>, text', at', shortened \/ f.short)
      BY <1>3, <1>4 DEF Take
    <3> QED BY <1>1, <1>5, <1>7, <1>8, <1>9, <3>1, WritingFacts, AheadFlushed
  <2> QED BY <1>1, <1>2, <1>4, <1>5, <2>1, WritingFacts DEF WriteInv
<1> QED BY <1>1, <1>5, <1>11, <1>12, WritesOnly DEF StreamInv, GetRight, NoResult

\* The buffer with a byte put behind what is pending.
LEMMA BufferRight ==
  ASSUME BUFSIZ \in Nat, NEW b \in [1..BUFSIZ -> Char \cup {0}], NEW s \in Seq(Char), NEW c \in Char,
         Len(s) < BUFSIZ, \A i \in 1..Len(s) : b[i] = s[i], b[Len(s) + 1] = c
  PROVE  /\ SubSeq(b, 1, Len(s) + 1) = Append(s, c)
         /\ \A i \in 1..(Len(s) + 1) : b[i] \in Char
<1> DEFINE n == Len(s) + 1
           q == SubSeq(b, 1, n)
           t == Append(s, c)
<1>1. n \in Nat /\ n \in 1..BUFSIZ /\ \A i \in 1..n : i \in 1..Len(s) \/ i = n
  OBVIOUS
<1>2. \A i \in 1..n : b[i] \in Char
  BY <1>1
<1>3. t \in Seq(Char) /\ Len(t) = n /\ \A i \in 1..n : t[i] = b[i]
  BY <1>1
<1>4. q \in Seq(Char) /\ Len(q) = n /\ \A i \in 1..n : q[i] = b[i]
  <2> HIDE DEF n
  <2>1. /\ q \in Seq(Char) /\ Len(q) = (IF 1 <= n THEN n - 1 + 1 ELSE 0)
        /\ \A i \in 1..(n - 1 + 1) : q[i] = b[1 + i - 1]
    BY <1>1, <1>2, SubSeqProperties
  <2>2. n - 1 + 1 = n /\ 1 <= n /\ \A i \in 1..n : 1 + i - 1 = i
    BY <1>1
  <2> HIDE DEF q
  <2> QED BY <2>1, <2>2
<1> HIDE DEF q, t
<1>5. q = t
  BY <1>3, <1>4, SeqEqual
<1> QED BY <1>2, <1>5 DEF q, t

LEMMA PutFbfRight ==
  ASSUME StdioAssumption, StreamInv, ~ferr, NEW c \in Char, PutFbf(c)
  PROVE  StreamInv'
<1> DEFINE full == buf_pos = BUFSIZ
           s == IF full THEN <<>> ELSE Pending
           i == IF full THEN 1 ELSE buf_pos + 1
           line == buf_mode = "line" /\ c = NL
           b == [fbuf EXCEPT ![i] = c]
<1>1. /\ fmode = "w" /\ fmode' = "w" /\ buf_mode # "none" /\ PutText(c) /\ at < MaxText
      /\ buf_write' = TRUE /\ buf_insize' = IF buf_write THEN buf_insize ELSE 0
      /\ UNCHANGED <<buf_mode, ungotc, feof>>
  BY DEF PutFbf, MayWrite
<1>2. WriteInv /\ StdioTypes
  BY DEF StreamInv
<1>3. (IF buf_write THEN buf_pos ELSE 0) = buf_pos /\ buf_insize' = 0
  BY <1>1, <1>2, WritingFacts DEF WriteInv
<1>4. /\ Pending \in Seq(Char) /\ Len(Pending) = buf_pos
      /\ \A j \in 1..buf_pos : Pending[j] = fbuf[j]
      /\ buf_pos > 0 => buf_write
  BY <1>1, <1>2, PendingRight
<1>5. full => fbuf = Pending
  <2>1. SUFFICES ASSUME full PROVE SubSeq(fbuf, 1, BUFSIZ) = fbuf
    <3>1. BUFSIZ > 0
      BY <1>1, WritingFacts
    <3> QED BY <1>4, <3>1 DEF Pending
  <2>2. fbuf \in Seq(Char \cup {0}) /\ Len(fbuf) = BUFSIZ
    BY <1>1, WritingFacts, SeqDef
  <2> QED BY <2>2, SubSeqFull
<1>6. PICK f \in IF full THEN Flushes(Now, Pending) ELSE {Now} :
        IF f.err
        THEN /\ Take(f) /\ ferr' = TRUE /\ buf_pos' = 0 /\ UNCHANGED fbuf
        ELSE \E g \in IF line THEN Flushes(f, SubSeq(b, 1, i)) ELSE {f} :
               /\ Take(g) /\ ferr' = (ferr \/ g.err)
               /\ fbuf' = b /\ buf_pos' = IF line THEN 0 ELSE i
  BY <1>3, <1>5, Zenon DEF PutFbf
<1>7. /\ text' \in Seq(Char) /\ Len(text') <= MaxText /\ Len(text') \in Nat
      /\ at' \in 0..Len(text') /\ at' = at + 1 /\ result' = NoResult
      /\ text' = Over(text, at, <<c>>)
  BY <1>1, PutTypes
<1>8. /\ f.data \in Seq(Char) /\ Len(f.data) <= MaxText /\ Len(f.data) \in Nat
      /\ f.pos \in 0..MaxText /\ f.pos \in 0..Len(f.data)
      /\ f.short \in BOOLEAN /\ f.err \in BOOLEAN /\ f \in StreamFile
      /\ ~f.err => Ahead(f.data, f.pos, s, text, at, shortened \/ f.short)
  <2>1. Ahead(Now.data, Now.pos, Pending, text, at, shortened) /\ at \in Nat
    BY <1>1, WritingFacts
  <2>2. CASE full
    <3>1. Reached(Now, Pending, f)
      <4>1. Now.pos <= Len(Now.data) /\ f \in Flushes(Now, Pending)
        BY <1>1, <1>6, <2>2, WritingFacts
      <4> QED BY <1>1, <1>4, <4>1, WritingFacts, FlushesRight
    <3>2. ~f.err => Ahead(f.data, f.pos, <<>>, text, at, shortened \/ f.short)
      BY <1>1, <1>4, <2>1, <3>1, WritingFacts, AheadFlushed
    <3>3. /\ f.data \in Seq(Char) /\ Len(f.data) <= MaxText /\ Len(f.data) \in Nat
          /\ f.pos \in 0..MaxText /\ f.pos \in 0..Len(f.data)
          /\ f.short \in BOOLEAN /\ f.err \in BOOLEAN /\ f \in StreamFile
      BY <1>1, <1>4, <2>1, <3>1, WritingFacts, ReachedFits
    <3> QED BY <2>2, <3>2, <3>3
  <2>3. CASE ~full
    <3>1. f = Now /\ s = Pending
      BY <1>6, <2>3
    <3>2. (shortened \/ f.short) = shortened
      BY <1>1, <3>1, WritingFacts
    <3> QED BY <1>1, <2>1, <3>1, <3>2, WritingFacts DEF StreamFile
  <2> QED BY <2>2, <2>3
<1>9. /\ s \in Seq(Char) /\ i = Len(s) + 1 /\ Len(s) < BUFSIZ /\ i \in 1..BUFSIZ
      /\ \A j \in 1..Len(s) : fbuf[j] = s[j]
  <2>1. <<>> \in Seq(Char) /\ Len(<<>>) = 0
    OBVIOUS
  <2>2. BUFSIZ \in Nat \ {0} /\ buf_pos \in 0..BUFSIZ
    BY <1>1, WritingFacts
  <2>3. CASE full
    BY <2>1, <2>2, <2>3
  <2>4. CASE ~full
    BY <1>4, <2>2, <2>4
  <2> QED BY <2>3, <2>4
<1>10. /\ b \in [1..BUFSIZ -> Char \cup {0}]
       /\ SubSeq(b, 1, i) = Append(s, c)
       /\ \A j \in 1..i : b[j] \in Char
  <2> HIDE DEF i, s
  <2>1. b \in [1..BUFSIZ -> Char \cup {0}]
    BY <1>1, <1>9, WritingFacts
  <2>2. /\ \A j \in 1..Len(s) : b[j] = s[j]
        /\ b[Len(s) + 1] = c
    BY <1>1, <1>9, WritingFacts
  <2> HIDE DEF b
  <2> QED BY <1>1, <1>9, <2>1, <2>2, WritingFacts, BufferRight
<1> HIDE DEF s, i, b, line
<1>11. CASE f.err
  <2>1. Take(f) /\ ferr' = TRUE /\ buf_pos' = 0 /\ UNCHANGED fbuf
    BY <1>6, <1>11
  <2>2. StdioTypes'
    BY <1>1, <1>2, <1>3, <1>7, <1>8, <2>1, WritingFacts DEF StdioTypes, Take, NoResult
  <2>3. WriteInv'
    BY <1>1, <1>2, <1>3, <1>7, <2>1, WritingFacts DEF WriteInv
  <2> QED BY <1>1, <1>7, <2>2, <2>3, WritesOnly DEF StreamInv, GetRight, NoResult
<1>12. CASE ~f.err
  <2>1. PICK g \in IF line THEN Flushes(f, SubSeq(b, 1, i)) ELSE {f} :
          /\ Take(g) /\ ferr' = (ferr \/ g.err)
          /\ fbuf' = b /\ buf_pos' = IF line THEN 0 ELSE i
    BY <1>6, <1>12
  <2> DEFINE t == Append(s, c)
             x == shortened \/ f.short
  <2>2. t \in Seq(Char) /\ x \in BOOLEAN /\ at \in Nat /\ at' \in Nat
    BY <1>1, <1>7, <1>8, <1>9, WritingFacts
  <2>3. Ahead(f.data, f.pos, t, text', at', x)
    <3>1. f.pos \in Nat
      BY <1>8
    <3>2. Ahead(f.data, f.pos, t, Over(text, at, <<c>>), at + 1, x)
      BY <1>1, <1>8, <1>9, <1>12, <2>2, <3>1, WritingFacts, AheadMore
    <3> QED BY <1>7, <3>2
  <2> HIDE DEF t, x
  <2>4. CASE line
    <3>1. g \in Flushes(f, t)
      BY <1>10, <2>1, <2>4 DEF t
    <3>2. Reached(f, t, g)
      BY <1>8, <1>12, <2>2, <3>1, FlushesRight
    <3>3. /\ g.data \in Seq(Char) /\ Len(g.data) <= MaxText /\ g.pos \in 0..MaxText
          /\ g.short \in BOOLEAN /\ g.err \in BOOLEAN
      BY <1>1, <1>7, <1>8, <2>2, <2>3, <3>2, WritingFacts, ReachedFits
    <3>4. ~g.err => Ahead(g.data, g.pos, <<>>, text', at', x \/ g.short)
      BY <1>7, <1>8, <2>2, <2>3, <3>2, AheadFlushed
    <3>5. (x \/ g.short) = (shortened \/ g.short)
      <4>1. f.short => g.short
        BY <3>2 DEF Reached
      <4> QED BY <1>1, <1>8, <3>3, <4>1, WritingFacts, Zenon DEF x
    <3>6. buf_pos' = 0 /\ Pending' = <<>>
      <4>1. buf_pos' = 0
        BY <2>1, <2>4
      <4> QED BY <4>1, SubSeqEmpty DEF Pending
    <3>7. StdioTypes'
      BY <1>1, <1>2, <1>3, <1>7, <1>10, <2>1, <3>3, <3>6, WritingFacts DEF StdioTypes, Take, NoResult
    <3>8. WriteInv'
      <4>1. ~ferr' => Ahead(content', offset', Pending', text', at', shortened')
        BY <2>1, <3>4, <3>5, <3>6 DEF Take
      <4> QED BY <1>1, <1>2, <1>3, <1>7, <3>6, <4>1, WritingFacts DEF WriteInv
    <3> QED BY <1>1, <1>7, <3>7, <3>8, WritesOnly DEF StreamInv, GetRight, NoResult
  <2>5. CASE ~line
    <3>1. g = f /\ buf_pos' = i /\ fbuf' = b
      BY <2>1, <2>5
    <3>2. Pending' = t
      BY <1>1, <1>10, <3>1 DEF Pending, t
    <3>3. StdioTypes'
      BY <1>1, <1>2, <1>3, <1>7, <1>8, <1>9, <1>10, <2>1, <3>1, WritingFacts DEF StdioTypes, Take, NoResult
    <3>4. WriteInv'
      <4>1. Ahead(content', offset', Pending', text', at', shortened')
        BY <2>1, <2>3, <3>1, <3>2 DEF Take, x
      <4>2. \A j \in 1..buf_pos' : fbuf'[j] \in Char
        BY <1>10, <3>1
      <4> QED BY <1>1, <1>2, <1>3, <1>7, <4>1, <4>2, WritingFacts DEF WriteInv
    <3> QED BY <1>1, <1>7, <3>3, <3>4, WritesOnly DEF StreamInv, GetRight, NoResult
  <2> QED BY <2>4, <2>5
<1> QED BY <1>11, <1>12

\* Where fseek goes is where the standard says, whatever fflush before it did.
LEMMA SoughtRight ==
  ASSUME StdioAssumption, StreamInv, fmode = "w", ~ferr,
         NEW w \in {"SET", "CUR", "END"}, NEW off \in Int, NEW f \in Flushed,
         w = "CUR" => Pending = <<>>, Target(w, off, at) \in 0..Len(text),
         NEW to, to = IF w = "END" THEN Len(f.data) + off ELSE Target(w, off, ftell(Now))
  PROVE  /\ to \in Int /\ to <= MaxText
         /\ ~f.err => /\ to = Target(w, off, at)
                      /\ Ahead(f.data, to, <<>>, text, to, shortened \/ f.short)
<1> DEFINE here == Target(w, off, at)
<1>1. WriteInv /\ StdioTypes
  BY DEF StreamInv
<1>2. Reached(Now, Pending, f) /\ (Pending = <<>> => f = Now) /\ Pending \in Seq(Char) /\ Len(Pending) = buf_pos
  BY <1>1, FlushedRight, PendingRight
<1>3. Ahead(Now.data, Now.pos, Pending, text, at, shortened) /\ at \in Nat
  BY WritingFacts
<1>4. /\ f.data \in Seq(Char) /\ Len(f.data) <= MaxText /\ Len(f.data) \in Nat /\ f.pos \in Nat
      /\ f.short \in BOOLEAN /\ f.err \in BOOLEAN
  BY <1>2, <1>3, WritingFacts, ReachedFits
<1>5. ASSUME ~f.err
      PROVE  /\ Len(text) = Len(f.data) /\ at = f.pos
             /\ \A q \in 0..Len(text) : Ahead(f.data, q, <<>>, text, q, shortened \/ f.short)
  <2>1. Ahead(f.data, f.pos, <<>>, text, at, shortened \/ f.short)
    BY <1>2, <1>3, <1>5, WritingFacts, AheadFlushed
  <2> QED BY <1>3, <1>4, <2>1, WritingFacts, AheadSought
<1>6. CASE w = "SET"
  <2>1. to = off /\ here = off
    BY <1>6 DEF Target
  <2> QED BY <1>5, <2>1, WritingFacts
<1>7. CASE w = "CUR"
  <2>1. Pending = <<>> /\ f = Now /\ ~f.err
    BY <1>2, <1>7, WritingFacts
  <2>2. at = offset
    BY <1>5, <2>1, WritingFacts
  <2>3. buf_pos = 0 /\ buf_insize = 0 /\ ungotc = EOF
    BY <1>2, <2>1, WritingFacts
  <2>4. ftell(Now) = offset
    BY <2>3, WritingFacts DEF ftell
  <2>5. to = offset + off /\ here = at + off
    BY <1>7, <2>4 DEF Target
  <2> QED BY <1>5, <2>1, <2>2, <2>5, WritingFacts
<1>8. CASE w = "END"
  <2>1. to = Len(f.data) + off /\ here = Len(text) + off
    BY <1>8 DEF Target
  <2>2. off <= 0 /\ to <= MaxText /\ to \in Int
    BY <1>4, <2>1, WritingFacts
  <2> QED BY <1>5, <2>1, <2>2, WritingFacts
<1> QED BY <1>6, <1>7, <1>8

LEMMA FseekRight ==
  ASSUME StdioAssumption, StreamInv, ~ferr, NEW w \in {"SET", "CUR", "END"}, NEW off \in Int, Fseek(w, off)
  PROVE  StreamInv'
<1> DEFINE here == Target(w, off, at)
<1>1. /\ ungotc = EOF /\ (w = "CUR" => Pending = <<>>) /\ here \in 0..Len(text)
      /\ buf_pos' = 0 /\ buf_insize' = 0 /\ at' = here /\ result' = NoResult
      /\ UNCHANGED <<fmode, buf_mode, fbuf, buf_write, ungotc, feof, text>>
  BY DEF Fseek
<1>2. WriteInv /\ ReadInv /\ StdioTypes
  BY DEF StreamInv
<1>3. PICK f \in Flushed :
        LET to == IF w = "END" THEN Len(f.data) + off ELSE Target(w, off, ftell(Now))
        IN  /\ Take([f EXCEPT !.pos = IF to < 0 THEN @ ELSE to])
            /\ ferr' = (ferr \/ f.err \/ to < 0)
  BY DEF Fseek
<1> DEFINE to == IF w = "END" THEN Len(f.data) + off ELSE Target(w, off, ftell(Now))
<1>4. f \in StreamFile => /\ content' = f.data /\ offset' = (IF to < 0 THEN f.pos ELSE to)
                          /\ shortened' = (shortened \/ f.short) /\ ferr' = (ferr \/ f.err \/ to < 0)
  <2> HIDE DEF to
  <2>1. Take([f EXCEPT !.pos = IF to < 0 THEN @ ELSE to]) /\ ferr' = (ferr \/ f.err \/ to < 0)
    BY <1>3 DEF to
  <2>2. f \in StreamFile =>
          [f EXCEPT !.pos = IF to < 0 THEN @ ELSE to] =
          [data |-> f.data, pos |-> IF to < 0 THEN f.pos ELSE to, err |-> f.err, short |-> f.short]
    BY DEF StreamFile
  <2> QED BY <2>1, <2>2 DEF Take
<1>5. CASE fmode = "r"
  <2>1. f = Now /\ f = [data |-> content, pos |-> offset, err |-> FALSE, short |-> FALSE]
    BY <1>3, <1>5, ReadingFacts DEF StreamInv
  <2>2. /\ f \in StreamFile /\ f.data = content /\ f.pos = offset /\ ~f.err /\ ~f.short
        /\ content = text /\ content \in Seq(Char)
    BY <1>5, <2>1, ReadingFacts DEF StreamFile
  <2>3. ftell(Now) = at
    BY <1>1, <1>2, <1>5, <2>1, <2>2, ReadingFacts DEF ftell, ReadInv
  <2>4. to = here
    BY <2>2, <2>3 DEF Target
  <2>5. to \in 0..Len(text) /\ ~(to < 0)
    BY <1>1, <1>5, <2>4, ReadingFacts
  <2> HIDE DEF to, here
  <2>6. content' = content /\ offset' = here /\ ferr' \in BOOLEAN /\ shortened' \in BOOLEAN
    BY <1>2, <1>4, <2>2, <2>4, <2>5 DEF StdioTypes
  <2>7. StdioTypes'
    BY <1>1, <1>2, <1>5, <2>2, <2>6, ReadingFacts DEF StdioTypes, NoResult
  <2>8. ReadInv'
    BY <1>1, <1>2, <1>5, <2>2, <2>6, ReadingFacts DEF ReadInv, NoResult
  <2>9. fmode' = "r"
    BY <1>1, <1>5
  <2> QED BY <1>1, <2>7, <2>8, <2>9, ReadsOnly DEF StreamInv, GetRight, NoResult
<1>6. CASE fmode = "w"
  <2>1. Reached(Now, Pending, f) /\ Pending \in Seq(Char)
    BY <1>2, <1>6, FlushedRight, PendingRight
  <2>2. Ahead(Now.data, Now.pos, Pending, text, at, shortened) /\ at \in Nat
    BY <1>6, WritingFacts
  <2>3. /\ f.data \in Seq(Char) /\ Len(f.data) <= MaxText /\ Len(f.data) \in Nat /\ f.pos \in 0..MaxText
        /\ f.short \in BOOLEAN /\ f.err \in BOOLEAN /\ f \in StreamFile
    BY <1>6, <2>1, <2>2, WritingFacts, ReachedFits
  <2>4. /\ to \in Int /\ to <= MaxText
        /\ ~f.err => to = here /\ Ahead(f.data, to, <<>>, text, to, shortened \/ f.short)
    BY <1>1, <1>6, SoughtRight
  <2> HIDE DEF to, here
  <2>5. content' = f.data /\ offset' \in 0..MaxText /\ shortened' = (shortened \/ f.short) /\ ferr' = (ferr \/ f.err \/ to < 0)
    BY <1>4, <1>6, <2>3, <2>4, WritingFacts
  <2>6. Pending' = <<>>
    BY <1>1, SubSeqEmpty DEF Pending
  <2>7. StdioTypes'
    BY <1>1, <1>2, <1>6, <2>3, <2>5, WritingFacts DEF StdioTypes, NoResult
  <2>8. ~ferr' => Ahead(content', offset', Pending', text', at', shortened')
    <3>1. SUFFICES ASSUME ~ferr' PROVE Ahead(content', offset', Pending', text', at', shortened')
      OBVIOUS
    <3>2. ~f.err /\ ~(to < 0)
      BY <2>5, <3>1
    <3>3. offset' = to /\ to = at' /\ text' = text
      BY <1>1, <1>4, <2>3, <2>4, <3>2
    <3> QED BY <2>4, <2>5, <2>6, <3>2, <3>3
  <2>9. WriteInv'
    BY <1>1, <1>2, <1>6, <2>6, <2>8, WritingFacts DEF WriteInv
  <2>10. fmode' = "w"
    BY <1>1, <1>6
  <2> QED BY <1>1, <2>7, <2>9, <2>10, WritesOnly DEF StreamInv, GetRight, NoResult
<1> QED BY <1>2, <1>5, <1>6 DEF StdioTypes

LEMMA StreamStep == ASSUME StdioAssumption, StreamInv, [StdioNext]_stdioVars PROVE StreamInv'
<1>1. CASE UNCHANGED stdioVars
  <2>1. UNCHANGED <<content, offset, shortened, fmode, buf_mode, fbuf, buf_pos, buf_insize, buf_write, ungotc, ferr, feof,
                    text, at, result>>
    BY <1>1 DEF stdioVars, onDisk
  <2>2. Pending' = Pending
    BY <2>1 DEF Pending
  <2> QED BY <2>1, <2>2 DEF StreamInv, StdioTypes, GetRight, ReadInv, WriteInv
<1>2. CASE StdioNext
  <2>1. ~ferr
    BY <1>2 DEF StdioNext
  <2>2. -1..1 \subseteq Int
    OBVIOUS
  <2>3. CASE \E c \in Char : PutNbf(c) \/ PutFbf(c)
    BY <2>1, <2>3, PutNbfRight, PutFbfRight
  <2>4. CASE \E w \in {"SET", "CUR", "END"}, off \in -1..1 : Fseek(w, off)
    BY <2>1, <2>2, <2>4, FseekRight
  <2>5. CASE WrongWay \/ Fflush
    BY <2>1, <2>5, WrongWayRight, FflushRight
  <2>6. CASE GetUngot \/ GetNbf \/ GetFbf \/ Ungetc
    BY <2>6, GetUngotRight, GetNbfRight, GetFbfRight, UngetcRight
  <2> QED BY <1>2, <2>3, <2>4, <2>5, <2>6 DEF StdioNext
<1> QED BY <1>1, <1>2

LEMMA StreamMeans == ASSUME StdioAssumption, StreamInv PROVE StdioRight
<1>1. StdioTypes /\ GetRight /\ ReadInv /\ WriteInv
  BY DEF StreamInv
<1>2. PutRight
  <2>1. CASE fmode = "w"
    BY <1>1, <2>1 DEF PutRight, WriteInv, Ahead
  <2>2. CASE fmode = "r"
    <3>1. Pending = <<>> /\ content = text /\ content \in Seq(Char) /\ offset \in 0..Len(content)
      BY <2>2, ReadingFacts
    <3>2. Over(content, offset, <<>>) = content
      BY <3>1, OverNone
    <3> QED BY <3>1, <3>2 DEF PutRight
  <2> QED BY <1>1, <2>1, <2>2 DEF StdioTypes
<1>3. TellRight
  <2>1. SUFFICES ASSUME ~ferr, Pending = <<>> PROVE ftell(Now) = at
    BY DEF TellRight
  <2>2. CASE fmode = "r"
    <3>1. Now.pos = offset
      BY <2>2, ReadingFacts
    <3> QED BY <1>1, <2>2, <3>1, ReadingFacts DEF ftell, ReadInv
  <2>3. CASE fmode = "w"
    <3>1. Len(Pending) = buf_pos /\ Len(Pending) = 0
      BY <1>1, <2>1, <2>3, PendingRight
    <3>2. at = offset + Len(Pending)
      BY <1>1, <2>1, <2>3 DEF WriteInv, Ahead
    <3> QED BY <2>1, <2>3, <3>1, <3>2, WritingFacts DEF ftell
  <2> QED BY <1>1, <2>2, <2>3 DEF StdioTypes
<1> QED BY <1>1, <1>2, <1>3 DEF StdioRight

\* A stream is what the standard has it, for every size of the buffer, every set of bytes, every
\* file and any number of calls, read() and write() that are short, and any that fail (fgetc,
\* fputc, ungetc, fflush, fseek, ftell).
THEOREM StdioCorrect == ASSUME StdioAssumption PROVE StdioSpec => []StdioRight
<1>1. StdioInit => StreamInv
  BY StdioStarts
<1>2. StreamInv /\ [StdioNext]_stdioVars => StreamInv'
  BY StreamStep
<1>3. StreamInv => StdioRight
  BY StreamMeans
<1> QED BY <1>1, <1>2, <1>3, PTL DEF StdioSpec
=============================================================================
