------------------------------ MODULE RingBuf ------------------------------
(***************************************************************************)
(* The ring buffer of the C library (src/lib/ringbuf.c): bytes are copied  *)
(* in and out in one or two pieces, and a request is cut to what fits.     *)
(***************************************************************************)
EXTENDS Integers, Sequences, SequencesExt

CONSTANTS Size,      \* rb->size
          Byte,
          MaxCount   \* the longest request

\* What the constants of an instance satisfy.
RingBufAssumption == Size \in Nat \ {0} /\ MaxCount \in Nat

VARIABLES
    buf, head, util,
    queue,     \* what has been written and not yet read
    got        \* what the last call copied out, and what it should have

vars == <<buf, head, util, queue, got>>

Data == BoundedSeq(Byte, MaxCount)

TypeOK ==
    /\ buf \in [0..(Size - 1) -> Byte]
    /\ head \in 0..(Size - 1)
    /\ util \in 0..Size
    /\ queue \in Seq(Byte)

\* rb_init over a buffer that holds anything.
Init ==
    /\ buf \in [0..(Size - 1) -> Byte]
    /\ head = 0
    /\ util = 0
    /\ queue = <<>>
    /\ got = [is |-> <<>>, due |-> <<>>]

Least(a, b) == IF a < b THEN a ELSE b

\* memcpy into the buffer at a, and out of it.
CopyIn(b, a, d) == [i \in DOMAIN b |-> IF i \in a..(a + Len(d) - 1) THEN d[i - a + 1] ELSE b[i]]
CopyOut(a, n) == [i \in 1..n |-> buf[a + i - 1]]

\* Mutant: what does not fit before the end goes nowhere.
PutIn_NoWrap(d, tail) == CopyIn(buf, tail, d)

\* The bytes d put in from tail on: in two pieces where the end of the buffer is passed.
PutIn(d, tail) ==
    LET split == Size - tail
    IN  IF tail + Len(d) > Size
        THEN CopyIn(CopyIn(buf, tail, SubSeq(d, 1, split)), 0, SubSeq(d, split + 1, Len(d)))
        ELSE CopyIn(buf, tail, d)

\* n bytes taken out from a on.
TakeOut(a, n) ==
    LET split == Size - a
    IN  IF a + n > Size
        THEN CopyOut(a, split) \o CopyOut(0, n - split)
        ELSE CopyOut(a, n)

rb_write(d) ==
    LET cut == SubSeq(d, 1, Least(Len(d), Size - util))
    IN  /\ buf' = PutIn(cut, (head + util) % Size)
        /\ util' = util + Len(cut)
        /\ queue' = queue \o cut
        /\ got' = [is |-> <<>>, due |-> <<>>]
        /\ UNCHANGED head

rb_read(sz) ==
    LET n == Least(sz, util)
    IN  /\ got' = [is |-> TakeOut(head, n), due |-> SubSeq(queue, 1, n)]
        /\ head' = (head + n) % Size
        /\ util' = util - n
        /\ queue' = SubSeq(queue, n + 1, Len(queue))
        /\ UNCHANGED buf

PeekAt(off) == (off + head) % Size

rb_peek(sz, off) ==
    LET n == Least(sz, util - off)
    IN  /\ got' = IF off >= util THEN [is |-> <<>>, due |-> <<>>]
                  ELSE [is |-> TakeOut(PeekAt(off), n), due |-> SubSeq(queue, off + 1, off + n)]
        /\ UNCHANGED <<buf, head, util, queue>>

Next ==
    \/ \E d \in Data : rb_write(d)
    \/ \E sz \in 0..MaxCount : rb_read(sz)
    \/ \E sz, off \in 0..MaxCount : rb_peek(sz, off)

Spec == Init /\ [][Next]_vars

----------------------------------------------------------------------------
(* Properties.                                                              *)

\* The buffer holds the bytes written and not read, in order, from head on.
HoldsQueue ==
    /\ util = Len(queue)
    /\ \A i \in 1..Len(queue) : buf[(head + i - 1) % Size] = queue[i]

\* A read or a peek returns those bytes, wherever the end of the buffer falls.
OutRight == got.is = got.due

\* The ring is a queue of bytes, and gives them out as one.
RingRight == TypeOK /\ HoldsQueue /\ OutRight
=============================================================================
