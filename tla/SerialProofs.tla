---------------------------- MODULE SerialProofs ----------------------------
(***************************************************************************)
(* The serial port is right for every set of tasks, every size of the      *)
(* buffers and every number of bytes, whether or not the port is opened    *)
(* while its last close waits.                                             *)
(*                                                                         *)
(* SerialInv, the inductive invariant, has four parts.  UsersInv and       *)
(* FilesInv say who is in the kernel and who has the port: a task in a     *)
(* call holds a descriptor, one task at a time opens or closes, fso counts *)
(* the descriptors and the open on its way, and port_open and refcnt       *)
(* follow linked.  OutForm says, place by place, which byte is on the      *)
(* wire, in the port and in out_buf: from this the order of what is sent   *)
(* follows, and each step moves one byte.  InForm does the same for what   *)
(* arrives, as order and disjoint sets, for bytes may be dropped.          *)
(* ReadyInv ties cdev.state to the file object's copy: they agree while    *)
(* cdev.fso is set, and a closed port has nothing to read.                 *)
(***************************************************************************)
EXTENDS Serial, FiniteSetTheorems, SequenceTheorems, TLAPS

-----------------------------------------------------------------------------
(* Bytes on their way out.                                                 *)

\* What is on the wire (w), in the port (h) and in out_buf (o), place by place, when n bytes
\* have been taken.
OutForm(w, h, o, n) ==
  /\ w \in Seq(Nat) /\ h \in Seq(Nat) /\ o \in Seq(Nat) /\ n \in Nat
  /\ Len(h) <= 1
  /\ Len(w) + Len(h) + Len(o) = n
  /\ \A i \in 1..Len(w) : w[i] = i
  /\ \A i \in 1..Len(h) : h[i] = Len(w) + i
  /\ \A i \in 1..Len(o) : o[i] = Len(w) + Len(h) + i

\* What belongs to a sequence of numbers.
LEMMA ElemsOf ==
  ASSUME NEW s \in Seq(Nat)
  PROVE Len(s) \in Nat /\ DOMAIN s = 1..Len(s) /\ \A i \in 1..Len(s) : s[i] \in Nat
OBVIOUS

\* Two sequences in a row, place by place.
LEMMA InRow ==
  ASSUME NEW s \in Seq(Nat), NEW u \in Seq(Nat)
  PROVE /\ s \o u \in Seq(Nat)
        /\ Len(s \o u) = Len(s) + Len(u)
        /\ \A i \in 1..Len(s) : (s \o u)[i] = s[i]
        /\ \A i \in 1..Len(u) : (s \o u)[Len(s) + i] = u[i]
OBVIOUS

\* A sequence that is not empty has a first place.
LEMMA NotEmpty == ASSUME NEW s \in Seq(Nat), s # <<>> PROVE Len(s) \in Nat /\ Len(s) > 0
BY EmptySeq

\* Read as one sequence, they are the bytes taken, in order.
LEMMA OutInOrder ==
  ASSUME NEW w, NEW h, NEW o, NEW n, OutForm(w, h, o, n)
  PROVE w \o h \o o = [i \in 1..n |-> i]
<1>1. w \in Seq(Nat) /\ h \in Seq(Nat) /\ o \in Seq(Nat) /\ n \in Nat
  BY DEF OutForm
<1>2. Len(w) \in Nat /\ Len(h) \in Nat /\ Len(o) \in Nat
  BY <1>1
<1>3. PICK a : a = w \o h
  OBVIOUS
<1>4. /\ a \in Seq(Nat) /\ Len(a) = Len(w) + Len(h)
      /\ \A i \in 1..Len(w) : a[i] = w[i]
      /\ \A i \in 1..Len(h) : a[Len(w) + i] = h[i]
  BY <1>1, <1>3, InRow
<1>5. PICK b : b = a \o o
  OBVIOUS
<1>6. /\ b \in Seq(Nat) /\ Len(b) = Len(a) + Len(o)
      /\ \A i \in 1..Len(a) : b[i] = a[i]
      /\ \A i \in 1..Len(o) : b[Len(a) + i] = o[i]
  BY <1>1, <1>4, <1>5, InRow
<1>7. Len(b) = n
  BY <1>4, <1>6 DEF OutForm
<1>8. ASSUME NEW i \in 1..n PROVE b[i] = i
  <2>1. CASE i <= Len(w)
    <3>1. i \in 1..Len(w) /\ i \in 1..Len(a)
      BY <2>1, <1>2, <1>4, <1>1
    <3>2. w[i] = i
      BY <3>1 DEF OutForm
    <3>3. QED
      BY <3>1, <3>2, <1>4, <1>6
  <2>2. CASE i > Len(w) /\ i <= Len(a)
    <3>1. PICK k \in 1..Len(h) : i = Len(w) + k
      <4>1. i - Len(w) \in 1..Len(h) /\ i = Len(w) + (i - Len(w))
        BY <2>2, <1>2, <1>4, <1>1
      <4>2. QED
        BY <4>1
    <3>2. h[k] = Len(w) + k
      BY <3>1 DEF OutForm
    <3>3. i \in 1..Len(a)
      BY <2>2, <1>2, <1>1, <1>4
    <3>4. QED
      BY <3>1, <3>2, <3>3, <1>4, <1>6
  <2>3. CASE i > Len(a)
    <3>1. PICK k \in 1..Len(o) : i = Len(a) + k
      <4>1. i - Len(a) \in 1..Len(o) /\ i = Len(a) + (i - Len(a))
        BY <2>3, <1>2, <1>4, <1>6, <1>7, <1>1
      <4>2. QED
        BY <4>1
    <3>2. o[k] = Len(a) + k
      BY <3>1, <1>4 DEF OutForm
    <3>3. QED
      BY <3>1, <3>2, <1>6
  <2>4. QED
    BY <2>1, <2>2, <2>3, <1>2, <1>4, <1>1
<1>9. b = [i \in 1..Len(b) |-> b[i]]
  BY <1>6
<1>10. b = [i \in 1..n |-> i]
  BY <1>7, <1>8, <1>9
<1>11. QED
  BY <1>10, <1>3, <1>5

\* A byte that sio_write takes goes to the end of out_buf.
LEMMA OutTaken ==
  ASSUME NEW w, NEW h, NEW o, NEW n, OutForm(w, h, o, n)
  PROVE OutForm(w, h, Append(o, n + 1), n + 1)
<1>1. /\ Append(o, n + 1) \in Seq(Nat)
      /\ Len(Append(o, n + 1)) = Len(o) + 1
      /\ \A i \in 1..Len(o) : Append(o, n + 1)[i] = o[i]
      /\ Append(o, n + 1)[Len(o) + 1] = n + 1
  BY AppendProperties DEF OutForm
<1>2. w \in Seq(Nat) /\ h \in Seq(Nat) /\ o \in Seq(Nat) /\ n \in Nat
  BY DEF OutForm
<1>3. Len(w) \in Nat /\ Len(h) \in Nat /\ Len(o) \in Nat
  BY <1>2, ElemsOf
<1>4. PICK m : m = n + 1
  OBVIOUS
<1>5. PICK p : p = Append(o, m)
  OBVIOUS
<1>6. Len(w) + Len(h) + Len(o) = n /\ n \in Nat
  BY DEF OutForm
<1>7. p \in Seq(Nat) /\ Len(p) = Len(o) + 1
  BY <1>1, <1>4, <1>5
<1>8. \A i \in 1..Len(p) : p[i] = Len(w) + Len(h) + i
  <2>1. \A i \in 1..Len(o) : p[i] = Len(w) + Len(h) + i
    BY <1>1, <1>4, <1>5, Zenon DEF OutForm
  <2>2. p[Len(o) + 1] = Len(w) + Len(h) + (Len(o) + 1)
    <3>1. p[Len(o) + 1] = n + 1
      BY <1>1, <1>4, <1>5
    <3>2. QED
      BY <3>1, <1>3, <1>6
  <2>3. 1..Len(p) = 1..Len(o) \cup {Len(o) + 1}
    <3>1. Len(p) = Len(o) + 1
      BY <1>7
    <3>2. QED
      BY <3>1, <1>3
  <2>4. QED
    BY <2>1, <2>2, <2>3, Zenon
<1>9. Len(w) + Len(h) + Len(p) = m /\ m \in Nat
  <2>1. Len(p) = Len(o) + 1
    BY <1>7
  <2>2. QED
    BY <2>1, <1>3, <1>4, <1>6
<1>10. /\ Len(h) <= 1
       /\ \A i \in 1..Len(w) : w[i] = i
       /\ \A i \in 1..Len(h) : h[i] = Len(w) + i
  BY DEF OutForm
<1>11. OutForm(w, h, p, m)
  BY <1>2, <1>7, <1>8, <1>9, <1>10, Zenon DEF OutForm
<1>12. QED
  BY <1>4, <1>5, <1>11

\* The first byte of out_buf goes to a port that is free.
LEMMA OutLoaded ==
  ASSUME NEW w, NEW o, NEW n, OutForm(w, <<>>, o, n), o # <<>>
  PROVE OutForm(w, <<Head(o)>>, Tail(o), n)
<1>1. w \in Seq(Nat) /\ o \in Seq(Nat) /\ n \in Nat /\ Len(w) \in Nat /\ Len(o) \in Nat
  BY DEF OutForm
<1>2. Len(o) > 0
  BY <1>1, NotEmpty
<1>3. /\ Head(o) = o[1] /\ Tail(o) \in Seq(Nat)
      /\ Len(Tail(o)) = Len(o) - 1
      /\ \A i \in 1..Len(Tail(o)) : Tail(o)[i] = o[i + 1]
  BY <1>1, <1>2, HeadTailProperties
<1>4. Len(<<>>) = 0
  OBVIOUS
<1>5. /\ Len(w) + Len(o) = n
      /\ \A i \in 1..Len(w) : w[i] = i
      /\ \A i \in 1..Len(o) : o[i] = Len(w) + i
  BY <1>1, <1>4 DEF OutForm
<1>6. o[1] = Len(w) + 1
  BY <1>1, <1>2, <1>5
<1>7. PICK h : h = <<Head(o)>>
  OBVIOUS
<1>8. h \in Seq(Nat) /\ Len(h) = 1 /\ h[1] = Len(w) + 1
  BY <1>1, <1>3, <1>6, <1>7
<1>9. \A i \in 1..Len(Tail(o)) : Tail(o)[i] = Len(w) + 1 + i
  BY <1>1, <1>3, <1>5
<1>10. Len(h) <= 1 /\ Len(w) + Len(h) + Len(Tail(o)) = n
  <2>1. Len(w) \in Nat /\ Len(o) \in Nat /\ Len(Tail(o)) = Len(o) - 1 /\ Len(h) = 1
    BY <1>1, <1>3, <1>8
  <2>2. Len(w) + Len(o) = n
    BY <1>5
  <2>3. QED
    BY <2>1, <2>2
<1>11. \A i \in 1..Len(h) : h[i] = Len(w) + i
  BY <1>8, <1>1
<1>12. \A i \in 1..Len(Tail(o)) : Tail(o)[i] = Len(w) + Len(h) + i
  BY <1>8, <1>9
<1>13. PICK p : p = Tail(o)
  OBVIOUS
<1>14. OutForm(w, h, p, n)
  BY <1>1, <1>3, <1>5, <1>8, <1>10, <1>11, <1>12, <1>13, Zenon DEF OutForm
<1>15. QED
  BY <1>7, <1>13, <1>14

\* The byte in the port goes to the wire.
LEMMA OutShifted ==
  ASSUME NEW w, NEW h, NEW o, NEW n, OutForm(w, h, o, n), h # <<>>
  PROVE OutForm(Append(w, h[1]), <<>>, o, n)
<1>1. w \in Seq(Nat) /\ h \in Seq(Nat) /\ o \in Seq(Nat) /\ n \in Nat
  BY DEF OutForm
<1>2. Len(w) \in Nat /\ Len(o) \in Nat /\ Len(h) = 1
  <2>1. Len(h) <= 1
    BY DEF OutForm
  <2>2. Len(w) \in Nat /\ Len(o) \in Nat /\ Len(h) \in Nat
    BY <1>1, ElemsOf
  <2>3. Len(h) > 0
    BY <1>1, NotEmpty
  <2>4. \A k \in Nat : k <= 1 /\ k > 0 => k = 1
    OBVIOUS
  <2>5. QED
    BY <2>1, <2>2, <2>3, <2>4, Zenon
<1>3. h[1] = Len(w) + 1
  BY <1>2 DEF OutForm
<1>4. PICK p : p = Append(w, h[1])
  OBVIOUS
<1>5. /\ p \in Seq(Nat) /\ Len(p) = Len(w) + 1
      /\ \A i \in 1..Len(w) : p[i] = w[i]
      /\ p[Len(w) + 1] = h[1]
  BY <1>1, <1>2, <1>3, <1>4, AppendProperties
<1>6. /\ \A i \in 1..Len(w) : w[i] = i
      /\ Len(w) + Len(h) + Len(o) = n
      /\ \A i \in 1..Len(o) : o[i] = Len(w) + Len(h) + i
  BY DEF OutForm
<1>7. \A i \in 1..Len(p) : p[i] = i
  BY <1>2, <1>3, <1>5, <1>6
<1>8. <<>> \in Seq(Nat) /\ Len(<<>>) = 0
  OBVIOUS
<1>9. PICK e : e = <<>>
  OBVIOUS
<1>10. e \in Seq(Nat) /\ Len(e) <= 1 /\ \A i \in 1..Len(e) : e[i] = Len(p) + i
  BY <1>8, <1>9
<1>11. Len(p) + Len(e) + Len(o) = n /\ \A i \in 1..Len(o) : o[i] = Len(p) + Len(e) + i
  BY <1>1, <1>2, <1>5, <1>6, <1>8, <1>9
<1>12. OutForm(p, e, o, n)
  BY <1>1, <1>5, <1>7, <1>10, <1>11, Zenon DEF OutForm
<1>13. QED
  BY <1>4, <1>9, <1>12

-----------------------------------------------------------------------------
(* Bytes on their way in.                                                  *)

\* g bytes have arrived: they have been read (r), are in in_buf (b) or in the port (x), or
\* have been dropped (l).
InForm(r, b, x, l, g) ==
  /\ r \in Seq(Nat) /\ b \in Seq(Nat) /\ x \in Seq(Nat) /\ g \in Nat
  /\ Len(x) <= 1
  /\ Ascending(r) /\ Ascending(b)
  /\ \A d \in Elems(r), e \in Elems(b) : d < e
  /\ \A d \in Elems(r), e \in Elems(x) : d < e
  /\ \A d \in Elems(b), e \in Elems(x) : d < e
  /\ Elems(r) \cup Elems(b) \cup Elems(x) \cup l = 1..g
  /\ Elems(r) \cap l = {} /\ Elems(b) \cap l = {} /\ Elems(x) \cap l = {}

\* The elements of two sequences in a row, and their order.
LEMMA RowElems ==
  ASSUME NEW s \in Seq(Nat), NEW u \in Seq(Nat)
  PROVE Elems(s \o u) = Elems(s) \cup Elems(u)
<1>1. /\ s \o u \in Seq(Nat) /\ Len(s \o u) = Len(s) + Len(u)
      /\ \A i \in 1..Len(s \o u) : (s \o u)[i] = IF i <= Len(s) THEN s[i] ELSE u[i - Len(s)]
  BY ConcatProperties
<1>2. Len(s) \in Nat /\ Len(u) \in Nat
  BY ElemsOf
<1>3. ASSUME NEW e \in Elems(s \o u) PROVE e \in Elems(s) \cup Elems(u)
  <2>1. PICK i \in 1..Len(s \o u) : e = (s \o u)[i]
    BY <1>1, <1>3, ElemsOf DEF Elems
  <2>2. CASE i <= Len(s)
    BY <2>1, <2>2, <1>1, <1>2, ElemsOf DEF Elems
  <2>3. CASE i > Len(s)
    <3>1. i - Len(s) \in 1..Len(u) /\ e = u[i - Len(s)]
      BY <2>1, <2>3, <1>1, <1>2
    <3>2. QED
      BY <3>1, ElemsOf DEF Elems
  <2>4. QED
    BY <2>2, <2>3, <1>2
<1>4. ASSUME NEW e \in Elems(s) PROVE e \in Elems(s \o u)
  <2>1. PICK i \in 1..Len(s) : e = s[i]
    BY <1>4, ElemsOf DEF Elems
  <2>2. i \in 1..Len(s \o u) /\ (s \o u)[i] = e
    BY <2>1, <1>1, <1>2
  <2>3. QED
    BY <2>2, <1>1, ElemsOf DEF Elems
<1>5. ASSUME NEW e \in Elems(u) PROVE e \in Elems(s \o u)
  <2>1. PICK i \in 1..Len(u) : e = u[i]
    BY <1>5, ElemsOf DEF Elems
  <2>2. i + Len(s) \in 1..Len(s \o u) /\ (s \o u)[i + Len(s)] = u[i]
    BY <2>1, <1>1, <1>2
  <2>3. QED
    BY <2>1, <2>2, <1>1, ElemsOf DEF Elems
<1>6. QED
  BY <1>3, <1>4, <1>5

\* Two ascending sequences in a row ascend if all of the second is above all of the first.
LEMMA RowAscends ==
  ASSUME NEW s \in Seq(Nat), NEW u \in Seq(Nat), Ascending(s), Ascending(u),
         \A d \in Elems(s), e \in Elems(u) : d < e
  PROVE Ascending(s \o u)
<1>1. /\ s \o u \in Seq(Nat) /\ Len(s \o u) = Len(s) + Len(u)
      /\ \A i \in 1..Len(s \o u) : (s \o u)[i] = IF i <= Len(s) THEN s[i] ELSE u[i - Len(s)]
  BY ConcatProperties
<1>2. Len(s) \in Nat /\ Len(u) \in Nat
  BY ElemsOf
<1>3. \A i, j \in 1..Len(s) : i < j => s[i] < s[j]
  BY ElemsOf DEF Ascending
<1>4. \A i, j \in 1..Len(u) : i < j => u[i] < u[j]
  BY ElemsOf DEF Ascending
<1>5. SUFFICES ASSUME NEW i \in 1..Len(s \o u), NEW j \in 1..Len(s \o u), i < j
               PROVE (s \o u)[i] < (s \o u)[j]
  BY <1>1, ElemsOf DEF Ascending
<1>6. CASE j <= Len(s)
  BY <1>1, <1>2, <1>3, <1>5, <1>6
<1>7. CASE i <= Len(s) /\ j > Len(s)
  <2>1. j - Len(s) \in 1..Len(u) /\ i \in 1..Len(s)
    BY <1>1, <1>2, <1>5, <1>7
  <2>2. s[i] \in Elems(s) /\ u[j - Len(s)] \in Elems(u)
    BY <2>1, ElemsOf DEF Elems
  <2>3. QED
    BY <2>2, <1>1, <1>2, <1>7, <1>5
<1>8. CASE i > Len(s)
  <2>1. i - Len(s) \in 1..Len(u) /\ j - Len(s) \in 1..Len(u) /\ i - Len(s) < j - Len(s)
    BY <1>1, <1>2, <1>5, <1>8
  <2>2. u[i - Len(s)] < u[j - Len(s)]
    BY <2>1, <1>4
  <2>3. QED
    BY <2>2, <1>1, <1>2, <1>8, <1>5
<1>9. QED
  BY <1>6, <1>7, <1>8, <1>2

\* Read as one sequence, they ascend, and are what has not been dropped.
LEMMA InInOrder ==
  ASSUME NEW r, NEW b, NEW x, NEW l, NEW g, InForm(r, b, x, l, g)
  PROVE /\ Ascending(r \o b \o x)
        /\ Elems(r \o b \o x) \cup l = 1..g
        /\ Elems(r \o b \o x) \cap l = {}
<1>1. r \in Seq(Nat) /\ b \in Seq(Nat) /\ x \in Seq(Nat) /\ g \in Nat
  BY DEF InForm
<1>2. PICK a : a = r \o b
  OBVIOUS
<1>3. a \in Seq(Nat) /\ Elems(a) = Elems(r) \cup Elems(b)
  BY <1>1, <1>2, RowElems, ConcatProperties
<1>4. Ascending(a)
  BY <1>1, <1>2, RowAscends DEF InForm
<1>5. \A d \in Elems(a), e \in Elems(x) : d < e
  BY <1>3 DEF InForm
<1>6. Ascending(x)
  <2>1. Len(x) \in Nat /\ Len(x) <= 1 /\ DOMAIN x = 1..Len(x)
    BY <1>1, ElemsOf DEF InForm
  <2>2. \A i, j \in 1..Len(x) : ~(i < j)
    BY <2>1
  <2>3. QED
    BY <2>1, <2>2 DEF Ascending
<1>7. Ascending(a \o x) /\ Elems(a \o x) = Elems(a) \cup Elems(x)
  BY <1>1, <1>3, <1>4, <1>5, <1>6, RowAscends, RowElems
<1>8. /\ Elems(r) \cup Elems(b) \cup Elems(x) \cup l = 1..g
      /\ Elems(r) \cap l = {} /\ Elems(b) \cap l = {} /\ Elems(x) \cap l = {}
  BY DEF InForm
<1>9. r \o b \o x = a \o x
  BY <1>2
<1>10. QED
  BY <1>3, <1>7, <1>8, <1>9

\* The elements of a sequence that gets one more, and of one that loses its first.
LEMMA AppendElems ==
  ASSUME NEW s \in Seq(Nat), NEW e \in Nat
  PROVE /\ Append(s, e) \in Seq(Nat)
        /\ Elems(Append(s, e)) = Elems(s) \cup {e}
        /\ Ascending(s) /\ (\A d \in Elems(s) : d < e) => Ascending(Append(s, e))
<1>1. PICK p : p = Append(s, e)
  OBVIOUS
<1>2. /\ p \in Seq(Nat) /\ Len(p) = Len(s) + 1
      /\ \A i \in 1..Len(s) : p[i] = s[i]
      /\ p[Len(s) + 1] = e
  BY <1>1, AppendProperties
<1>3. Len(s) \in Nat /\ DOMAIN s = 1..Len(s) /\ DOMAIN p = 1..Len(p)
  BY <1>2, ElemsOf
<1>4. 1..Len(p) = 1..Len(s) \cup {Len(s) + 1}
  <2>1. Len(p) = Len(s) + 1
    BY <1>2
  <2>2. QED
    BY <2>1, <1>3
<1>5. \A i \in 1..Len(s) : p[i] = s[i]
  BY <1>2
<1>6. p[Len(s) + 1] = e
  BY <1>2
<1>7. Elems(p) = Elems(s) \cup {e}
  <2>1. ASSUME NEW d \in Elems(p) PROVE d \in Elems(s) \cup {e}
    <3>1. PICK i \in 1..Len(p) : d = p[i]
      BY <2>1, <1>3 DEF Elems
    <3>2. CASE i \in 1..Len(s)
      BY <3>1, <3>2, <1>3, <1>5 DEF Elems
    <3>3. CASE i = Len(s) + 1
      BY <3>1, <3>3, <1>6
    <3>4. QED
      BY <3>1, <3>2, <3>3, <1>4
  <2>2. ASSUME NEW d \in Elems(s) PROVE d \in Elems(p)
    <3>1. PICK i \in 1..Len(s) : d = s[i]
      BY <2>2, <1>3 DEF Elems
    <3>2. i \in 1..Len(p) /\ p[i] = d
      BY <3>1, <1>4, <1>5
    <3>3. QED
      BY <3>2, <1>3 DEF Elems
  <2>3. e \in Elems(p)
    <3>1. Len(s) + 1 \in 1..Len(p)
      BY <1>4
    <3>2. QED
      BY <3>1, <1>3, <1>6 DEF Elems
  <2>4. QED
    BY <2>1, <2>2, <2>3
<1>8. ASSUME Ascending(s), \A d \in Elems(s) : d < e PROVE Ascending(p)
  <2>1. ASSUME NEW i \in 1..Len(p), NEW j \in 1..Len(p), i < j PROVE p[i] < p[j]
    <3>1. i \in 1..Len(s)
      <4>1. i \in Nat /\ j \in Nat /\ 1 <= i /\ i < j /\ j <= Len(s) + 1
        BY <2>1, <1>2, <1>3
      <4>2. QED
        BY <4>1, <1>3
    <3>2. CASE j \in 1..Len(s)
      <4>1. s[i] < s[j]
        BY <3>1, <3>2, <2>1, <1>8, <1>3, Zenon DEF Ascending
      <4>2. QED
        BY <4>1, <3>1, <3>2, <1>5
    <3>3. CASE j = Len(s) + 1
      <4>1. s[i] \in Elems(s)
        BY <3>1, <1>3 DEF Elems
      <4>2. QED
        BY <4>1, <3>1, <3>3, <1>5, <1>6, <1>8
    <3>4. QED
      BY <3>2, <3>3, <1>4
  <2>2. QED
    BY <2>1, <1>3, Zenon DEF Ascending
<1>9. QED
  BY <1>1, <1>2, <1>7, <1>8

\* A sequence that loses its first element.
LEMMA TailElems ==
  ASSUME NEW s \in Seq(Nat), s # <<>>
  PROVE /\ Tail(s) \in Seq(Nat) /\ Head(s) \in Nat
        /\ Elems(s) = Elems(Tail(s)) \cup {Head(s)}
        /\ Ascending(s) => Ascending(Tail(s)) /\ \A d \in Elems(Tail(s)) : Head(s) < d
<1>1. PICK p : p = Tail(s)
  OBVIOUS
<1>2. Len(s) \in Nat /\ Len(s) > 0
  BY NotEmpty
<1>3. /\ Head(s) = s[1] /\ p \in Seq(Nat) /\ Len(p) = Len(s) - 1
      /\ \A i \in 1..Len(p) : p[i] = s[i + 1]
  BY <1>1, <1>2, HeadTailProperties
<1>4. DOMAIN s = 1..Len(s) /\ DOMAIN p = 1..Len(p) /\ Len(p) \in Nat
  BY <1>3, ElemsOf
<1>5. Len(p) = Len(s) - 1
  BY <1>3
<1>6. \A i \in 1..Len(p) : p[i] = s[i + 1]
  BY <1>3
<1>7. \A i \in 1..Len(p) : i + 1 \in 1..Len(s)
  BY <1>2, <1>4, <1>5
<1>8. \A i \in 1..Len(s) : i = 1 \/ \E j \in 1..Len(p) : i = j + 1
  <2>1. ASSUME NEW i \in 1..Len(s), i # 1 PROVE i - 1 \in 1..Len(p) /\ i = (i - 1) + 1
    BY <2>1, <1>2, <1>4, <1>5
  <2>2. QED
    BY <2>1
<1>9. 1 \in 1..Len(s)
  BY <1>2
<1>10. Elems(s) = Elems(p) \cup {s[1]}
  <2>1. ASSUME NEW d \in Elems(s) PROVE d \in Elems(p) \cup {s[1]}
    <3>1. PICK i \in 1..Len(s) : d = s[i]
      BY <2>1, <1>4 DEF Elems
    <3>2. CASE i # 1
      <4>1. PICK j \in 1..Len(p) : i = j + 1
        BY <3>1, <3>2, <1>8
      <4>2. d = p[j]
        BY <3>1, <4>1, <1>6
      <4>3. QED
        BY <4>1, <4>2, <1>4 DEF Elems
    <3>3. QED
      BY <3>1, <3>2
  <2>2. ASSUME NEW d \in Elems(p) PROVE d \in Elems(s)
    <3>1. PICK i \in 1..Len(p) : d = p[i]
      BY <2>2, <1>4 DEF Elems
    <3>2. QED
      BY <3>1, <1>4, <1>6, <1>7 DEF Elems
  <2>3. s[1] \in Elems(s)
    BY <1>4, <1>9 DEF Elems
  <2>4. QED
    BY <2>1, <2>2, <2>3
<1>11. ASSUME Ascending(s) PROVE Ascending(p) /\ \A d \in Elems(p) : s[1] < d
  <2>1. \A i, j \in 1..Len(s) : i < j => s[i] < s[j]
    BY <1>4, <1>11, Zenon DEF Ascending
  <2>2. ASSUME NEW i \in 1..Len(p), NEW j \in 1..Len(p), i < j PROVE p[i] < p[j]
    <3>1. i + 1 \in 1..Len(s) /\ j + 1 \in 1..Len(s) /\ i + 1 < j + 1
      BY <2>2, <1>7
    <3>2. s[i + 1] < s[j + 1]
      BY <3>1, <2>1
    <3>3. QED
      BY <3>2, <1>6
  <2>3. ASSUME NEW i \in 1..Len(p) PROVE s[1] < p[i]
    <3>1. i + 1 \in 1..Len(s) /\ 1 < i + 1
      BY <2>3, <1>7
    <3>2. s[1] < s[i + 1]
      BY <3>1, <2>1, <1>9
    <3>3. QED
      BY <3>2, <1>6
  <2>4. Ascending(p)
    BY <2>2, <1>4, Zenon DEF Ascending
  <2>5. \A d \in Elems(p) : s[1] < d
    BY <2>3, <1>4, Zenon DEF Elems
  <2>6. QED
    BY <2>4, <2>5
<1>12. s[1] \in Nat
  BY <1>9, ElemsOf
<1>13. QED
  BY <1>1, <1>3, <1>10, <1>11, <1>12

\* The empty sequence.
LEMMA SmallElems ==
  /\ <<>> \in Seq(Nat) /\ Len(<<>>) = 0 /\ Elems(<<>>) = {} /\ Ascending(<<>>)
  /\ \A e \in Nat : <<e>> \in Seq(Nat) /\ Len(<<e>>) = 1 /\ Elems(<<e>>) = {e}
<1>1. <<>> \in Seq(Nat) /\ Len(<<>>) = 0 /\ DOMAIN <<>> = 1..0
  OBVIOUS
<1>2. 1..0 = {}
  OBVIOUS
<1>3. Elems(<<>>) = {} /\ Ascending(<<>>)
  BY <1>1, <1>2 DEF Elems, Ascending
<1>4. ASSUME NEW e \in Nat PROVE <<e>> \in Seq(Nat) /\ Len(<<e>>) = 1 /\ Elems(<<e>>) = {e}
  BY DEF Elems
<1>5. QED
  BY <1>1, <1>3, <1>4

\* A sequence of one.
LEMMA SingleElems ==
  ASSUME NEW s \in Seq(Nat), s # <<>>, Len(s) <= 1
  PROVE s[1] \in Nat /\ Elems(s) = {s[1]}
<1>1. Len(s) \in Nat /\ Len(s) > 0 /\ DOMAIN s = 1..Len(s)
  BY NotEmpty, ElemsOf
<1>2. \A k \in Nat : k <= 1 /\ k > 0 => 1..k = {1}
  OBVIOUS
<1>3. DOMAIN s = {1}
  BY <1>1, <1>2, Zenon
<1>4. s[1] \in Nat
  BY <1>3, <1>1, ElemsOf
<1>5. QED
  BY <1>3, <1>4 DEF Elems

-----------------------------------------------------------------------------
(* The steps of a byte on its way in.                                      *)

\* A byte arrives, and takes the place of one that was not fetched.
LEMMA InArrived ==
  ASSUME NEW r, NEW b, NEW x, NEW l, NEW g, InForm(r, b, x, l, g)
  PROVE InForm(r, b, <<g + 1>>, l \cup Elems(x), g + 1)
<1>1. PICK m : m = g + 1
  OBVIOUS
<1>2. g \in Nat /\ m \in Nat /\ 1..m = 1..g \cup {m} /\ \A d \in 1..g : d < m
  BY <1>1 DEF InForm
<1>3. PICK y : y = <<m>>
  OBVIOUS
<1>4. y \in Seq(Nat) /\ Len(y) <= 1 /\ Elems(y) = {m}
  BY <1>2, <1>3, SmallElems
<1>5. PICK k : k = l \cup Elems(x)
  OBVIOUS
<1>6. /\ Elems(r) \subseteq 1..g /\ Elems(b) \subseteq 1..g /\ Elems(x) \subseteq 1..g
      /\ l \subseteq 1..g /\ m \notin 1..g
  BY <1>1, <1>2 DEF InForm
<1>7. Elems(r) \cup Elems(b) \cup Elems(y) \cup k = 1..m
  BY <1>2, <1>4, <1>5 DEF InForm
<1>8. Elems(r) \cap Elems(x) = {} /\ Elems(b) \cap Elems(x) = {}
  <2>1. \A d \in 1..g : ~(d < d)
    BY <1>2
  <2>2. QED
    BY <2>1, <1>6 DEF InForm
<1>9. Elems(r) \cap k = {} /\ Elems(b) \cap k = {} /\ Elems(y) \cap k = {}
  BY <1>4, <1>5, <1>6, <1>8 DEF InForm
<1>10. /\ \A d \in Elems(r), e \in Elems(y) : d < e
       /\ \A d \in Elems(b), e \in Elems(y) : d < e
  BY <1>2, <1>4, <1>6
<1>11. /\ r \in Seq(Nat) /\ b \in Seq(Nat) /\ Ascending(r) /\ Ascending(b)
       /\ \A d \in Elems(r), e \in Elems(b) : d < e
  BY DEF InForm
<1>12. InForm(r, b, y, k, m)
  BY <1>2, <1>4, <1>7, <1>9, <1>10, <1>11, Zenon DEF InForm
<1>13. QED
  BY <1>1, <1>3, <1>5, <1>12

\* The interrupt puts the byte into in_buf, or drops it.
LEMMA InFetched ==
  ASSUME NEW r, NEW b, NEW x, NEW l, NEW g, InForm(r, b, x, l, g), x # <<>>
  PROVE /\ InForm(r, Append(b, x[1]), <<>>, l, g)
        /\ InForm(r, b, <<>>, l \cup {x[1]}, g)
<1>1. /\ r \in Seq(Nat) /\ b \in Seq(Nat) /\ x \in Seq(Nat) /\ g \in Nat
      /\ Len(x) <= 1 /\ Ascending(r) /\ Ascending(b)
      /\ \A d \in Elems(r), e \in Elems(b) : d < e
  BY DEF InForm
<1>2. x[1] \in Nat /\ Elems(x) = {x[1]}
  BY <1>1, SingleElems
<1>3. PICK y : y = <<>>
  OBVIOUS
<1>4. y \in Seq(Nat) /\ Len(y) <= 1 /\ Elems(y) = {}
  BY <1>3, SmallElems
<1>5. PICK c : c = Append(b, x[1])
  OBVIOUS
<1>6. c \in Seq(Nat) /\ Elems(c) = Elems(b) \cup {x[1]} /\ Ascending(c)
  <2>1. \A d \in Elems(b) : d < x[1]
    BY <1>2 DEF InForm
  <2>2. QED
    BY <2>1, <1>1, <1>2, <1>5, AppendElems
<1>7. InForm(r, c, y, l, g)
  <2>1. \A d \in Elems(r), e \in Elems(c) : d < e
    BY <1>2, <1>6 DEF InForm
  <2>2. Elems(r) \cup Elems(c) \cup Elems(y) \cup l = 1..g
    BY <1>2, <1>4, <1>6 DEF InForm
  <2>3. Elems(r) \cap l = {} /\ Elems(c) \cap l = {} /\ Elems(y) \cap l = {}
    BY <1>2, <1>4, <1>6 DEF InForm
  <2>4. QED
    BY <1>1, <1>4, <1>6, <2>1, <2>2, <2>3, Zenon DEF InForm
<1>8. PICK k : k = l \cup {x[1]}
  OBVIOUS
<1>9. InForm(r, b, y, k, g)
  <2>1. Elems(r) \cup Elems(b) \cup Elems(y) \cup k = 1..g
    BY <1>2, <1>4, <1>8 DEF InForm
  <2>2. Elems(r) \subseteq Nat /\ Elems(b) \subseteq Nat
    BY <1>1, ElemsOf DEF Elems
  <2>3. \A d \in Nat : ~(d < d)
    OBVIOUS
  <2>4. Elems(r) \cap k = {} /\ Elems(b) \cap k = {} /\ Elems(y) \cap k = {}
    BY <1>2, <1>4, <1>8, <2>2, <2>3 DEF InForm
  <2>5. QED
    BY <1>1, <1>4, <2>1, <2>4, Zenon DEF InForm
<1>10. QED
  BY <1>3, <1>5, <1>7, <1>8, <1>9

\* sio_read takes the first byte of in_buf.
LEMMA InRead ==
  ASSUME NEW r, NEW b, NEW x, NEW l, NEW g, InForm(r, b, x, l, g), b # <<>>
  PROVE InForm(Append(r, Head(b)), Tail(b), x, l, g)
<1>1. /\ r \in Seq(Nat) /\ b \in Seq(Nat) /\ x \in Seq(Nat) /\ g \in Nat
      /\ Len(x) <= 1 /\ Ascending(r) /\ Ascending(b)
  BY DEF InForm
<1>2. PICK h : h = Head(b)
  OBVIOUS
<1>3. PICK c : c = Tail(b)
  OBVIOUS
<1>4. /\ c \in Seq(Nat) /\ h \in Nat /\ Elems(b) = Elems(c) \cup {h}
      /\ Ascending(c) /\ \A d \in Elems(c) : h < d
  BY <1>1, <1>2, <1>3, TailElems
<1>5. PICK s : s = Append(r, h)
  OBVIOUS
<1>6. \A d \in Elems(r) : d < h
  BY <1>4 DEF InForm
<1>7. s \in Seq(Nat) /\ Elems(s) = Elems(r) \cup {h} /\ Ascending(s)
  BY <1>1, <1>4, <1>5, <1>6, AppendElems
<1>8. /\ \A d \in Elems(s), e \in Elems(c) : d < e
      /\ \A d \in Elems(s), e \in Elems(x) : d < e
      /\ \A d \in Elems(c), e \in Elems(x) : d < e
  BY <1>4, <1>7 DEF InForm
<1>9. Elems(s) \cup Elems(c) \cup Elems(x) \cup l = 1..g
  BY <1>4, <1>7 DEF InForm
<1>10. Elems(s) \cap l = {} /\ Elems(c) \cap l = {} /\ Elems(x) \cap l = {}
  BY <1>4, <1>7 DEF InForm
<1>11. InForm(s, c, x, l, g)
  BY <1>1, <1>4, <1>7, <1>8, <1>9, <1>10, Zenon DEF InForm
<1>12. QED
  BY <1>2, <1>3, <1>5, <1>11

\* sio_close drops what is in in_buf.
LEMMA InClosed ==
  ASSUME NEW r, NEW b, NEW x, NEW l, NEW g, InForm(r, b, x, l, g)
  PROVE InForm(r, <<>>, x, l \cup Elems(b), g)
<1>1. /\ r \in Seq(Nat) /\ b \in Seq(Nat) /\ x \in Seq(Nat) /\ g \in Nat
      /\ Len(x) <= 1 /\ Ascending(r)
      /\ \A d \in Elems(r), e \in Elems(x) : d < e
  BY DEF InForm
<1>2. PICK c : c = <<>>
  OBVIOUS
<1>3. c \in Seq(Nat) /\ Elems(c) = {} /\ Ascending(c)
  BY <1>2, SmallElems
<1>4. PICK k : k = l \cup Elems(b)
  OBVIOUS
<1>5. /\ \A d \in Elems(r), e \in Elems(c) : d < e
      /\ \A d \in Elems(c), e \in Elems(x) : d < e
  BY <1>3
<1>6. Elems(r) \cup Elems(c) \cup Elems(x) \cup k = 1..g
  BY <1>3, <1>4 DEF InForm
<1>7. Elems(r) \subseteq Nat /\ Elems(b) \subseteq Nat /\ Elems(x) \subseteq Nat
  BY <1>1, ElemsOf DEF Elems
<1>8. \A d \in Nat : ~(d < d)
  OBVIOUS
<1>9. Elems(r) \cap k = {} /\ Elems(c) \cap k = {} /\ Elems(x) \cap k = {}
  BY <1>3, <1>4, <1>7, <1>8 DEF InForm
<1>10. InForm(r, c, x, k, g)
  BY <1>1, <1>3, <1>5, <1>6, <1>9, Zenon DEF InForm
<1>11. QED
  BY <1>2, <1>4, <1>10
-----------------------------------------------------------------------------
(* Where the tasks are.                                                    *)

\* A task is at a place of its call, with a number of bytes left.
PcType == [Caller -> [op : Ops, left : 0..MaxCount]]

\* Steps of the kernel in which a task keeps the processor.
Held == {"open", "rcopy", "rend", "rclear", "wcopy", "wend", "wcheck", "wclear"}

\* A task is on its way from cio_open to port_open++.
Opening == \E t \in Caller : pc[t].op = "open"

\* A task goes to another place, and the others stay.
LEMMA GoesTo ==
  ASSUME pc \in PcType, NEW t \in Caller, NEW op \in Ops, NEW left \in 0..MaxCount,
         pc' = [pc EXCEPT ![t] = At(op, left)]
  PROVE /\ pc' \in PcType
        /\ pc'[t].op = op /\ pc'[t].left = left
        /\ \A u \in Caller : u # t => pc'[u] = pc[u]
BY DEF PcType, At

\* A wake-up moves the tasks that sleep in one place, and keeps what they have left.
LEMMA AwakeIs ==
  ASSUME NEW p \in PcType, NEW from, NEW to \in Ops, NEW q, q = Awake(p, from, to)
  PROVE /\ q \in PcType
        /\ \A u \in Caller : /\ q[u].left = p[u].left
                             /\ q[u].op = IF p[u].op = from THEN to ELSE p[u].op
<1>1. \A u \in Caller : p[u] \in [op : Ops, left : 0..MaxCount]
  BY DEF PcType
<1>2. ASSUME NEW u \in Caller
      PROVE /\ q[u] \in [op : Ops, left : 0..MaxCount]
            /\ q[u].left = p[u].left
            /\ q[u].op = IF p[u].op = from THEN to ELSE p[u].op
  <2>1. q[u] = IF p[u].op = from THEN [p[u] EXCEPT !.op = to] ELSE p[u]
    BY DEF Awake
  <2>2. QED
    BY <2>1, <1>1
<1>3. q \in PcType
  BY <1>2 DEF Awake, PcType
<1>4. QED
  BY <1>2, <1>3

\* A task has its type, and what it has left to write or can read is there.
PcInv ==
  /\ pc \in PcType
  /\ cpu \in Caller \cup {None}
  /\ \A t \in Caller : pc[t].op \in {"wcopy", "wsleep", "wwoken"} => pc[t].left > 0

-----------------------------------------------------------------------------
(* Who has the port open, is opening or closing it.                        *)

\* Who keeps the processor and who has a descriptor: a task in any call but open has
\* one, and one task at a time closes.
UsersInv ==
  /\ \A t \in Caller : pc[t].op \in Held => cpu = t
  /\ cpu # None => pc[cpu].op \in Held \cup {"close"}
  /\ \A t \in Caller : pc[t].op \notin {"idle", "open"} => t \in fd
  /\ \A t \in Caller : pc[t].op = "open" => t \notin fd
  /\ \A t, u \in Caller : pc[t].op = "close" /\ pc[u].op = "close" => t = u

\* The counters: fso, refcnt and port_open follow the descriptors and the open on its way.
\* Without opens during a close, a close has the only descriptor and no open is on its way.
FilesInv ==
  /\ fd \subseteq Caller /\ IsFiniteSet(fd)
  /\ fso = Cardinality(fd) + (IF Opening THEN 1 ELSE 0)
  /\ linked \in BOOLEAN
  /\ linked => fso > 0
  /\ Opening => linked
  /\ refcnt = IF linked THEN 1 ELSE 0
  /\ port_open = IF linked /\ ~Opening THEN 1 ELSE 0
  /\ ~bad => \A t \in Caller : pc[t].op = "close" => linked
  /\ OpenWhileClosing \/ ~bad
  /\ OpenWhileClosing \/ fd = {} \/ linked
  /\ OpenWhileClosing \/ ~Opening \/ \A t \in Caller : pc[t].op # "close"
  /\ OpenWhileClosing \/ \A t \in Caller : pc[t].op = "close" => fd = {t}

\* A step on which nobody begins or ends an open or a close.
LEMMA FilesSame ==
  ASSUME FilesInv, UNCHANGED <<files, bad>>,
         \A t \in Caller : pc'[t].op = "open" <=> pc[t].op = "open",
         \A t \in Caller : pc'[t].op = "close" <=> pc[t].op = "close"
  PROVE FilesInv'
<1>1. Opening' <=> Opening
  BY DEF Opening
<1>2. QED
  BY <1>1 DEF FilesInv, files

\* A step of one task, from where nobody else has the processor to where nobody else has it.
UserStep(t) ==
  /\ cpu \in {None, t} /\ cpu' \in {None, t}
  /\ \A u \in Caller : u # t => (pc'[u].op = pc[u].op \/ (pc[u].op = "wsleep" /\ pc'[u].op = "wwoken"))
  /\ pc'[t].op \in Held => cpu' = t
  /\ cpu' = t => pc'[t].op \in Held \cup {"close"}
  /\ \A u \in Caller : u # t => (u \in fd' <=> u \in fd)
  /\ pc'[t].op \notin {"idle", "open"} => t \in fd'
  /\ pc'[t].op = "open" => t \notin fd'
  /\ pc'[t].op = "close" => \A u \in Caller : u # t => pc[u].op # "close"

LEMMA UsersStep ==
  ASSUME SerialAssumption, UsersInv, NEW t \in Caller, UserStep(t)
  PROVE UsersInv'
<1> USE DEF UserStep
<1>1. None \notin Caller
  BY DEF SerialAssumption
<1>2. ASSUME NEW u \in Caller, pc'[u].op \in Held PROVE cpu' = u
  <2>1. CASE u = t
    BY <1>2, <2>1
  <2>2. CASE u # t
    <3>1. pc[u].op \in Held
      BY <2>2, <1>2 DEF Held
    <3>2. cpu = u
      BY <3>1 DEF UsersInv
    <3>3. QED
      BY <3>2, <2>2, <1>1
  <2>3. QED
    BY <2>1, <2>2
<1>3. cpu' # None => pc'[cpu'].op \in Held \cup {"close"}
  OBVIOUS
<1>4. ASSUME NEW u \in Caller, pc'[u].op \notin {"idle", "open"} PROVE u \in fd'
  <2>1. CASE u # t
    <3>1. pc[u].op \notin {"idle", "open"}
      BY <2>1, <1>4
    <3>2. QED
      BY <3>1, <2>1 DEF UsersInv
  <2>2. QED
    BY <2>1, <1>4
<1>5. ASSUME NEW u \in Caller, pc'[u].op = "open" PROVE u \notin fd'
  <2>1. CASE u # t
    <3>1. pc[u].op = "open"
      BY <2>1, <1>5
    <3>2. QED
      BY <3>1, <2>1 DEF UsersInv
  <2>2. QED
    BY <2>1, <1>5
<1>6. ASSUME NEW u \in Caller, NEW v \in Caller, pc'[u].op = "close", pc'[v].op = "close" PROVE u = v
  <2>1. u # t => pc[u].op = "close"
    BY <1>6
  <2>2. v # t => pc[v].op = "close"
    BY <1>6
  <2>3. CASE u # t /\ v # t
    BY <2>1, <2>2, <2>3 DEF UsersInv
  <2>4. QED
    BY <2>1, <2>2, <2>3, <1>6
<1>7. QED
  BY <1>2, <1>3, <1>4, <1>5, <1>6, Zenon DEF UsersInv

\* The interrupt wakes sleepers, and nothing else.
LEMMA UsersAwake ==
  ASSUME UsersInv, UNCHANGED <<cpu, fd>>,
         cpu = None \/ cpu \in Caller,
         \A u \in Caller : pc'[u].op = pc[u].op
             \/ (pc[u].op \in {"rsleep", "wsleep"} /\ pc'[u].op \in {"rwoken", "wwoken"})
  PROVE UsersInv'
<1>1. ASSUME NEW u \in Caller
      PROVE /\ pc'[u].op \in Held <=> pc[u].op \in Held
            /\ pc'[u].op \in Held \cup {"close"} <=> pc[u].op \in Held \cup {"close"}
            /\ pc'[u].op \in {"idle", "open"} <=> pc[u].op \in {"idle", "open"}
            /\ pc'[u].op = "open" <=> pc[u].op = "open"
            /\ pc'[u].op = "close" <=> pc[u].op = "close"
  BY DEF Held
<1> HIDE DEF Held
<1>2. QED
  BY <1>1 DEF UsersInv

\* A task that is not the only one in the kernel, with the port open.
LEMMA NobodyOpens ==
  ASSUME SerialAssumption, UsersInv, cpu = None PROVE ~Opening
BY DEF SerialAssumption, UsersInv, Held, Opening

\* fs_getfso begins an open: nobody else has the processor.
LEMMA PcOpen ==
  ASSUME SerialAssumption, PcInv, UsersInv, NEW t \in Caller, Open(t)
  PROVE PcInv' /\ UsersInv'
<1>1. cpu = None /\ t \notin fd /\ pc[t].op = "idle"
  BY DEF Open, Enter, Idle, At
<1>2. CASE fso > 0
  <2>1. UNCHANGED <<pc, cpu>> /\ fd' = fd \cup {t}
    BY <1>2 DEF Open
  <2>2. PcInv'
    BY <2>1 DEF PcInv
  <2>3. UserStep(t)
    BY <1>1, <2>1 DEF Held, UserStep, SerialAssumption
  <2>4. UsersInv'
    BY <2>3, UsersStep
  <2>5. QED
    BY <2>2, <2>4
<1>3. CASE ~(fso > 0)
  <2>1. pc' = [pc EXCEPT ![t] = At("open", 0)] /\ cpu' = t /\ fd' = fd
    BY <1>3 DEF Open, Go, files
  <2>2. "open" \in Ops /\ 0 \in 0..MaxCount /\ pc \in PcType
    BY DEF Ops, SerialAssumption, PcInv
  <2>3. /\ pc' \in PcType /\ pc'[t].op = "open"
        /\ \A u \in Caller : u # t => pc'[u] = pc[u]
    BY <2>1, <2>2, GoesTo
  <2>4. PcInv'
    BY <2>1, <2>3 DEF PcInv
  <2>5. UserStep(t)
    BY <1>1, <2>1, <2>3 DEF Held, UserStep, SerialAssumption
  <2>6. UsersInv'
    BY <2>5, UsersStep
  <2>7. QED
    BY <2>4, <2>6
<1>4. QED
  BY <1>2, <1>3

\* An open that begins counts a reference, and sets cdev.fso if it is the first.
LEMMA FilesOpen ==
  ASSUME SerialAssumption, PcInv, UsersInv, FilesInv, NEW t \in Caller, Open(t)
  PROVE FilesInv'
<1>1. cpu = None /\ t \notin fd /\ pc[t].op = "idle" /\ ~bad
  BY DEF Open, Enter, Idle, At
<1>2. ~Opening
  BY <1>1 DEF UsersInv, Held, Opening, SerialAssumption
<1>3. Cardinality(fd) \in Nat
  BY FS_CardinalityType DEF FilesInv
<1>4. CASE fso > 0
  <2>1. fso' = fso + 1 /\ fd' = fd \cup {t} /\ UNCHANGED <<pc, cpu, refcnt, linked, port_open, bad>>
    BY <1>4 DEF Open, files
  <2>2. IsFiniteSet(fd') /\ Cardinality(fd') = Cardinality(fd) + 1
    BY <1>1, <2>1, FS_AddElement DEF FilesInv
  <2>3. ~Opening'
    BY <1>2, <2>1 DEF Opening
  <2>4. fd # {}
    BY <1>2, <1>4, FS_EmptySet DEF FilesInv
  <2>5. ~OpenWhileClosing => ~Closing
    BY DEF Open
  <2>6. QED
    BY <1>1, <1>2, <1>3, <1>4, <2>1, <2>2, <2>3, <2>4, <2>5 DEF FilesInv, Closing
<1>5. CASE ~(fso > 0)
  <2>1. /\ fso' = 1 /\ linked' = TRUE /\ refcnt' = refcnt + 1
        /\ pc' = [pc EXCEPT ![t] = At("open", 0)] /\ UNCHANGED <<fd, port_open, bad>>
    BY <1>5 DEF Open, Go
  <2>2. "open" \in Ops /\ 0 \in 0..MaxCount
    BY DEF Ops, SerialAssumption
  <2>3. pc \in PcType
    BY DEF PcInv
  <2>4. /\ pc'[t].op = "open"
        /\ \A u \in Caller : u # t => pc'[u] = pc[u]
    BY <2>1, <2>2, <2>3, GoesTo
  <2>5. Opening'
    BY <2>4 DEF Opening
  <2>6. Cardinality(fd) = 0
    BY <1>2, <1>3, <1>5 DEF FilesInv
  <2>7. fd = {}
    BY <2>6, FS_EmptySet DEF FilesInv
  <2>8. ~linked
    BY <1>5 DEF FilesInv
  <2>9. QED
    BY <1>1, <1>2, <2>1, <2>4, <2>5, <2>6, <2>7, <2>8 DEF FilesInv, UsersInv
<1>6. QED
  BY <1>4, <1>5

\* An open ends: the task gets its descriptor, and the port is open once.
LEMMA OpenEnded ==
  ASSUME SerialAssumption, PcInv, UsersInv, FilesInv, NEW t \in Caller, OpenEnd(t)
  PROVE PcInv' /\ UsersInv' /\ FilesInv'
<1>1. /\ cpu = t /\ pc[t].op = "open" /\ port_open' = port_open + 1 /\ fd' = fd \cup {t}
      /\ pc' = [pc EXCEPT ![t] = At("idle", 0)] /\ cpu' = None
      /\ UNCHANGED <<fso, refcnt, linked, bad>>
  BY DEF OpenEnd, RunsIn, Leave, Idle
<1>2. "idle" \in Ops /\ 0 \in 0..MaxCount /\ pc \in PcType
  BY DEF Ops, SerialAssumption, PcInv
<1>3. /\ pc' \in PcType /\ pc'[t].op = "idle"
      /\ \A u \in Caller : u # t => pc'[u] = pc[u]
  BY <1>1, <1>2, GoesTo
<1>4. PcInv'
  BY <1>1, <1>3 DEF PcInv
<1>5. UserStep(t)
  BY <1>1, <1>3 DEF Held, UserStep, SerialAssumption
<1>6. UsersInv'
  BY <1>5, UsersStep
<1>7. Opening
  BY <1>1 DEF Opening
<1>8. ~Opening'
  BY <1>1, <1>3 DEF UsersInv, Held, Opening
<1>9. t \notin fd /\ Cardinality(fd) \in Nat
  BY <1>1, FS_CardinalityType DEF UsersInv, FilesInv
<1>10. IsFiniteSet(fd') /\ Cardinality(fd') = Cardinality(fd) + 1
  BY <1>1, <1>9, FS_AddElement DEF FilesInv
<1>11. \A u \in Caller : pc[u].op = "close" => u \in fd
  BY DEF UsersInv
<1>12. ~OpenWhileClosing => \A u \in Caller : pc[u].op # "close"
  BY <1>7 DEF FilesInv
<1>13. fd' \subseteq Caller /\ fso' = Cardinality(fd') + (IF Opening' THEN 1 ELSE 0)
  BY <1>1, <1>7, <1>8, <1>9, <1>10 DEF FilesInv
<1>14. linked' = TRUE /\ linked' \in BOOLEAN /\ fso' > 0 /\ refcnt' = 1 /\ port_open' = 1
  BY <1>1, <1>7 DEF FilesInv
<1>15. \A u \in Caller : pc'[u].op = "close" => pc[u].op = "close"
  BY <1>1, <1>3
<1>16. ~OpenWhileClosing => ~bad' /\ \A u \in Caller : pc'[u].op # "close"
  BY <1>1, <1>12, <1>15 DEF FilesInv
<1>17. FilesInv'
  BY <1>8, <1>10, <1>13, <1>14, <1>16 DEF FilesInv
<1>18. QED
  BY <1>6, <1>4, <1>17

\* A descriptor less: if there was no other, the task had the only one.
LEMMA OneLeft ==
  ASSUME FilesInv, NEW t \in Caller, t \in fd
  PROVE /\ IsFiniteSet(fd \ {t}) /\ Cardinality(fd \ {t}) = Cardinality(fd) - 1
        /\ Cardinality(fd) \in Nat /\ Cardinality(fd) > 0
        /\ Cardinality(fd) <= 1 => fd = {t}
<1>1. IsFiniteSet(fd)
  BY DEF FilesInv
<1>2. IsFiniteSet(fd \ {t}) /\ Cardinality(fd \ {t}) = Cardinality(fd) - 1
  BY <1>1, FS_RemoveElement
<1>3. Cardinality(fd) \in Nat /\ Cardinality(fd \ {t}) \in Nat
  BY <1>1, <1>2, FS_CardinalityType
<1>4. ASSUME Cardinality(fd) <= 1 PROVE fd = {t}
  <2>1. Cardinality(fd \ {t}) = 0
    BY <1>2, <1>3, <1>4
  <2>2. fd \ {t} = {}
    BY <2>1, <1>2, FS_EmptySet
  <2>3. QED
    BY <2>2
<1>5. QED
  BY <1>2, <1>3, <1>4

\* A close begins: all but the last only count down.
LEMMA CloseBegun ==
  ASSUME SerialAssumption, PcInv, UsersInv, FilesInv, NEW t \in Caller, Close(t)
  PROVE PcInv' /\ UsersInv' /\ FilesInv'
<1>1. cpu = None /\ t \in fd /\ pc[t].op = "idle" /\ ~bad
  BY DEF Close, Enter, Idle, At
<1>2. ~Opening
  BY <1>1, NobodyOpens
<1>3. /\ IsFiniteSet(fd \ {t}) /\ Cardinality(fd \ {t}) = Cardinality(fd) - 1
      /\ Cardinality(fd) \in Nat /\ Cardinality(fd) > 0
      /\ Cardinality(fd) <= 1 => fd = {t}
  BY <1>1, OneLeft
<1>4. fso = Cardinality(fd)
  BY <1>2, <1>3 DEF FilesInv
<1>5. UNCHANGED <<refcnt, linked, port_open>>
  BY DEF Close
<1>6. CASE fso > 1
  <2>1. fso' = fso - 1 /\ fd' = fd \ {t} /\ UNCHANGED <<pc, cpu, bad>>
    BY <1>6 DEF Close
  <2>2. UserStep(t)
    BY <1>1, <2>1 DEF UserStep, Held, SerialAssumption
  <2>3. UsersInv'
    BY <2>2, UsersStep
  <2>4. ~Opening'
    BY <1>2, <2>1 DEF Opening
  <2>5. OpenWhileClosing \/ \A u \in Caller : pc[u].op # "close"
    BY <1>1, <1>3, <1>4, <1>6 DEF FilesInv
  <2>6. fso' > 0 /\ fso' = Cardinality(fd')
    BY <1>3, <1>4, <1>6, <2>1
  <2>7. FilesInv'
    BY <1>2, <1>3, <1>5, <2>1, <2>4, <2>5, <2>6 DEF FilesInv
  <2>8. QED
    BY <2>1, <2>3, <2>7 DEF PcInv
<1>7. CASE ~(fso > 1)
  <2>1. /\ bad' = (refcnt = 0) /\ UNCHANGED <<fso, fd>>
        /\ pc' = [pc EXCEPT ![t] = At("close", 0)] /\ cpu' = t
    BY <1>7 DEF Close, Go
  <2>2. "close" \in Ops /\ 0 \in 0..MaxCount /\ pc \in PcType
    BY DEF Ops, SerialAssumption, PcInv
  <2>3. /\ pc' \in PcType /\ pc'[t].op = "close"
        /\ \A u \in Caller : u # t => pc'[u] = pc[u]
    BY <2>1, <2>2, GoesTo
  <2>4. fd = {t}
    BY <1>3, <1>4, <1>7
  <2>5. \A u \in Caller : u # t => pc[u].op # "close"
    BY <2>4 DEF UsersInv
  <2>6. UserStep(t)
    BY <1>1, <2>1, <2>3, <2>5 DEF UserStep, Held, SerialAssumption
  <2>7. UsersInv'
    BY <2>6, UsersStep
  <2>8. ~Opening'
    BY <1>2, <2>3 DEF Opening
  <2>9. bad' = ~linked
    BY <2>1 DEF FilesInv
  <2>10. OpenWhileClosing \/ linked
    BY <2>4 DEF FilesInv
  <2>11. \A u \in Caller : pc'[u].op = "close" => fd' = {u}
    BY <2>1, <2>3, <2>4, <2>5
  <2>12. FilesInv'
    BY <1>2, <1>5, <2>1, <2>8, <2>9, <2>10, <2>11 DEF FilesInv
  <2>13. PcInv'
    BY <2>1, <2>3 DEF PcInv
  <2>14. QED
    BY <2>7, <2>12, <2>13
<1>8. QED
  BY <1>6, <1>7

\* The last close ends: the port is closed and cdev.fso forgotten.
LEMMA CloseEnded ==
  ASSUME SerialAssumption, PcInv, UsersInv, FilesInv, NEW t \in Caller, CloseEnd(t)
  PROVE /\ PcInv' /\ UsersInv' /\ FilesInv'
        /\ port_open = 1
<1>1. /\ cpu = t /\ pc[t].op = "close" /\ ~bad
      /\ port_open' = port_open - 1
      /\ refcnt' = refcnt - 1 /\ linked' = FALSE
      /\ fso' = fso - 1 /\ fd' = fd \ {t}
      /\ pc' = [pc EXCEPT ![t] = At("idle", 0)] /\ cpu' = None
      /\ bad' = bad
  BY DEF CloseEnd, RunsIn, Leave, Idle
<1>2. "idle" \in Ops /\ 0 \in 0..MaxCount /\ pc \in PcType
  BY DEF Ops, SerialAssumption, PcInv
<1>3. /\ pc' \in PcType /\ pc'[t].op = "idle"
      /\ \A u \in Caller : u # t => pc'[u] = pc[u]
  BY <1>1, <1>2, GoesTo
<1>4. PcInv'
  BY <1>1, <1>3 DEF PcInv
<1>5. UserStep(t)
  BY <1>1, <1>3 DEF UserStep, Held, SerialAssumption
<1>6. UsersInv'
  BY <1>5, UsersStep
<1>7. \A u \in Caller : u # t => pc[u].op # "close"
  BY <1>1 DEF UsersInv
<1>8. ~Opening
  <2>1. \A u \in Caller : pc[u].op = "open" => cpu = u
    BY DEF UsersInv, Held
  <2>2. QED
    BY <2>1, <1>1 DEF Opening
<1>9. ~Opening'
  BY <1>3, <1>8 DEF Opening
<1>10. t \in fd
  BY <1>1 DEF UsersInv
<1>11. /\ IsFiniteSet(fd \ {t}) /\ Cardinality(fd \ {t}) = Cardinality(fd) - 1
       /\ Cardinality(fd) \in Nat /\ Cardinality(fd) > 0
  BY <1>10, OneLeft
<1>12. linked /\ port_open = 1 /\ refcnt = 1
  BY <1>1, <1>8 DEF FilesInv
<1>13. \A u \in Caller : pc'[u].op # "close"
  BY <1>3, <1>7
<1>14. OpenWhileClosing \/ fd' = {}
  BY <1>1 DEF FilesInv
<1>15. fso' = Cardinality(fd') /\ Cardinality(fd') \in Nat /\ IsFiniteSet(fd')
  BY <1>1, <1>8, <1>11 DEF FilesInv
<1>16. port_open' = 0 /\ refcnt' = 0 /\ fd' \subseteq Caller
  BY <1>1, <1>12 DEF FilesInv
<1>17. linked' = FALSE /\ ~bad'
  BY <1>1
<1>18. fso' = Cardinality(fd') + (IF Opening' THEN 1 ELSE 0)
  BY <1>9, <1>15
<1>19. FilesInv'
  BY <1>9, <1>13, <1>14, <1>15, <1>16, <1>17, <1>18 DEF FilesInv
<1>20. QED
  BY <1>4, <1>6, <1>12, <1>19

\* A close that waits for the buffer gives up the processor, and nothing else.
LEMMA ClosersWait ==
  ASSUME SerialAssumption, PcInv, UsersInv, FilesInv, NEW t \in Caller, CloseSched(t)
  PROVE PcInv' /\ UsersInv' /\ FilesInv'
<1>1. UNCHANGED <<pc, files, bad>> /\ cpu \in {None, t} /\ cpu' \in {None, t} /\ pc[t].op = "close"
  BY DEF CloseSched, RunsIn
<1>2. UserStep(t)
  BY <1>1 DEF UserStep, Held, SerialAssumption, files, UsersInv
<1>3. UsersInv'
  BY <1>2, UsersStep
<1>4. FilesInv'
  BY <1>1, FilesSame
<1>5. PcInv'
  BY <1>1 DEF PcInv
<1>6. QED
  BY <1>3, <1>4, <1>5

\* ioctl finds the port open unless it was opened while a close waited.
LEMMA Controlled ==
  ASSUME SerialAssumption, PcInv, UsersInv, FilesInv, NEW t \in Caller, Ioctl(t)
  PROVE PcInv' /\ UsersInv' /\ FilesInv'
<1>1. UNCHANGED <<pc, cpu, files>> /\ bad' = (port_open = 0) /\ cpu = None /\ t \in fd /\ ~bad
  BY DEF Ioctl, Enter
<1>2. UNCHANGED <<fd, fso, refcnt, linked, port_open>>
  BY <1>1 DEF files
<1>3. ~Opening
  BY <1>1, NobodyOpens
<1>4. bad' = ~linked
  BY <1>1, <1>3 DEF FilesInv
<1>5. OpenWhileClosing \/ linked
  BY <1>1 DEF FilesInv
<1>6. Opening' <=> Opening
  BY <1>1 DEF Opening
<1>7. FilesInv'
  BY <1>1, <1>2, <1>3, <1>4, <1>5, <1>6 DEF FilesInv
<1>8. PcInv' /\ UsersInv'
  BY <1>1, <1>2 DEF PcInv, UsersInv
<1>9. QED
  BY <1>7, <1>8
-----------------------------------------------------------------------------
(* Calls that neither open nor close.                                      *)

TasksInv == PcInv /\ UsersInv /\ FilesInv

\* A task in a call, or with the port open, goes to op.
Goes(t, op, left) ==
  /\ op \in Ops \ {"open", "close"} /\ left \in 0..MaxCount
  /\ op \in {"wcopy", "wsleep", "wwoken"} => left > 0
  /\ pc' = [pc EXCEPT ![t] = At(op, left)]
  /\ cpu \in {None, t}
  /\ cpu' = IF op \in Held THEN t ELSE None
  /\ pc[t].op \notin {"open", "close"}
  /\ t \in fd \/ pc[t].op # "idle"
  /\ UNCHANGED <<files, bad>>

\* Such a step keeps what is said of tasks and descriptors.
LEMMA TasksGo ==
  ASSUME SerialAssumption, TasksInv, NEW t \in Caller, NEW op, NEW left, Goes(t, op, left)
  PROVE /\ TasksInv'
        /\ pc'[t].op = op /\ pc'[t].left = left
        /\ \A u \in Caller : u # t => pc'[u] = pc[u]
<1>1. pc \in PcType /\ op \in Ops /\ left \in 0..MaxCount /\ pc' = [pc EXCEPT ![t] = At(op, left)]
  BY DEF TasksInv, PcInv, Goes
<1>2. /\ pc' \in PcType
      /\ pc'[t].op = op /\ pc'[t].left = left
      /\ \A u \in Caller : u # t => pc'[u] = pc[u]
  BY <1>1, GoesTo
<1>3. PcInv'
  BY <1>2 DEF Goes, TasksInv, PcInv
<1>4. t \in fd /\ UNCHANGED <<fd, files, bad>>
  BY DEF Goes, TasksInv, UsersInv, files
<1>5. op \notin {"open", "close"} /\ pc[t].op \notin {"open", "close"}
  BY DEF Goes
<1>6. cpu \in {None, t} /\ cpu' = IF op \in Held THEN t ELSE None
  BY DEF Goes
<1>7. UserStep(t)
  BY <1>2, <1>4, <1>5, <1>6 DEF UserStep, SerialAssumption
<1>8. UsersInv'
  BY <1>7, UsersStep DEF TasksInv
<1>9. /\ \A u \in Caller : pc'[u].op = "open" <=> pc[u].op = "open"
      /\ \A u \in Caller : pc'[u].op = "close" <=> pc[u].op = "close"
  BY <1>2, <1>5
<1>10. FilesInv'
  BY <1>4, <1>9, FilesSame DEF TasksInv
<1>11. QED
  BY <1>2, <1>3, <1>8, <1>10 DEF TasksInv

\* An interrupt wakes the sleepers of one kind.
LEMMA TasksAwake ==
  ASSUME SerialAssumption, TasksInv, UNCHANGED <<cpu, files, bad>>,
         NEW from \in {"rsleep", "wsleep"}, NEW to,
         to = (IF from = "rsleep" THEN "rwoken" ELSE "wwoken"), pc' = Awake(pc, from, to)
  PROVE /\ TasksInv'
        /\ \A u \in Caller : /\ pc'[u].left = pc[u].left
                             /\ pc'[u].op = IF pc[u].op = from THEN to ELSE pc[u].op
<1>1. to \in Ops /\ pc \in PcType /\ to \in {"rwoken", "wwoken"}
  BY DEF Ops, TasksInv, PcInv
<1>2. /\ pc' \in PcType
      /\ \A u \in Caller : /\ pc'[u].left = pc[u].left
                           /\ pc'[u].op = IF pc[u].op = from THEN to ELSE pc[u].op
  BY <1>1, AwakeIs
<1>3. \A u \in Caller : pc'[u].op \in {"wcopy", "wsleep", "wwoken"} => pc[u].op \in {"wcopy", "wsleep", "wwoken"}
  BY <1>2
<1>4. PcInv'
  BY <1>2, <1>3 DEF TasksInv, PcInv
<1>5. UNCHANGED fd /\ (cpu = None \/ cpu \in Caller)
  BY DEF files, TasksInv, PcInv
<1>6. UsersInv'
  BY <1>1, <1>2, <1>5, UsersAwake DEF TasksInv
<1>7. /\ \A u \in Caller : pc'[u].op = "open" <=> pc[u].op = "open"
      /\ \A u \in Caller : pc'[u].op = "close" <=> pc[u].op = "close"
  BY <1>1, <1>2
<1>8. FilesInv'
  BY <1>7, FilesSame DEF TasksInv
<1>9. QED
  BY <1>2, <1>4, <1>6, <1>8 DEF TasksInv

-----------------------------------------------------------------------------
(* The buffers and the states of the device.                               *)

\* Bytes out, and writers.
OutInv ==
  /\ OutForm(wire, thr, out, put)
  /\ Len(out) <= BUF_SIZE
  /\ txint \in BOOLEAN
  /\ txint => thr = <<>>
  /\ \A t \in Caller : pc[t].op = "wsleep" => thr # <<>> \/ txint
  /\ OutMoves

\* Bytes in, and readers.
InInv ==
  /\ InForm(read, in, rx, lost, arrived)
  /\ Len(in) <= BUF_SIZE
  /\ \A t \in Caller : pc[t].op = "rsleep" => in = <<>>
  /\ \A t \in Caller : pc[t].op = "rcopy" => pc[t].left <= Len(in)

\* What poll() is told.
ReadyInv ==
  /\ state \subseteq {"R", "W"} /\ fstate \subseteq {"R", "W"}
  /\ linked => fstate = state
  /\ port_open = 0 => in = <<>>
  /\ ReadySeen

\* The inductive invariant.
SerialInv == TasksInv /\ OutInv /\ InInv /\ ReadyInv

\* What is said of bytes out holds after a step that moves none, and ends no write and no sleep.
LEMMA OutSame ==
  ASSUME OutInv, UNCHANGED <<wire, thr, out, put, txint, stuck>>,
         \A u \in Caller : pc'[u].op = "wsleep" => pc[u].op = "wsleep",
         \A u \in Caller : pc[u].op \in {"wcopy", "wwoken", "wend"} => pc'[u].op \in {"wcopy", "wwoken", "wend"}
  PROVE OutInv'
<1>1. OutMoves'
  BY DEF OutInv, OutMoves
<1>2. QED
  BY <1>1 DEF OutInv

\* What is said of bytes in holds after a step that moves none and lets nobody sleep or copy.
LEMMA InSame ==
  ASSUME InInv, UNCHANGED <<read, in, rx, lost, arrived>>,
         \A u \in Caller : pc'[u].op = "rsleep" => pc[u].op = "rsleep" \/ in = <<>>,
         \A u \in Caller : pc'[u].op = "rcopy" => pc'[u] = pc[u] \/ pc'[u].left <= Len(in)
  PROVE InInv'
BY DEF InInv

\* What poll() is told stays the same.
LEMMA ReadySame ==
  ASSUME ReadyInv, UNCHANGED <<linked, port_open, state, fstate, in, hidden>>
  PROVE ReadyInv'
BY DEF ReadyInv, ReadySeen

\* Steps that move no byte and change no state.
LEMMA NothingMoves ==
  ASSUME OutInv, InInv, ReadyInv,
         UNCHANGED <<wire, thr, out, put, txint, stuck, read, in, rx, lost, arrived>>,
         UNCHANGED <<linked, port_open, state, fstate, hidden>>,
         \A u \in Caller : pc'[u].op = "wsleep" => pc[u].op = "wsleep",
         \A u \in Caller : pc[u].op \in {"wcopy", "wwoken", "wend"} => pc'[u].op \in {"wcopy", "wwoken", "wend"},
         \A u \in Caller : pc'[u].op = "rsleep" => pc[u].op = "rsleep" \/ in = <<>>,
         \A u \in Caller : pc'[u].op = "rcopy" => pc'[u] = pc[u] \/ pc'[u].left <= Len(in)
  PROVE OutInv' /\ InInv' /\ ReadyInv'
BY OutSame, InSame, ReadySame
-----------------------------------------------------------------------------
(* The steps.                                                              *)

\* An open that begins sets the state of an unused device to "W"; nothing is there to be read.
LEMMA OpenKept ==
  ASSUME SerialAssumption, SerialInv, NEW t \in Caller, Open(t)
  PROVE SerialInv'
<1>1. TasksInv'
  BY PcOpen, FilesOpen DEF SerialInv, TasksInv
<1>2. UNCHANGED <<wire, thr, out, put, txint, stuck, read, in, rx, lost, arrived, hidden>> /\ pc[t].op = "idle"
  BY DEF Open, port, Enter, Idle, At
<1>3. /\ \A u \in Caller : u # t => pc'[u] = pc[u]
      /\ pc'[t].op \in {"idle", "open"}
  <2>1. CASE fso > 0
    BY <2>1, <1>2 DEF Open
  <2>2. CASE ~(fso > 0)
    <3>1. pc' = [pc EXCEPT ![t] = At("open", 0)]
      BY <2>2 DEF Open, Go
    <3>2. "open" \in Ops /\ 0 \in 0..MaxCount /\ pc \in PcType
      BY DEF Ops, SerialAssumption, SerialInv, TasksInv, PcInv
    <3>3. QED
      BY <3>1, <3>2, GoesTo
  <2>3. QED
    BY <2>1, <2>2
<1>4. OutInv' /\ InInv'
  BY <1>2, <1>3, OutSame, InSame DEF SerialInv
<1>5. ReadyInv'
  <2>1. CASE fso > 0
    <3>1. UNCHANGED <<linked, port_open, state, fstate, in, hidden>>
      BY <1>2, <2>1 DEF Open
    <3>2. QED
      BY <3>1, ReadySame DEF SerialInv
  <2>2. CASE ~(fso > 0)
    <3>1. /\ linked' = TRUE /\ UNCHANGED port_open
          /\ state' = (IF port_open = 0 THEN {"W"} ELSE state)
          /\ fstate' = state'
      BY <2>2 DEF Open
    <3>2. ~linked
      BY <2>2 DEF SerialInv, TasksInv, FilesInv
    <3>3. port_open = 0
      BY <3>2 DEF SerialInv, TasksInv, FilesInv
    <3>4. in = <<>>
      BY <3>3 DEF SerialInv, ReadyInv
    <3>5. QED
      BY <1>2, <3>1, <3>3, <3>4 DEF ReadyInv, ReadySeen
  <2>3. QED
    BY <2>1, <2>2
<1>6. QED
  BY <1>1, <1>4, <1>5 DEF SerialInv

\* An open that ends changes nothing but the users.
LEMMA OpenEndKept ==
  ASSUME SerialAssumption, SerialInv, NEW t \in Caller, OpenEnd(t)
  PROVE SerialInv'
<1>1. TasksInv'
  BY OpenEnded DEF SerialInv, TasksInv
<1>2. /\ UNCHANGED <<wire, thr, out, put, txint, stuck, read, in, rx, lost, arrived>>
      /\ UNCHANGED <<linked, state, fstate, hidden>>
      /\ port_open' = port_open + 1 /\ pc[t].op = "open" /\ pc' = [pc EXCEPT ![t] = At("idle", 0)]
  BY DEF OpenEnd, RunsIn, Leave, Idle, port
<1>3. "idle" \in Ops /\ 0 \in 0..MaxCount /\ pc \in PcType
  BY DEF Ops, SerialAssumption, SerialInv, TasksInv, PcInv
<1>4. pc'[t].op = "idle" /\ \A u \in Caller : u # t => pc'[u] = pc[u]
  BY <1>2, <1>3, GoesTo
<1>5. OutInv' /\ InInv'
  BY <1>2, <1>4, OutSame, InSame DEF SerialInv
<1>6. Opening
  BY <1>2 DEF Opening
<1>7. port_open = 0
  BY <1>6 DEF SerialInv, TasksInv, FilesInv
<1>8. ReadyInv'
  BY <1>2, <1>7 DEF SerialInv, ReadyInv, ReadySeen
<1>9. QED
  BY <1>1, <1>5, <1>8 DEF SerialInv

\* A close that begins or waits, and ioctl.
LEMMA CloseKept ==
  ASSUME SerialAssumption, SerialInv, NEW t \in Caller, Close(t) \/ CloseSched(t) \/ Ioctl(t)
  PROVE SerialInv'
<1>1. TasksInv'
  BY CloseBegun, ClosersWait, Controlled DEF SerialInv, TasksInv
<1>2. /\ UNCHANGED <<wire, thr, out, put, txint, stuck, read, in, rx, lost, arrived>>
      /\ UNCHANGED <<linked, port_open, state, fstate, hidden>>
  BY DEF Close, CloseSched, Ioctl, port, files
<1>3. /\ \A u \in Caller : u # t => pc'[u] = pc[u]
      /\ pc'[t] = pc[t] \/ (pc[t].op = "idle" /\ pc'[t].op = "close")
  <2>1. CASE pc' = pc
    BY <2>1
  <2>2. CASE pc' # pc
    <3>1. pc' = [pc EXCEPT ![t] = At("close", 0)] /\ pc[t].op = "idle"
      BY <2>2 DEF Close, CloseSched, Ioctl, Go, Enter, Idle, At
    <3>2. "close" \in Ops /\ 0 \in 0..MaxCount /\ pc \in PcType
      BY DEF Ops, SerialAssumption, SerialInv, TasksInv, PcInv
    <3>3. QED
      BY <3>1, <3>2, GoesTo
  <2>3. QED
    BY <2>1, <2>2
<1>4. OutInv' /\ InInv' /\ ReadyInv'
  BY <1>2, <1>3, OutSame, InSame, ReadySame DEF SerialInv
<1>5. QED
  BY <1>1, <1>4 DEF SerialInv

\* The last close drops what nobody has read, and clears the state.
LEMMA CloseEndKept ==
  ASSUME SerialAssumption, SerialInv, NEW t \in Caller, CloseEnd(t)
  PROVE SerialInv'
<1>1. TasksInv' /\ port_open = 1
  BY CloseEnded DEF SerialInv, TasksInv
<1>2. /\ UNCHANGED <<wire, thr, out, put, txint, stuck, read, rx, arrived>>
      /\ linked' = FALSE /\ state' = {} /\ fstate' = (IF linked THEN {} ELSE fstate)
      /\ in' = <<>> /\ lost' = lost \cup Elems(in)
      /\ pc[t].op = "close" /\ pc' = [pc EXCEPT ![t] = At("idle", 0)]
  BY <1>1 DEF CloseEnd, RunsIn, Leave, Idle, port, SetState, Elems
<1>3. "idle" \in Ops /\ 0 \in 0..MaxCount /\ pc \in PcType
  BY DEF Ops, SerialAssumption, SerialInv, TasksInv, PcInv
<1>4. pc'[t].op = "idle" /\ \A u \in Caller : u # t => pc'[u] = pc[u]
  BY <1>2, <1>3, GoesTo
<1>5. OutInv'
  BY <1>2, <1>4, OutSame DEF SerialInv
<1>6. cpu = t
  BY DEF CloseEnd, RunsIn
<1>7. \A u \in Caller : pc[u].op = "rcopy" => u = t
  BY <1>6 DEF SerialInv, TasksInv, UsersInv, Held
<1>8. \A u \in Caller : pc'[u].op # "rcopy"
  BY <1>4, <1>7
<1>9. InForm(read, <<>>, rx, lost \cup Elems(in), arrived)
  BY InClosed DEF SerialInv, InInv
<1>10. Len(in') <= BUF_SIZE
  BY <1>2 DEF SerialAssumption
<1>11. InInv'
  BY <1>2, <1>8, <1>9, <1>10 DEF InInv
<1>12. ReadyInv'
  BY <1>2 DEF SerialInv, ReadyInv, ReadySeen
<1>13. QED
  BY <1>1, <1>5, <1>11, <1>12 DEF SerialInv

\* sio_read looks at in_buf.
LEMMA LookKept ==
  ASSUME SerialAssumption, SerialInv, NEW t \in Caller, NEW n \in 0..MaxCount, NEW no_delay \in BOOLEAN,
         cpu = None, pc[t].op \in {"idle", "rwoken"}, t \in fd \/ pc[t].op # "idle",
         ReadLook(t, n, no_delay),
         UNCHANGED <<files, state, fstate, out, in, port, wire, put, read, lost, arrived, stuck, hidden, bad>>
  PROVE SerialInv'
<1>1. /\ UNCHANGED <<wire, thr, out, put, txint, stuck, read, in, rx, lost, arrived>>
      /\ UNCHANGED <<linked, port_open, state, fstate, hidden>>
      /\ MaxCount \in Nat /\ Len(in) \in Nat
  BY ElemsOf DEF port, files, SerialAssumption, SerialInv, InInv, InForm
<1>2. CASE in # <<>>
  <2>1. PICK left \in 0..MaxCount : left <= Len(in) /\ left = IF n < Len(in) THEN n ELSE Len(in)
    BY <1>1
  <2>2. Goes(t, "rcopy", left)
    BY <1>2, <2>1 DEF ReadLook, Go, Goes, Ops, Held
  <2>3. /\ TasksInv' /\ pc'[t].op = "rcopy" /\ pc'[t].left = left
        /\ \A u \in Caller : u # t => pc'[u] = pc[u]
    BY <2>2, TasksGo DEF SerialInv
  <2>4. OutInv' /\ InInv' /\ ReadyInv'
    BY <1>1, <2>1, <2>3, OutSame, InSame, ReadySame DEF SerialInv
  <2>5. QED
    BY <2>3, <2>4 DEF SerialInv
<1>3. CASE in = <<>>
  <2>1. PICK op \in {"idle", "rsleep"}, left \in 0..MaxCount : Goes(t, op, left)
    <3>1. no_delay => Goes(t, "idle", 0)
      BY <1>1, <1>3 DEF ReadLook, Leave, Idle, Goes, Ops, Held
    <3>2. ~no_delay => Goes(t, "rsleep", n)
      BY <1>1, <1>3 DEF ReadLook, SleepsIn, Goes, Ops, Held
    <3>3. 0 \in 0..MaxCount
      BY <1>1
    <3>4. QED
      BY <3>1, <3>2, <3>3
  <2>2. /\ TasksInv' /\ pc'[t].op = op
        /\ \A u \in Caller : u # t => pc'[u] = pc[u]
    BY <2>1, TasksGo DEF SerialInv
  <2>3. OutInv' /\ InInv' /\ ReadyInv'
    BY <1>1, <1>3, <2>1, <2>2, OutSame, InSame, ReadySame DEF SerialInv
  <2>4. QED
    BY <2>2, <2>3 DEF SerialInv
<1>4. QED
  BY <1>2, <1>3

\* A read begins, or goes on after a sleep.
LEMMA ReadKept ==
  ASSUME SerialAssumption, SerialInv, NEW t \in Caller,
         (\E n \in 1..MaxCount, nd \in BOOLEAN : Read(t, n, nd)) \/ ReadAgain(t)
  PROVE SerialInv'
<1>1. ASSUME NEW n \in 1..MaxCount, NEW nd \in BOOLEAN, Read(t, n, nd) PROVE SerialInv'
  <2>1. n \in 0..MaxCount /\ cpu = None /\ pc[t].op = "idle" /\ t \in fd
    BY <1>1 DEF Read, Enter, Idle, At, SerialAssumption
  <2>2. /\ ReadLook(t, n, nd)
        /\ UNCHANGED <<files, state, fstate, out, in, port, wire, put, read, lost, arrived, stuck, hidden, bad>>
    BY <1>1 DEF Read
  <2>3. QED
    BY <2>1, <2>2, LookKept
<1>2. ASSUME ReadAgain(t) PROVE SerialInv'
  <2>1. cpu = None /\ pc[t].op = "rwoken"
    BY <1>2 DEF ReadAgain
  <2>2. /\ ReadLook(t, pc[t].left, FALSE)
        /\ UNCHANGED <<files, state, fstate, out, in, port, wire, put, read, lost, arrived, stuck, hidden, bad>>
    BY <1>2 DEF ReadAgain
  <2>3. pc[t].left \in 0..MaxCount
    BY DEF SerialInv, TasksInv, PcInv, PcType
  <2>4. FALSE \in BOOLEAN
    OBVIOUS
  <2>5. pc[t].op \in {"idle", "rwoken"} /\ (t \in fd \/ pc[t].op # "idle")
    BY <2>1
  <2>6. QED
    BY <2>1, <2>2, <2>3, <2>4, <2>5, LookKept
<1>3. QED
  BY <1>1, <1>2

\* The only task that copies is the one in the kernel.
LEMMA OnlyReader ==
  ASSUME SerialInv, NEW t \in Caller, cpu = t
  PROVE \A u \in Caller : u # t => pc[u].op # "rcopy"
BY DEF SerialInv, TasksInv, UsersInv, Held

\* sio_read takes a byte: the others at the port have none to copy.
LEMMA ReadByteKept ==
  ASSUME SerialAssumption, SerialInv, NEW t \in Caller, ReadByte(t)
  PROVE SerialInv'
<1>1. /\ UNCHANGED <<wire, thr, out, put, txint, stuck, rx, lost, arrived>>
      /\ UNCHANGED <<linked, port_open, state, fstate, hidden>>
      /\ UNCHANGED <<files, bad>>
      /\ cpu = t /\ pc[t].op = "rcopy"
  BY DEF ReadByte, RunsIn, port, files
<1>2. /\ pc[t].left \in 0..MaxCount /\ MaxCount \in Nat /\ pc[t].left <= Len(in)
      /\ in \in Seq(Nat) /\ Len(in) \in Nat
  BY <1>1, ElemsOf DEF SerialAssumption, SerialInv, TasksInv, PcInv, PcType, InInv, InForm
<1>3. CASE pc' = [pc EXCEPT ![t] = At("rend", 0)] /\ cpu' = t /\ UNCHANGED <<read, in>>
  <2>1. Goes(t, "rend", 0)
    BY <1>1, <1>2, <1>3 DEF Goes, Ops, Held
  <2>2. /\ TasksInv' /\ pc'[t].op = "rend"
        /\ \A u \in Caller : u # t => pc'[u] = pc[u]
    BY <2>1, TasksGo DEF SerialInv
  <2>3. OutInv' /\ InInv' /\ ReadyInv'
    BY <1>1, <1>3, <2>2, OutSame, InSame, ReadySame DEF SerialInv
  <2>4. QED
    BY <2>2, <2>3 DEF SerialInv
<1>4. CASE /\ pc[t].left > 0
           /\ read' = Append(read, Head(in)) /\ in' = Tail(in)
           /\ pc' = [pc EXCEPT ![t] = At("rcopy", pc[t].left - 1)] /\ cpu' = t
  <2>1. pc[t].left - 1 \in 0..MaxCount
    BY <1>2, <1>4
  <2>2. Goes(t, "rcopy", pc[t].left - 1)
    BY <1>1, <1>4, <2>1 DEF Goes, Ops, Held
  <2>3. /\ TasksInv' /\ pc'[t].op = "rcopy" /\ pc'[t].left = pc[t].left - 1
        /\ \A u \in Caller : u # t => pc'[u] = pc[u]
    BY <2>2, TasksGo DEF SerialInv
  <2>4. OutInv'
    BY <1>1, <2>3, OutSame DEF SerialInv
  <2>5. in # <<>>
    BY <1>2, <1>4, SmallElems
  <2>6. InForm(read', in', rx', lost', arrived')
    BY <1>1, <1>4, <2>5, InRead DEF SerialInv, InInv
  <2>7. Len(in') = Len(in) - 1
    BY <1>2, <1>4, <2>5, NotEmpty, HeadTailProperties
  <2>8. \A u \in Caller : pc'[u].op = "rcopy" => u = t
    BY <1>1, <2>3, OnlyReader
  <2>9. \A u \in Caller : pc'[u].op # "rsleep"
    BY <2>3, <2>5 DEF SerialInv, InInv
  <2>10. Len(in') <= BUF_SIZE
    BY <1>2, <2>7 DEF SerialInv, InInv, SerialAssumption
  <2>11. pc'[t].left <= Len(in')
    BY <1>2, <2>1, <2>3, <2>7
  <2>12. InInv'
    BY <2>6, <2>8, <2>9, <2>10, <2>11 DEF InInv
  <2>13. ReadyInv'
    BY <1>1, <2>5 DEF SerialInv, ReadyInv, ReadySeen
  <2>14. QED
    BY <2>3, <2>4, <2>12, <2>13 DEF SerialInv
<1>5. QED
  BY <1>1, <1>3, <1>4 DEF ReadByte, Go

\* The end of sio_read, where the state is cleared if the buffer was found empty.
LEMMA ReadEndKept ==
  ASSUME SerialAssumption, SerialInv, NEW t \in Caller, ReadEnd(t) \/ ReadClear(t)
  PROVE SerialInv'
<1>1. /\ UNCHANGED <<wire, thr, out, put, txint, stuck, read, in, rx, lost, arrived>>
      /\ UNCHANGED <<linked, port_open, files, bad>>
      /\ cpu = t /\ pc[t].op \in {"rend", "rclear"}
      /\ 0 \in 0..MaxCount
  BY DEF ReadEnd, ReadClear, RunsIn, port, files, SerialAssumption
<1>2. PICK op \in {"idle", "rclear"} : Goes(t, op, 0)
  <2>1. ReadEnd(t) => Goes(t, "rclear", 0) \/ Goes(t, "idle", 0)
    BY <1>1 DEF ReadEnd, Go, Leave, Idle, Goes, Ops, Held
  <2>2. ReadClear(t) => Goes(t, "idle", 0)
    BY <1>1 DEF ReadClear, Leave, Idle, Goes, Ops, Held
  <2>3. QED
    BY <2>1, <2>2
<1>3. /\ TasksInv' /\ pc'[t].op = op
      /\ \A u \in Caller : u # t => pc'[u] = pc[u]
  BY <1>2, TasksGo DEF SerialInv
<1>4. OutInv' /\ InInv'
  BY <1>1, <1>2, <1>3, OutSame, InSame DEF SerialInv
<1>5. ReadyInv'
  <2>1. CASE ReadEnd(t)
    <3>1. UNCHANGED <<linked, port_open, state, fstate, in, hidden>>
      BY <1>1, <2>1 DEF ReadEnd
    <3>2. QED
      BY <3>1, ReadySame DEF SerialInv
  <2>2. CASE ReadClear(t)
    <3>1. /\ state' = state \ {"R"} /\ fstate' = (IF linked THEN state \ {"R"} ELSE fstate)
          /\ hidden' = (in # <<>>)
      BY <2>2 DEF ReadClear, SetState
    <3>2. QED
      BY <1>1, <3>1 DEF SerialInv, ReadyInv, ReadySeen
  <2>3. QED
    BY <2>1, <2>2
<1>6. QED
  BY <1>3, <1>4, <1>5 DEF SerialInv

\* A write begins.
LEMMA WriteKept ==
  ASSUME SerialAssumption, SerialInv, NEW t \in Caller, NEW n \in 1..MaxCount, NEW nd \in BOOLEAN,
         Write(t, n, nd)
  PROVE SerialInv'
<1>1. /\ UNCHANGED <<wire, thr, out, put, txint, stuck, read, in, rx, lost, arrived>>
      /\ UNCHANGED <<linked, port_open, state, fstate, hidden>>
      /\ UNCHANGED <<files, bad>>
      /\ cpu = None /\ pc[t].op = "idle" /\ t \in fd
  BY DEF Write, Enter, Idle, At, port, files
<1>2. Room \in 0..BUF_SIZE /\ MaxCount \in Nat
  BY ElemsOf DEF Room, SerialAssumption, SerialInv, OutInv, OutForm
<1>3. PICK count \in 0..MaxCount :
        IF count = 0 THEN Leave(t) ELSE Go(t, "wcopy", count)
  <2>1. (IF nd /\ n > Room THEN Room ELSE n) \in 0..MaxCount
    BY <1>2 DEF SerialAssumption
  <2>2. QED
    BY <2>1 DEF Write
<1>4. PICK op \in {"idle", "wcopy"}, left \in 0..MaxCount : Goes(t, op, left)
  <2>1. count = 0 => Goes(t, "idle", 0)
    BY <1>1, <1>2, <1>3 DEF Leave, Idle, Goes, Ops, Held
  <2>2. count # 0 => Goes(t, "wcopy", count)
    BY <1>1, <1>2, <1>3 DEF Go, Goes, Ops, Held
  <2>3. 0 \in 0..MaxCount
    BY <1>2
  <2>4. QED
    BY <2>1, <2>2, <2>3
<1>5. /\ TasksInv' /\ pc'[t].op = op
      /\ \A u \in Caller : u # t => pc'[u] = pc[u]
  BY <1>4, TasksGo DEF SerialInv
<1>6. OutInv' /\ InInv' /\ ReadyInv'
  BY <1>1, <1>4, <1>5, OutSame, InSame, ReadySame DEF SerialInv
<1>7. QED
  BY <1>5, <1>6 DEF SerialInv

\* sio_startw: if there is something to send, the port is busy afterwards.
LEMMA Started ==
  ASSUME OutInv, StartW, UNCHANGED <<wire, put>>
  PROVE /\ OutForm(wire', thr', out', put')
        /\ Len(out') <= Len(out) /\ Len(out') \in Nat /\ Len(out) \in Nat
        /\ txint' \in BOOLEAN
        /\ txint' => thr' = <<>>
        /\ out # <<>> => thr' # <<>>
        /\ out = <<>> => out' = <<>>
        /\ thr # <<>> \/ txint => thr' # <<>> \/ txint'
<1>1. OutForm(wire, thr, out, put) /\ txint \in BOOLEAN /\ (txint => thr = <<>>)
  BY DEF OutInv
<1>2. out \in Seq(Nat) /\ Len(out) \in Nat
  BY <1>1, ElemsOf DEF OutForm
<1>3. CASE out # <<>> /\ thr = <<>>
  <2>1. thr' = <<Head(out)>> /\ txint' = FALSE /\ out' = Tail(out)
    BY <1>3 DEF StartW
  <2>2. OutForm(wire, <<Head(out)>>, Tail(out), put)
    BY <1>1, <1>3, OutLoaded
  <2>3. Len(out) > 0
    BY <1>2, <1>3, NotEmpty
  <2>4. Len(out') = Len(out) - 1
    BY <1>2, <1>3, <2>1, HeadTailProperties
  <2>5. thr' # <<>>
    BY <2>1
  <2>6. Len(out') <= Len(out) /\ Len(out') \in Nat
    BY <1>2, <2>3, <2>4
  <2>7. OutForm(wire', thr', out', put')
    BY <2>1, <2>2
  <2>8. QED
    BY <1>2, <1>3, <2>1, <2>5, <2>6, <2>7
<1>4. CASE ~(out # <<>> /\ thr = <<>>)
  <2>1. UNCHANGED <<thr, txint, out>>
    BY <1>4 DEF StartW
  <2>2. QED
    BY <1>1, <1>2, <1>4, <2>1
<1>5. QED
  BY <1>3, <1>4

\* sio_write puts a byte into the buffer, sleeps on a full one with the port busy, or fails.
LEMMA WriteByteKept ==
  ASSUME SerialAssumption, SerialInv, NEW t \in Caller, WriteByte(t)
  PROVE SerialInv'
<1>1. /\ UNCHANGED <<wire, read, in, rx, lost, arrived>>
      /\ UNCHANGED <<linked, port_open, state, fstate, hidden>>
      /\ UNCHANGED <<files, bad>>
      /\ cpu \in {None, t} /\ pc[t].op \in {"wcopy", "wwoken"}
  BY DEF WriteByte, RunsIn, files
<1>2. /\ pc[t].left \in 0..MaxCount /\ MaxCount \in Nat /\ pc[t].left > 0
      /\ out \in Seq(Nat) /\ Len(out) \in Nat /\ Len(out) <= BUF_SIZE /\ BUF_SIZE \in Nat /\ BUF_SIZE > 0
  BY <1>1, ElemsOf DEF SerialAssumption, SerialInv, TasksInv, PcInv, PcType, OutInv, OutForm
<1>3. CASE Room = 0 /\ StartW /\ SleepsIn(t, "wsleep", pc[t].left) /\ stuck' = FALSE /\ UNCHANGED put
  <2>1. Goes(t, "wsleep", pc[t].left)
    BY <1>1, <1>2, <1>3 DEF SleepsIn, Goes, Ops, Held
  <2>2. /\ TasksInv' /\ pc'[t].op = "wsleep"
        /\ \A u \in Caller : u # t => pc'[u] = pc[u]
    BY <2>1, TasksGo DEF SerialInv
  <2>3. InInv' /\ ReadyInv'
    BY <1>1, <2>2, InSame, ReadySame DEF SerialInv
  <2>4. Len(out) > 0
    BY <1>2, <1>3 DEF Room
  <2>5. out # <<>>
    BY <2>4, SmallElems
  <2>6. /\ OutForm(wire', thr', out', put')
        /\ Len(out') <= Len(out) /\ Len(out') \in Nat
        /\ txint' \in BOOLEAN
        /\ txint' => thr' = <<>>
        /\ thr' # <<>>
    BY <1>1, <1>3, <2>5, Started DEF SerialInv
  <2>7. OutMoves'
    BY <2>6 DEF OutMoves
  <2>8. Len(out') <= BUF_SIZE
    BY <1>2, <2>6
  <2>9. OutInv'
    BY <2>6, <2>7, <2>8 DEF OutInv
  <2>10. QED
    BY <2>2, <2>3, <2>9 DEF SerialInv
<1>4. CASE /\ Room > 0
           /\ put' = put + 1 /\ out' = Append(out, put + 1)
           /\ Go(t, IF pc[t].left = 1 THEN "wend" ELSE "wcopy", pc[t].left - 1)
           /\ UNCHANGED <<thr, txint, stuck>>
  <2>1. PICK op \in {"wend", "wcopy"} : Goes(t, op, pc[t].left - 1)
    <3>1. pc[t].left - 1 \in 0..MaxCount
      BY <1>2
    <3>2. pc[t].left = 1 => Goes(t, "wend", pc[t].left - 1)
      BY <1>1, <1>4, <3>1 DEF Go, Goes, Ops, Held
    <3>3. pc[t].left # 1 => pc[t].left - 1 > 0
      BY <1>2
    <3>4. pc[t].left # 1 => Goes(t, "wcopy", pc[t].left - 1)
      BY <1>1, <1>4, <3>1, <3>3 DEF Go, Goes, Ops, Held
    <3>5. QED
      BY <3>2, <3>4
  <2>2. /\ TasksInv' /\ pc'[t].op = op
        /\ \A u \in Caller : u # t => pc'[u] = pc[u]
    BY <2>1, TasksGo DEF SerialInv
  <2>3. InInv' /\ ReadyInv'
    BY <1>1, <2>1, <2>2, InSame, ReadySame DEF SerialInv
  <2>4. OutForm(wire', thr', out', put')
    BY <1>1, <1>4, OutTaken DEF SerialInv, OutInv
  <2>5. put \in Nat
    BY DEF SerialInv, OutInv, OutForm
  <2>6. Len(out') = Len(out) + 1
    BY <1>2, <1>4, <2>5, AppendProperties
  <2>7. Len(out') <= BUF_SIZE
    BY <1>2, <1>4, <2>6 DEF Room
  <2>8. OutMoves'
    BY <2>1, <2>2 DEF OutMoves
  <2>9. OutInv'
    BY <1>4, <2>1, <2>2, <2>4, <2>7, <2>8 DEF SerialInv, OutInv
  <2>10. QED
    BY <2>2, <2>3, <2>9 DEF SerialInv
<1>5. CASE /\ Leave(t) /\ stuck' = TRUE /\ UNCHANGED <<put, out, thr, txint>>
  <2>1. Goes(t, "idle", 0)
    BY <1>1, <1>2, <1>5 DEF Leave, Idle, Goes, Ops, Held
  <2>2. /\ TasksInv' /\ pc'[t].op = "idle"
        /\ \A u \in Caller : u # t => pc'[u] = pc[u]
    BY <2>1, TasksGo DEF SerialInv
  <2>3. InInv' /\ ReadyInv'
    BY <1>1, <2>2, InSame, ReadySame DEF SerialInv
  <2>4. OutMoves'
    BY <1>5 DEF OutMoves
  <2>5. OutInv'
    BY <1>1, <1>5, <2>2, <2>4 DEF SerialInv, OutInv
  <2>6. QED
    BY <2>2, <2>3, <2>5 DEF SerialInv
<1>6. QED
  BY <1>3, <1>4, <1>5 DEF WriteByte

\* sio_write starts the port.
LEMMA WriteEndKept ==
  ASSUME SerialAssumption, SerialInv, NEW t \in Caller, WriteEnd(t)
  PROVE SerialInv'
<1>1. /\ UNCHANGED <<wire, put, read, in, rx, lost, arrived>>
      /\ UNCHANGED <<linked, port_open, state, fstate, hidden>>
      /\ UNCHANGED <<files, bad>>
      /\ cpu = t /\ pc[t].op = "wend" /\ StartW /\ stuck' = FALSE
      /\ 0 \in 0..MaxCount
  BY DEF WriteEnd, RunsIn, files, SerialAssumption
<1>2. Goes(t, "wcheck", 0)
  BY <1>1 DEF WriteEnd, Go, Goes, Ops, Held
<1>3. /\ TasksInv' /\ pc'[t].op = "wcheck"
      /\ \A u \in Caller : u # t => pc'[u] = pc[u]
  BY <1>2, TasksGo DEF SerialInv
<1>4. InInv' /\ ReadyInv'
  BY <1>1, <1>3, InSame, ReadySame DEF SerialInv
<1>5. /\ OutForm(wire', thr', out', put')
      /\ Len(out') <= Len(out) /\ Len(out') \in Nat /\ Len(out) \in Nat
      /\ txint' \in BOOLEAN
      /\ txint' => thr' = <<>>
      /\ out # <<>> => thr' # <<>>
      /\ out = <<>> => out' = <<>>
      /\ thr # <<>> \/ txint => thr' # <<>> \/ txint'
  BY <1>1, Started DEF SerialInv
<1>6. OutMoves'
  BY <1>5 DEF OutMoves
<1>7. Len(out') <= BUF_SIZE
  BY <1>5 DEF SerialInv, OutInv, SerialAssumption
<1>8. OutInv'
  BY <1>3, <1>5, <1>6, <1>7 DEF SerialInv, OutInv
<1>9. QED
  BY <1>3, <1>4, <1>8 DEF SerialInv

\* sio_write at its end: writers that wait are woken, when there is room.
LEMMA WriteCheckKept ==
  ASSUME SerialAssumption, SerialInv, NEW t \in Caller, WriteCheck(t)
  PROVE SerialInv'
<1>1. /\ UNCHANGED <<wire, thr, out, put, txint, stuck, read, in, rx, lost, arrived>>
      /\ UNCHANGED <<linked, port_open, state, fstate, hidden>>
      /\ UNCHANGED <<files, bad>>
      /\ cpu = t /\ pc[t].op = "wcheck"
      /\ 0 \in 0..MaxCount
  BY DEF WriteCheck, RunsIn, port, files, SerialAssumption
<1>2. CASE Go(t, "wclear", 0)
  <2>1. Goes(t, "wclear", 0)
    BY <1>1, <1>2 DEF Go, Goes, Ops, Held
  <2>2. /\ TasksInv' /\ pc'[t].op = "wclear"
        /\ \A u \in Caller : u # t => pc'[u] = pc[u]
    BY <2>1, TasksGo DEF SerialInv
  <2>3. OutInv' /\ InInv' /\ ReadyInv'
    BY <1>1, <2>2, OutSame, InSame, ReadySame DEF SerialInv
  <2>4. QED
    BY <2>2, <2>3 DEF SerialInv
<1>3. CASE pc' = [Awake(pc, "wsleep", "wwoken") EXCEPT ![t] = Idle] /\ cpu' = None
  <2>1. PICK q : q = Awake(pc, "wsleep", "wwoken")
    OBVIOUS
  <2>2. pc \in PcType /\ "wwoken" \in Ops /\ Idle \in [op : Ops, left : 0..MaxCount]
    BY <1>1 DEF SerialInv, TasksInv, PcInv, Ops, Idle, At
  <2>3. /\ q \in PcType
        /\ \A u \in Caller : /\ q[u].left = pc[u].left
                             /\ q[u].op = IF pc[u].op = "wsleep" THEN "wwoken" ELSE pc[u].op
    BY <2>1, <2>2, AwakeIs
  <2>4. /\ pc' \in PcType /\ pc'[t].op = "idle"
        /\ \A u \in Caller : u # t => pc'[u] = q[u]
    <3>1. pc' = [q EXCEPT ![t] = Idle]
      BY <1>3, <2>1
    <3>2. Idle.op = "idle"
      BY DEF Idle, At
    <3>3. QED
      BY <2>2, <2>3, <3>1, <3>2 DEF PcType
  <2>5. /\ \A u \in Caller : u # t => pc'[u].left = pc[u].left
        /\ \A u \in Caller : u # t => pc'[u].op = IF pc[u].op = "wsleep" THEN "wwoken" ELSE pc[u].op
    BY <2>3, <2>4
  <2>6. PcInv'
    <3>1. ASSUME NEW u \in Caller, pc'[u].op \in {"wcopy", "wsleep", "wwoken"} PROVE pc'[u].left > 0
      <4>1. u # t /\ pc[u].op \in {"wcopy", "wsleep", "wwoken"}
        BY <2>4, <2>5, <3>1
      <4>2. pc[u].left > 0
        BY <4>1 DEF SerialInv, TasksInv, PcInv
      <4>3. QED
        BY <4>1, <4>2, <2>5
    <3>2. QED
      BY <1>3, <2>4, <3>1 DEF PcInv
  <2>7. UNCHANGED fd
    BY <1>1 DEF files
  <2>8. UserStep(t)
    BY <1>1, <1>3, <2>4, <2>5, <2>7 DEF UserStep, Held, SerialAssumption
  <2>9. UsersInv'
    BY <2>8, UsersStep DEF SerialInv, TasksInv
  <2>10. /\ \A u \in Caller : pc'[u].op = "open" <=> pc[u].op = "open"
         /\ \A u \in Caller : pc'[u].op = "close" <=> pc[u].op = "close"
    BY <1>1, <2>4, <2>5
  <2>11. FilesInv'
    BY <1>1, <2>10, FilesSame DEF SerialInv, TasksInv
  <2>12. /\ \A u \in Caller : pc'[u].op = "wsleep" => pc[u].op = "wsleep"
         /\ \A u \in Caller : pc[u].op \in {"wcopy", "wwoken", "wend"} => pc'[u].op \in {"wcopy", "wwoken", "wend"}
    BY <1>1, <2>4, <2>5
  <2>13. OutInv'
    BY <1>1, <2>12, OutSame DEF SerialInv
  <2>14. \A u \in Caller : pc'[u].op = "rsleep" => pc[u].op = "rsleep"
    BY <2>4, <2>5
  <2>15. \A u \in Caller : pc'[u].op # "rcopy"
    BY <1>1, <2>4, <2>5, OnlyReader
  <2>16. InInv'
    BY <1>1, <2>14, <2>15, InSame DEF SerialInv
  <2>17. ReadyInv'
    BY <1>1, ReadySame DEF SerialInv
  <2>18. QED
    BY <2>6, <2>9, <2>11, <2>13, <2>16, <2>17 DEF SerialInv, TasksInv
<1>4. QED
  BY <1>2, <1>3 DEF WriteCheck

\* sio_write clears "W" after it found the buffer full.
LEMMA WriteClearKept ==
  ASSUME SerialAssumption, SerialInv, NEW t \in Caller, WriteClear(t)
  PROVE SerialInv'
<1>1. /\ UNCHANGED <<wire, thr, out, put, txint, stuck, read, in, rx, lost, arrived>>
      /\ UNCHANGED <<linked, port_open, hidden>>
      /\ UNCHANGED <<files, bad>>
      /\ cpu = t /\ pc[t].op = "wclear"
      /\ state' = state \ {"W"} /\ fstate' = (IF linked THEN state \ {"W"} ELSE fstate)
      /\ 0 \in 0..MaxCount
  BY DEF WriteClear, RunsIn, port, files, SetState, SerialAssumption
<1>2. Goes(t, "idle", 0)
  BY <1>1 DEF WriteClear, Leave, Idle, Goes, Ops, Held
<1>3. /\ TasksInv' /\ pc'[t].op = "idle"
      /\ \A u \in Caller : u # t => pc'[u] = pc[u]
  BY <1>2, TasksGo DEF SerialInv
<1>4. OutInv' /\ InInv'
  BY <1>1, <1>3, OutSame, InSame DEF SerialInv
<1>5. ReadyInv'
  BY <1>1 DEF SerialInv, ReadyInv, ReadySeen
<1>6. QED
  BY <1>3, <1>4, <1>5 DEF SerialInv

\* A signal ends a sleep; a writer goes on to start what it has put into the buffer.
LEMMA EndSleepKept ==
  ASSUME SerialAssumption, SerialInv, NEW t \in Caller, EndSleep(t)
  PROVE SerialInv'
<1>1. /\ UNCHANGED <<wire, thr, out, put, txint, stuck, read, in, rx, lost, arrived>>
      /\ UNCHANGED <<linked, port_open, state, fstate, hidden>>
      /\ UNCHANGED <<files, bad>>
      /\ cpu = None /\ pc[t].op \in {"rsleep", "rwoken", "wsleep", "wwoken"}
      /\ 0 \in 0..MaxCount
  BY DEF EndSleep, port, files, SerialAssumption
<1>2. PICK op \in {"idle", "wend"} :
        Goes(t, op, 0) /\ (pc[t].op \in {"wsleep", "wwoken"} => op = "wend")
  <2>1. CASE pc[t].op \in {"rsleep", "rwoken"} /\ Leave(t)
    <3>1. Goes(t, "idle", 0)
      BY <1>1, <2>1 DEF Leave, Idle, Goes, Ops, Held
    <3>2. QED
      BY <2>1, <3>1
  <2>2. CASE pc[t].op \in {"wsleep", "wwoken"} /\ Go(t, "wend", 0)
    <3>1. Goes(t, "wend", 0)
      BY <1>1, <2>2 DEF Go, Goes, Ops, Held
    <3>2. QED
      BY <2>2, <3>1
  <2>3. QED
    BY <2>1, <2>2 DEF EndSleep
<1>3. /\ TasksInv' /\ pc'[t].op = op
      /\ \A u \in Caller : u # t => pc'[u] = pc[u]
  BY <1>2, TasksGo DEF SerialInv
<1>4. OutInv' /\ InInv' /\ ReadyInv'
  BY <1>1, <1>2, <1>3, OutSame, InSame, ReadySame DEF SerialInv
<1>5. QED
  BY <1>3, <1>4 DEF SerialInv

\* Tasks do not notice what changes nothing of theirs.
LEMMA TasksSame ==
  ASSUME SerialInv, UNCHANGED <<pc, cpu, files, bad>>
  PROVE TasksInv'
<1>1. UNCHANGED fd
  BY DEF files
<1>2. PcInv' /\ UsersInv'
  BY <1>1 DEF SerialInv, TasksInv, PcInv, UsersInv
<1>3. FilesInv'
  BY FilesSame DEF SerialInv, TasksInv
<1>4. QED
  BY <1>2, <1>3 DEF TasksInv

\* A byte leaves the port, and an interrupt is due.
LEMMA ShiftKept ==
  ASSUME SerialAssumption, SerialInv, Shift
  PROVE SerialInv'
<1>1. /\ thr # <<>> /\ wire' = Append(wire, thr[1]) /\ thr' = <<>> /\ txint' = TRUE
      /\ UNCHANGED <<pc, cpu, files, bad, out, put, stuck>>
      /\ UNCHANGED <<read, in, rx, lost, arrived, linked, port_open, state, fstate, hidden>>
  BY DEF Shift, files
<1>2. TasksInv'
  BY <1>1, TasksSame
<1>3. InInv' /\ ReadyInv'
  BY <1>1, InSame, ReadySame DEF SerialInv
<1>4. OutForm(Append(wire, thr[1]), <<>>, out, put)
  BY <1>1, OutShifted DEF SerialInv, OutInv
<1>5. OutForm(wire', thr', out', put')
  BY <1>1, <1>4
<1>6. OutMoves'
  BY <1>1 DEF OutMoves
<1>7. OutInv'
  BY <1>1, <1>5, <1>6 DEF SerialInv, OutInv
<1>8. QED
  BY <1>2, <1>3, <1>7 DEF SerialInv

\* A byte arrives.
LEMMA ArriveKept ==
  ASSUME SerialAssumption, SerialInv, Arrive
  PROVE SerialInv'
<1>1. /\ arrived' = arrived + 1 /\ rx' = <<arrived + 1>> /\ lost' = lost \cup Elems(rx)
      /\ UNCHANGED <<pc, cpu, files, bad, wire, thr, txint, out, put, stuck>>
      /\ UNCHANGED <<read, in, linked, port_open, state, fstate, hidden>>
  BY DEF Arrive, files, Elems
<1>2. TasksInv'
  BY <1>1, TasksSame
<1>3. OutInv' /\ ReadyInv'
  BY <1>1, OutSame, ReadySame DEF SerialInv
<1>4. InForm(read, in, <<arrived + 1>>, lost \cup Elems(rx), arrived + 1)
  BY InArrived DEF SerialInv, InInv
<1>5. InForm(read', in', rx', lost', arrived')
  BY <1>1, <1>4
<1>6. InInv'
  BY <1>1, <1>5 DEF SerialInv, InInv
<1>7. QED
  BY <1>2, <1>3, <1>6 DEF SerialInv

\* The transmitter is empty: the next byte goes, and writers are woken.
LEMMA IrqTxKept ==
  ASSUME SerialAssumption, SerialInv, IrqTx
  PROVE SerialInv'
<1>1. /\ txint /\ txint' = FALSE
      /\ IF out # <<>> THEN thr' = <<Head(out)>> /\ out' = Tail(out) ELSE UNCHANGED <<thr, out>>
      /\ state' = state \cup {"W"} /\ fstate' = (IF linked THEN state \cup {"W"} ELSE fstate)
      /\ pc' = Awake(pc, "wsleep", "wwoken")
      /\ UNCHANGED <<cpu, files, bad, wire, put, stuck>>
      /\ UNCHANGED <<read, in, rx, lost, arrived, linked, port_open, hidden>>
  BY DEF IrqTx, SetState, files
<1>2. /\ TasksInv'
      /\ \A u \in Caller : /\ pc'[u].left = pc[u].left
                           /\ pc'[u].op = IF pc[u].op = "wsleep" THEN "wwoken" ELSE pc[u].op
  BY <1>1, TasksAwake DEF SerialInv
<1>3. \A u \in Caller : pc'[u].op = "rcopy" => pc[u].op = "rcopy"
  BY <1>2
<1>4. \A u \in Caller : pc'[u].op = "rsleep" => pc[u].op = "rsleep"
  BY <1>2
<1>5. InInv'
  BY <1>1, <1>2, <1>3, <1>4 DEF SerialInv, InInv
<1>6. ReadyInv'
  BY <1>1 DEF SerialInv, ReadyInv, ReadySeen
<1>7. thr = <<>> /\ OutForm(wire, <<>>, out, put)
  BY <1>1 DEF SerialInv, OutInv
<1>8. /\ OutForm(wire', thr', out', put')
      /\ Len(out') <= Len(out) /\ Len(out') \in Nat /\ Len(out) \in Nat
      /\ out # <<>> => thr' # <<>>
      /\ out = <<>> => out' = <<>>
  <2>1. out \in Seq(Nat) /\ Len(out) \in Nat
    BY <1>7, ElemsOf DEF OutForm
  <2>2. CASE out # <<>>
    <3>1. thr' = <<Head(out)>> /\ out' = Tail(out)
      BY <1>1, <2>2
    <3>2. OutForm(wire, <<Head(out)>>, Tail(out), put)
      BY <1>7, <2>2, OutLoaded
    <3>3. Len(out) > 0
      BY <2>1, <2>2, NotEmpty
    <3>4. Len(out') = Len(out) - 1
      BY <2>1, <2>2, <3>1, HeadTailProperties
    <3>5. thr' # <<>>
      BY <3>1
    <3>6. Len(out') <= Len(out) /\ Len(out') \in Nat
      BY <2>1, <3>3, <3>4
    <3>7. OutForm(wire', thr', out', put')
      BY <1>1, <3>1, <3>2
    <3>8. QED
      BY <2>1, <2>2, <3>5, <3>6, <3>7
  <2>3. CASE out = <<>>
    <3>1. UNCHANGED <<thr, out>>
      BY <1>1, <2>3
    <3>2. QED
      BY <1>1, <1>7, <2>1, <2>3, <3>1
  <2>4. QED
    BY <2>2, <2>3
<1>9. OutMoves'
  BY <1>8 DEF OutMoves
<1>10. \A u \in Caller : pc'[u].op # "wsleep"
  BY <1>2
<1>11. Len(out') <= BUF_SIZE
  BY <1>8 DEF SerialInv, OutInv, SerialAssumption
<1>12. OutInv'
  BY <1>1, <1>8, <1>9, <1>10, <1>11 DEF OutInv
<1>13. QED
  BY <1>2, <1>5, <1>6, <1>12 DEF SerialInv

\* A byte is fetched: readers are woken, and poll() is told.
LEMMA IrqRxKept ==
  ASSUME SerialAssumption, SerialInv, IrqRx
  PROVE SerialInv'
<1>1. /\ rx # <<>> /\ rx' = <<>> /\ hidden' = FALSE
      /\ state' = state \cup {"R"} /\ fstate' = (IF linked THEN state \cup {"R"} ELSE fstate)
      /\ pc' = Awake(pc, "rsleep", "rwoken")
      /\ UNCHANGED <<cpu, files, bad, wire, thr, txint, out, put, stuck>>
      /\ UNCHANGED <<read, arrived, linked, port_open>>
  BY DEF IrqRx, SetState, files
<1>2. /\ TasksInv'
      /\ \A u \in Caller : /\ pc'[u].left = pc[u].left
                           /\ pc'[u].op = IF pc[u].op = "rsleep" THEN "rwoken" ELSE pc[u].op
  BY <1>1, TasksAwake DEF SerialInv
<1>3. /\ \A u \in Caller : pc'[u].op = "wsleep" => pc[u].op = "wsleep"
      /\ \A u \in Caller : pc[u].op \in {"wcopy", "wwoken", "wend"} => pc'[u].op \in {"wcopy", "wwoken", "wend"}
  BY <1>2
<1>4. OutInv'
  BY <1>1, <1>3, OutSame DEF SerialInv
<1>5. InForm(read, in, rx, lost, arrived)
  BY DEF SerialInv, InInv
<1>6. in \in Seq(Nat) /\ rx \in Seq(Nat) /\ Len(in) \in Nat /\ rx[1] \in Nat
  BY <1>1, <1>5, ElemsOf, SingleElems DEF InForm
<1>7. /\ InForm(read', in', rx', lost', arrived')
      /\ Len(in') <= BUF_SIZE /\ Len(in') \in Nat /\ Len(in) <= Len(in')
      /\ port_open = 0 => in' = in
  <2>1. CASE Len(in) < BUF_SIZE /\ port_open # 0
    <3>1. in' = Append(in, rx[1]) /\ lost' = lost
      BY <2>1 DEF IrqRx
    <3>2. InForm(read', in', rx', lost', arrived')
      BY <1>1, <1>5, <3>1, InFetched
    <3>3. Len(in') = Len(in) + 1
      BY <1>6, <3>1, AppendProperties
    <3>4. Len(in') <= BUF_SIZE /\ Len(in') \in Nat /\ Len(in) <= Len(in')
      BY <1>6, <2>1, <3>3 DEF SerialAssumption
    <3>5. QED
      BY <2>1, <3>2, <3>4
  <2>2. CASE ~(Len(in) < BUF_SIZE /\ port_open # 0)
    <3>1. in' = in /\ lost' = lost \cup {rx[1]}
      BY <2>2 DEF IrqRx
    <3>2. InForm(read', in', rx', lost', arrived')
      BY <1>1, <1>5, <3>1, InFetched
    <3>3. Len(in) <= BUF_SIZE
      BY DEF SerialInv, InInv
    <3>4. QED
      BY <1>6, <3>1, <3>2, <3>3
  <2>3. QED
    BY <2>1, <2>2
<1>8. \A u \in Caller : pc'[u].op # "rsleep"
  BY <1>2
<1>9. ASSUME NEW u \in Caller, pc'[u].op = "rcopy" PROVE pc'[u].left <= Len(in')
  <2>1. pc[u].op = "rcopy" /\ pc'[u].left = pc[u].left
    BY <1>2, <1>9
  <2>2. pc[u].left <= Len(in) /\ pc[u].left \in Int
    BY <2>1 DEF SerialInv, InInv, TasksInv, PcInv, PcType
  <2>3. QED
    BY <1>6, <1>7, <2>1, <2>2
<1>10. InInv'
  BY <1>7, <1>8, <1>9 DEF InInv
<1>11. ReadyInv'
  BY <1>1, <1>7 DEF SerialInv, ReadyInv, ReadySeen
<1>12. QED
  BY <1>2, <1>4, <1>10, <1>11 DEF SerialInv

\* The port starts unused.
LEMMA SerialStarts == ASSUME SerialAssumption, SerialInit PROVE SerialInv
<1> USE DEF SerialInit
<1>1. Idle \in [op : Ops, left : 0..MaxCount] /\ Idle.op = "idle"
  BY DEF Idle, At, Ops, SerialAssumption
<1>2. \A t \in Caller : pc[t].op = "idle"
  BY <1>1
<1>3. PcInv
  BY <1>1, <1>2 DEF PcInv, PcType
<1>4. UsersInv
  BY <1>2 DEF UsersInv, Held
<1>5. ~Opening
  BY <1>2 DEF Opening
<1>6. IsFiniteSet({}) /\ Cardinality({}) = 0
  BY FS_EmptySet
<1>7. FilesInv
  <2>1. fd = {} /\ fso = 0 /\ linked = FALSE /\ bad = FALSE /\ refcnt = 0 /\ port_open = 0
    OBVIOUS
  <2> HIDE DEF SerialInit
  <2>2. Cardinality(fd) = 0 /\ IsFiniteSet(fd)
    BY <1>6, <2>1
  <2>3. \A t \in Caller : pc[t].op # "close"
    BY <1>2
  <2>4. fso = Cardinality(fd) + (IF Opening THEN 1 ELSE 0)
    BY <1>5, <2>1, <2>2
  <2>5. fd \subseteq Caller /\ linked \in BOOLEAN /\ (linked => fso > 0)
    BY <2>1
  <2>6. /\ refcnt = IF linked THEN 1 ELSE 0
        /\ port_open = IF linked /\ ~Opening THEN 1 ELSE 0
    BY <2>1
  <2>7. fd = {} /\ ~bad
    BY <2>1
  <2>8. QED
    BY <1>5, <2>2, <2>3, <2>4, <2>5, <2>6, <2>7, Zenon DEF FilesInv
<1>8. <<>> \in Seq(Nat) /\ Len(<<>>) = 0 /\ Elems(<<>>) = {} /\ Ascending(<<>>) /\ 1..0 = {}
  BY SmallElems
<1>9. OutForm(wire, thr, out, put)
  BY <1>8 DEF OutForm
<1>10. InForm(read, in, rx, lost, arrived)
  BY <1>8 DEF InForm
<1>11. OutInv
  <2>1. out = <<>> /\ thr = <<>> /\ txint = FALSE
    OBVIOUS
  <2>2. Len(out) <= BUF_SIZE
    BY <1>8, <2>1 DEF SerialAssumption
  <2>3. \A t \in Caller : pc[t].op # "wsleep"
    BY <1>2
  <2> HIDE DEF SerialInit
  <2>4. QED
    BY <1>2, <1>9, <2>1, <2>2, <2>3 DEF OutInv, OutMoves
<1>12. InInv
  BY <1>2, <1>8, <1>10 DEF InInv, SerialAssumption
<1>13. ReadyInv
  BY DEF ReadyInv, ReadySeen
<1>14. QED
  BY <1>3, <1>4, <1>7, <1>11, <1>12, <1>13 DEF SerialInv, TasksInv

\* Every step keeps the invariant.
LEMMA SerialKept == ASSUME SerialAssumption, SerialInv, [SerialNext]_serialVars PROVE SerialInv'
<1>1. ASSUME NEW t \in Caller, Open(t) PROVE SerialInv'
  BY <1>1, OpenKept
<1>2. ASSUME NEW t \in Caller, OpenEnd(t) PROVE SerialInv'
  BY <1>2, OpenEndKept
<1>3. ASSUME NEW t \in Caller, Close(t) \/ CloseSched(t) \/ Ioctl(t) PROVE SerialInv'
  BY <1>3, CloseKept
<1>4. ASSUME NEW t \in Caller, CloseEnd(t) PROVE SerialInv'
  BY <1>4, CloseEndKept
<1>5. ASSUME NEW t \in Caller, (\E n \in 1..MaxCount, nd \in BOOLEAN : Read(t, n, nd)) \/ ReadAgain(t)
      PROVE SerialInv'
  BY <1>5, ReadKept
<1>6. ASSUME NEW t \in Caller, NEW n \in 1..MaxCount, NEW nd \in BOOLEAN, Write(t, n, nd) PROVE SerialInv'
  BY <1>6, WriteKept
<1>7. ASSUME NEW t \in Caller, ReadByte(t) PROVE SerialInv'
  BY <1>7, ReadByteKept
<1>8. ASSUME NEW t \in Caller, ReadEnd(t) \/ ReadClear(t) PROVE SerialInv'
  BY <1>8, ReadEndKept
<1>9. ASSUME NEW t \in Caller, WriteByte(t) PROVE SerialInv'
  BY <1>9, WriteByteKept
<1>10. ASSUME NEW t \in Caller, WriteEnd(t) PROVE SerialInv'
  BY <1>10, WriteEndKept
<1>11. ASSUME NEW t \in Caller, WriteCheck(t) PROVE SerialInv'
  BY <1>11, WriteCheckKept
<1>12. ASSUME NEW t \in Caller, WriteClear(t) PROVE SerialInv'
  BY <1>12, WriteClearKept
<1>13. ASSUME NEW t \in Caller, EndSleep(t) PROVE SerialInv'
  BY <1>13, EndSleepKept
<1>14. CASE Shift
  BY <1>14, ShiftKept
<1>15. CASE Arrive
  BY <1>15, ArriveKept
<1>16. CASE IrqTx
  BY <1>16, IrqTxKept
<1>17. CASE IrqRx
  BY <1>17, IrqRxKept
<1>18. CASE UNCHANGED serialVars
  <2>1. /\ UNCHANGED <<pc, cpu, files, bad, linked, port_open, state, fstate, hidden>>
        /\ UNCHANGED <<wire, thr, out, put, txint, stuck, read, in, rx, lost, arrived>>
    BY <1>18 DEF serialVars, files, port
  <2>2. TasksInv'
    BY <2>1, TasksSame
  <2>3. OutInv' /\ InInv' /\ ReadyInv'
    BY <2>1, OutSame, InSame, ReadySame DEF SerialInv
  <2>4. QED
    BY <2>2, <2>3 DEF SerialInv
<1>19. QED
  BY <1>1, <1>2, <1>3, <1>4, <1>5, <1>6, <1>7, <1>8, <1>9, <1>10, <1>11, <1>12, <1>13, <1>14,
     <1>15, <1>16, <1>17, <1>18, Zenon DEF SerialNext

\* From the invariant follows what is to be shown.
LEMMA SerialIsRight == ASSUME SerialAssumption, SerialInv PROVE SerialRight
<1>1. SerialTypes
  <2>1. \A t \in Caller : pc[t].op \in Ops /\ pc[t].left \in 0..MaxCount
    BY DEF SerialInv, TasksInv, PcInv, PcType
  <2>2. IsFiniteSet(fd) /\ Cardinality(fd) \in Nat
    BY FS_CardinalityType DEF SerialInv, TasksInv, FilesInv
  <2>3. fso \in Nat
    BY <2>2 DEF SerialInv, TasksInv, FilesInv
  <2>4. cpu \in Caller \cup {None} /\ fd \subseteq Caller /\ refcnt \in 0..1 /\ linked \in BOOLEAN /\ port_open \in 0..1
    BY DEF SerialInv, TasksInv, PcInv, FilesInv
  <2>5. Len(out) <= BUF_SIZE /\ Len(in) <= BUF_SIZE /\ Len(thr) <= 1 /\ Len(rx) <= 1 /\ txint \in BOOLEAN
    BY DEF SerialInv, OutInv, InInv, OutForm, InForm
  <2>6. state \subseteq {"R", "W"} /\ fstate \subseteq {"R", "W"}
    BY DEF SerialInv, ReadyInv
  <2>7. QED
    BY <2>1, <2>3, <2>4, <2>5, <2>6 DEF SerialTypes
<1>2. OutRight
  BY OutInOrder DEF SerialInv, OutInv, OutRight
<1>3. InRight
  BY InInOrder DEF SerialInv, InInv, InRight
<1>4. SleepersRight
  BY DEF SerialInv, OutInv, InInv, SleepersRight
<1>5. OutMoves /\ ReadySeen
  BY DEF SerialInv, OutInv, ReadyInv
<1>6. OpensRight
  <2>1. PICK S : S = {t \in Caller : pc[t].op = "open"}
    OBVIOUS
  <2>2. \A t \in S : t = cpu
    BY <2>1 DEF SerialInv, TasksInv, UsersInv, Held
  <2>3. Cardinality(S) = IF Opening THEN 1 ELSE 0
    <3>1. CASE Opening
      <4>1. S = {cpu}
        BY <2>1, <2>2, <3>1 DEF Opening
      <4>2. QED
        BY <3>1, <4>1, FS_Singleton
    <3>2. CASE ~Opening
      <4>1. S = {}
        BY <2>1, <3>2 DEF Opening
      <4>2. QED
        BY <3>2, <4>1, FS_EmptySet
    <3>3. QED
      BY <3>1, <3>2
  <2>4. fso = Cardinality(fd) + Cardinality(S) /\ (OpenWhileClosing \/ ~bad)
    BY <2>3 DEF SerialInv, TasksInv, FilesInv
  <2>5. QED
    BY <2>1, <2>4 DEF OpensRight
<1>7. QED
  BY <1>1, <1>2, <1>3, <1>4, <1>5, <1>6 DEF SerialRight

\* The serial port sends every byte it was given once and in order, hands over
\* what it received in order, loses no wake-up, keeps poll() informed and counts
\* its users: for every set of tasks, every size of the buffers and every
\* request, with interrupts at any moment, failed copies and signals, whether or
\* not the port is opened while its last close waits (sio_open, sio_close,
\* sio_read, sio_write, irq, cio_open, cio_close, fs_getfso, fs_putfso).
THEOREM SerialCorrect == ASSUME SerialAssumption PROVE SerialSpec => []SerialRight
<1>1. SerialInit => SerialInv
  BY SerialStarts
<1>2. SerialInv /\ [SerialNext]_serialVars => SerialInv'
  BY SerialKept
<1>3. SerialInv => SerialRight
  BY SerialIsRight
<1>4. QED
  BY <1>1, <1>2, <1>3, PTL DEF SerialSpec
=============================================================================
