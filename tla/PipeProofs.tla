----------------------------- MODULE PipeProofs -----------------------------
(***************************************************************************)
(* Proofs about the pipe, for every set of tasks, every size of the buffer *)
(* and every number of descriptors: its counts are right, nobody uses it   *)
(* after its end, and nobody sleeps past bytes or room.  It implements the *)
(* stream of bytes of module ByteStream.                                   *)
(***************************************************************************)
EXTENDS Pipe, FiniteSetTheorems, SequenceTheorems, TLAPS

-----------------------------------------------------------------------------
(* References.                                                             *)

RefsType == [fso : 0 .. 2, count : [End -> 0 .. 1], file : [End -> Nat], panics : 0 .. 1]
FdType == [Task -> [Fd -> End \cup {NoFile}]]

\* The counts that belong to a number of descriptors for each file.
Open(n) == IF n > 0 THEN 1 ELSE 0

Counts(n) == [fso |-> Open(n["rd"]) + Open(n["wr"]),
              count |-> [e \in End |-> Open(n[e])],
              file |-> n,
              panics |-> 0]

\* The descriptors of a file, in any table of descriptors, and their number.
UsesIn(f, e) == {x \in Task \X Fd : f[x[1]][x[2]] = e}
Used(f) == [e \in End |-> Cardinality(UsesIn(f, e))]

\* RefsRight as a predicate on the counts and the descriptors.
RefsFor(r, f) ==
    /\ r.panics = 0
    /\ r.fso = Cardinality({e \in End : r.file[e] > 0})
    /\ \A e \in End :
        /\ r.file[e] = Used(f)[e]
        /\ r.count[e] = (IF r.file[e] > 0 THEN 1 ELSE 0)

LEMMA RefsForState ==
    /\ RefsRight <=> RefsFor(refs, fd)
    /\ RefsRight' <=> RefsFor(refs', fd')
<1>1. \A e : Uses(e) = UsesIn(fd, e) /\ Uses(e)' = UsesIn(fd', e)
  BY DEF Uses, UsesIn
<1>2. \A e \in End : Used(fd)[e] = Cardinality(Uses(e)) /\ Used(fd')[e] = Cardinality(Uses(e)')
  BY <1>1 DEF Used
<1>3. RefsRight <=> RefsFor(refs, fd)
  BY <1>2 DEF RefsRight, RefsFor
<1>4. RefsRight' <=> RefsFor(refs', fd')
  BY <1>2 DEF RefsRight, RefsFor
<1> QED BY <1>3, <1>4

\* Descriptors are finitely many.
LEMMA UsesFinite ==
    ASSUME PipeAssumption
    PROVE  \A S \in SUBSET (Task \X Fd) : IsFiniteSet(S) /\ Cardinality(S) \in Nat
<1>1. IsFiniteSet(Task) /\ IsFiniteSet(Fd)
  BY FS_Interval DEF PipeAssumption, Fd
<1>2. IsFiniteSet(Task \X Fd)
  BY <1>1, FS_Product
<1> QED
  BY <1>2, FS_Subset, FS_CardinalityType

LEMMA UsesElements ==
    ASSUME NEW f, NEW e
    PROVE  /\ UsesIn(f, e) \in SUBSET (Task \X Fd)
           /\ \A u \in Task, k \in Fd : <<u, k>> \in UsesIn(f, e) <=> f[u][k] = e
  BY DEF UsesIn

\* Two sets of descriptors with the same elements.
LEMMA SameUses ==
    ASSUME NEW S \in SUBSET (Task \X Fd), NEW T \in SUBSET (Task \X Fd),
           \A u \in Task, k \in Fd : <<u, k>> \in S <=> <<u, k>> \in T
    PROVE  S = T
<1>1. ASSUME NEW x \in Task \X Fd
      PROVE  x \in S <=> x \in T
  <2>1. PICK u \in Task, k \in Fd : x = <<u, k>>
    OBVIOUS
  <2> QED BY <2>1
<1> QED BY <1>1

LEMMA SameUsesIn ==
    ASSUME NEW f, NEW g, NEW d, \A u \in Task, k \in Fd : g[u][k] = d <=> f[u][k] = d
    PROVE  UsesIn(g, d) = UsesIn(f, d)
<1> DEFINE S == UsesIn(g, d)
           T == UsesIn(f, d)
<1>1. /\ S \in SUBSET (Task \X Fd) /\ T \in SUBSET (Task \X Fd)
      /\ \A u \in Task, k \in Fd : <<u, k>> \in S <=> <<u, k>> \in T
  BY UsesElements
<1> HIDE DEF S, T
<1> QED BY <1>1, SameUses DEF S, T

LEMMA UsedType ==
    ASSUME PipeAssumption, NEW f
    PROVE  Used(f) \in [End -> Nat] /\ \A e \in End : IsFiniteSet(UsesIn(f, e))
  BY UsesElements, UsesFinite DEF Used

\* How many of the two files are open.
LEMMA OpenFiles ==
    ASSUME NEW n \in [End -> Nat]
    PROVE  Cardinality({e \in End : n[e] > 0}) = Open(n["rd"]) + Open(n["wr"])
<1> DEFINE S == {e \in End : n[e] > 0}
<1>1. Cardinality({}) = 0
  BY FS_EmptySet
<1>2. \A x : IsFiniteSet({x}) /\ Cardinality({x}) = 1
  BY FS_Singleton
<1>3. Cardinality({"rd"} \cup {"wr"}) = 2
  <2>1. "wr" \notin {"rd"}
    OBVIOUS
  <2>2. IsFiniteSet({"rd"}) /\ Cardinality({"rd"}) = 1
    BY <1>2
  <2>3. Cardinality({"rd"} \cup {"wr"}) = Cardinality({"rd"}) + 1
    BY <2>1, <2>2, FS_AddElement, Zenon
  <2> QED BY <2>2, <2>3
<1>4. n["rd"] \in Nat /\ n["wr"] \in Nat
  BY DEF End
<1>5. /\ n["rd"] > 0 /\ n["wr"] > 0 => S = {"rd"} \cup {"wr"}
      /\ n["rd"] > 0 /\ ~(n["wr"] > 0) => S = {"rd"}
      /\ ~(n["rd"] > 0) /\ n["wr"] > 0 => S = {"wr"}
      /\ ~(n["rd"] > 0) /\ ~(n["wr"] > 0) => S = {}
  BY DEF End
<1> HIDE DEF S
<1>6. Cardinality(S) = Open(n["rd"]) + Open(n["wr"])
  <2>1. /\ n["rd"] > 0 /\ n["wr"] > 0 => Cardinality(S) = 2
        /\ n["rd"] > 0 /\ ~(n["wr"] > 0) => Cardinality(S) = 1
        /\ ~(n["rd"] > 0) /\ n["wr"] > 0 => Cardinality(S) = 1
        /\ ~(n["rd"] > 0) /\ ~(n["wr"] > 0) => Cardinality(S) = 0
    BY <1>1, <1>2, <1>3, <1>5, Zenon
  <2> QED BY <2>1 DEF Open
<1> QED BY <1>6 DEF S

LEMMA CountsType ==
    ASSUME NEW n \in [End -> Nat]
    PROVE  Counts(n) \in RefsType
  BY DEF Counts, Open, RefsType, End

\* RefsRight is one equation.
LEMMA RefsAre ==
    ASSUME PipeAssumption, NEW r \in RefsType, NEW f
    PROVE  RefsFor(r, f) <=> r = Counts(Used(f))
<1> DEFINE n == Used(f)
<1>1. n \in [End -> Nat]
  BY UsedType
<1> HIDE DEF n
<1>2. ASSUME RefsFor(r, f)
      PROVE  r = Counts(n)
  <2>1. r.file = n
    BY <1>1, <1>2 DEF RefsFor, RefsType, n
  <2>2. r.fso = Open(n["rd"]) + Open(n["wr"])
    BY <1>1, <1>2, <2>1, OpenFiles DEF RefsFor
  <2>3. r.count = [e \in End |-> Open(n[e])]
    BY <1>2, <2>1 DEF RefsFor, RefsType, Open
  <2>4. r.panics = 0
    BY <1>2 DEF RefsFor, RefsType
  <2>5. r = [fso |-> r.fso, count |-> r.count, file |-> r.file, panics |-> r.panics]
    BY DEF RefsType
  <2> QED BY <2>1, <2>2, <2>3, <2>4, <2>5 DEF Counts
<1>3. ASSUME r = Counts(n)
      PROVE  RefsFor(r, f)
  <2>1. /\ r.file = n /\ r.fso = Open(n["rd"]) + Open(n["wr"])
        /\ r.count = [e \in End |-> Open(n[e])] /\ r.panics = 0
    BY <1>3 DEF Counts
  <2>2. r.fso = Cardinality({e \in End : r.file[e] > 0})
    BY <1>1, <2>1, OpenFiles
  <2>3. \A e \in End : r.file[e] = Used(f)[e]
    BY <2>1 DEF n
  <2>4. \A e \in End : r.count[e] = (IF r.file[e] > 0 THEN 1 ELSE 0)
    BY <2>1 DEF Open
  <2> QED BY <2>1, <2>2, <2>3, <2>4 DEF RefsFor
<1> QED BY <1>2, <1>3 DEF n

\* A file with one descriptor less, and with one more.
Less(n, e) == [n EXCEPT ![e] = @ - 1]
More(n, e) == [n EXCEPT ![e] = @ + 1]

\* What fs_putfile does to the counts with the last descriptor of a file.
LEMMA ClosedRecord ==
    ASSUME NEW q \in RefsType, NEW e \in End
    PROVE  [q EXCEPT !.file[e] = 0, !.count[e] = @ - 1]
             = [fso |-> q.fso, count |-> [q.count EXCEPT ![e] = @ - 1],
                file |-> [q.file EXCEPT ![e] = 0], panics |-> q.panics]
<1> DEFINE z == [q EXCEPT !.file[e] = 0]
<1>1. z = [fso |-> q.fso, count |-> q.count, file |-> [q.file EXCEPT ![e] = 0], panics |-> q.panics]
  BY DEF RefsType
<1>2. z \in RefsType
  BY <1>1 DEF RefsType
<1>3. [q EXCEPT !.file[e] = 0, !.count[e] = @ - 1] = [z EXCEPT !.count[e] = @ - 1]
  BY DEF RefsType
<1> HIDE DEF z
<1>4. [z EXCEPT !.count[e] = @ - 1]
        = [fso |-> z.fso, count |-> [z.count EXCEPT ![e] = @ - 1], file |-> z.file, panics |-> z.panics]
  BY <1>2 DEF RefsType
<1>5. z.fso = q.fso /\ z.count = q.count /\ z.file = [q.file EXCEPT ![e] = 0] /\ z.panics = q.panics
  BY <1>1
<1> QED BY <1>3, <1>4, <1>5, Zenon

\* fs_putfile of a file that a descriptor holds.
LEMMA PutCounts ==
    ASSUME NEW n \in [End -> Nat], NEW e \in End, n[e] > 0
    PROVE  PutFile(Counts(n), e) = Counts(Less(n, e))
<1> DEFINE r == Counts(n)
           m == Less(n, e)
<1>1. /\ r \in RefsType /\ r.file = n /\ r.fso = Open(n["rd"]) + Open(n["wr"])
      /\ r.count = [d \in End |-> Open(n[d])] /\ r.panics = 0
  BY CountsType DEF Counts
<1>2. m \in [End -> Nat] /\ m[e] = n[e] - 1 /\ \A d \in End \ {e} : m[d] = n[d]
  BY DEF Less
<1>4. CASE n[e] = 1
  <2>1. r.file[e] = 1 /\ r.fso > 0
    BY <1>1, <1>4 DEF End, Open
  <2> DEFINE r1 == [r EXCEPT !.file[e] = 0, !.count[e] = @ - 1]
  <2>2. PutFile(r, e) = PutFso(r1)
    BY <2>1 DEF PutFile
  <2>3. r1 = [fso |-> r.fso, count |-> [r.count EXCEPT ![e] = @ - 1],
              file |-> [r.file EXCEPT ![e] = 0], panics |-> r.panics]
    BY <1>1, ClosedRecord, Zenon
  <2> HIDE DEF r, r1
  <2>4. PutFso(r1) = [fso |-> r.fso - 1, count |-> r1.count, file |-> r1.file, panics |-> r1.panics]
    BY <2>1, <2>3 DEF PutFso
  <2>5. r1.file = m /\ r1.panics = 0
    BY <1>1, <1>4, <2>3 DEF Less
  <2>6. r1.count = [d \in End |-> Open(m[d])]
    <3>1. r1.count = [r.count EXCEPT ![e] = @ - 1]
      BY <2>3
    <3> HIDE DEF m
    <3> QED BY <1>1, <1>2, <1>4, <3>1 DEF Open
  <2>7. r.fso - 1 = Open(m["rd"]) + Open(m["wr"])
    <3> HIDE DEF m
    <3> QED BY <1>1, <1>2, <1>4 DEF Open, End
  <2>8. PutFile(r, e) = Counts(m)
    BY <2>2, <2>4, <2>5, <2>6, <2>7 DEF Counts
  <2> QED BY <2>8 DEF r
<1>5. CASE n[e] # 1
  <2>1. r.file[e] # 0 /\ r.file[e] # 1
    BY <1>1, <1>5
  <2>2. PutFile(r, e) = [r EXCEPT !.file[e] = @ - 1]
    BY <2>1 DEF PutFile
  <2>3. [r EXCEPT !.file[e] = @ - 1] = [fso |-> r.fso, count |-> r.count, file |-> m, panics |-> r.panics]
    BY <1>1 DEF RefsType, Less
  <2>4. r.fso = Open(m["rd"]) + Open(m["wr"]) /\ r.count = [d \in End |-> Open(m[d])]
    BY <1>1, <1>2, <1>5 DEF Open, End
  <2> QED BY <1>1, <2>2, <2>3, <2>4 DEF Counts
<1> QED BY <1>4, <1>5

\* Two tables of descriptors that differ in one place.
Differ(f, g, t, i) ==
    \A u \in Task, k \in Fd : u # t \/ k # i => g[u][k] = f[u][k]

\* One descriptor less, and one more.
LEMMA OneLess ==
    ASSUME PipeAssumption, NEW f, NEW g, NEW t \in Task, NEW i \in Fd, NEW e \in End,
           f[t][i] = e, g[t][i] = NoFile, Differ(f, g, t, i)
    PROVE  /\ Used(f)[e] > 0
           /\ Used(g) = Less(Used(f), e)
<1>1. NoFile \notin End
  BY DEF NoFile, End
<1>2. Used(f) \in [End -> Nat] /\ Used(g) \in [End -> Nat]
  BY UsedType
<1>3. UsesIn(g, e) = UsesIn(f, e) \ {<<t, i>>} /\ <<t, i>> \in UsesIn(f, e)
  BY <1>1, UsesElements, SameUses DEF Differ
<1>4. ASSUME NEW d \in End \ {e}
      PROVE  UsesIn(g, d) = UsesIn(f, d)
  <2>1. \A u \in Task, k \in Fd : g[u][k] = d <=> f[u][k] = d
    BY <1>1 DEF Differ
  <2> QED BY <2>1, SameUsesIn
<1>5. IsFiniteSet(UsesIn(f, e))
  BY UsedType
<1>6. Cardinality(UsesIn(g, e)) = Cardinality(UsesIn(f, e)) - 1
  BY <1>3, <1>5, FS_RemoveElement
<1>7. Cardinality(UsesIn(f, e)) # 0
  BY <1>3, <1>5, FS_EmptySet
<1>8. Used(g)[e] = Used(f)[e] - 1 /\ Used(f)[e] # 0
  BY <1>6, <1>7 DEF Used
<1>9. \A d \in End \ {e} : Used(g)[d] = Used(f)[d]
  BY <1>4 DEF Used
<1>10. /\ \A d \in End : [Used(f) EXCEPT ![e] = @ - 1][d] = Used(g)[d]
       /\ [Used(f) EXCEPT ![e] = @ - 1] \in [End -> Int]
  BY <1>2, <1>8, <1>9
<1>11. Used(g) = [Used(f) EXCEPT ![e] = @ - 1]
  BY <1>2, <1>10
<1> QED BY <1>2, <1>8, <1>11 DEF Less

LEMMA OneMore ==
    ASSUME PipeAssumption, NEW f, NEW g, NEW t \in Task, NEW i \in Fd, NEW e \in End,
           f[t][i] = NoFile, g[t][i] = e, Differ(f, g, t, i)
    PROVE  Used(g) = More(Used(f), e)
<1>1. Differ(g, f, t, i)
  BY DEF Differ
<1>2. Used(g)[e] > 0 /\ Used(f) = Less(Used(g), e)
  BY <1>1, OneLess
<1>3. Used(f) \in [End -> Nat] /\ Used(g) \in [End -> Nat]
  BY UsedType
<1>4. /\ \A d \in End : [Used(f) EXCEPT ![e] = @ + 1][d] = Used(g)[d]
      /\ [Used(f) EXCEPT ![e] = @ + 1] \in [End -> Int]
  BY <1>2, <1>3 DEF Less
<1> QED BY <1>3, <1>4 DEF More

\* A descriptor is given up, and the reference with it.
LEMMA Dropped ==
    ASSUME PipeAssumption, refs \in RefsType, fd \in FdType, RefsRight,
           NEW t \in Task, NEW i \in Fd, fd[t][i] # NoFile,
           refs' = PutFile(refs, fd[t][i]), fd' = [fd EXCEPT ![t][i] = NoFile]
    PROVE  refs' \in RefsType /\ fd' \in FdType /\ RefsRight'
<1>1. PICK e \in End : fd[t][i] = e
  BY DEF FdType
<1>2. Used(fd) \in [End -> Nat] /\ refs = Counts(Used(fd))
  BY UsedType, RefsForState, RefsAre
<1>3. fd' \in FdType /\ Used(fd)[e] > 0 /\ Used(fd') = Less(Used(fd), e)
  <2>1. fd' \in FdType /\ fd'[t][i] = NoFile /\ Differ(fd, fd', t, i)
    BY DEF FdType, Differ
  <2> QED BY <1>1, <2>1, OneLess
<1>4. refs' = Counts(Used(fd'))
  BY <1>1, <1>2, <1>3, PutCounts
<1>5. refs' \in RefsType
  BY <1>4, UsedType, CountsType
<1> QED BY <1>3, <1>4, <1>5, RefsAre, RefsForState

\* F_DUPFD: a second descriptor of an open file.
LEMMA Duplicated ==
    ASSUME PipeAssumption, refs \in RefsType, fd \in FdType, RefsRight,
           NEW t \in Task, NEW i \in Fd, NEW j \in Fd, fd[t][i] # NoFile, fd[t][j] = NoFile,
           refs' = [refs EXCEPT !.file[fd[t][i]] = @ + 1], fd' = [fd EXCEPT ![t][j] = fd[t][i]]
    PROVE  refs' \in RefsType /\ fd' \in FdType /\ RefsRight'
<1>1. PICK e \in End : fd[t][i] = e
  BY DEF FdType
<1>2. Used(fd) \in [End -> Nat] /\ refs = Counts(Used(fd))
  BY UsedType, RefsForState, RefsAre
<1>3. fd' \in FdType /\ Used(fd') = More(Used(fd), e)
  <2>1. fd' \in FdType /\ fd'[t][j] = e /\ Differ(fd, fd', t, j)
    BY <1>1 DEF FdType, Differ
  <2> QED BY <2>1, OneMore
<1>4. Used(fd)[e] > 0
  <2>1. <<t, i>> \in UsesIn(fd, e)
    BY <1>1, UsesElements
  <2>2. IsFiniteSet(UsesIn(fd, e)) /\ Used(fd)[e] = Cardinality(UsesIn(fd, e))
    BY UsedType DEF Used
  <2> QED BY <1>2, <2>1, <2>2, FS_EmptySet
<1>5. refs' = Counts(Used(fd'))
  <2> DEFINE m == More(Used(fd), e)
  <2>1. m \in [End -> Nat] /\ m[e] = Used(fd)[e] + 1 /\ \A d \in End \ {e} : m[d] = Used(fd)[d]
    BY <1>2 DEF More
  <2>2. refs' = [fso |-> refs.fso, count |-> refs.count, file |-> m, panics |-> refs.panics]
    <3>1. refs.file = Used(fd)
      BY <1>2 DEF Counts
    <3> QED BY <1>1, <3>1 DEF RefsType, More
  <2>3. refs.fso = Open(m["rd"]) + Open(m["wr"])
    <3>1. refs.fso = Open(Used(fd)["rd"]) + Open(Used(fd)["wr"])
      BY <1>2 DEF Counts
    <3> HIDE DEF m
    <3> QED BY <1>2, <1>4, <2>1, <3>1 DEF Open, End
  <2>4. refs.count = [d \in End |-> Open(m[d])]
    <3>1. refs.count = [d \in End |-> Open(Used(fd)[d])]
      BY <1>2 DEF Counts
    <3> HIDE DEF m
    <3> QED BY <1>2, <1>4, <2>1, <3>1 DEF Open
  <2>5. refs.panics = 0
    BY <1>2 DEF Counts
  <2> QED BY <1>3, <2>2, <2>3, <2>4, <2>5 DEF Counts
<1>6. refs' \in RefsType
  BY <1>5, UsedType, CountsType
<1> QED BY <1>3, <1>5, <1>6, RefsAre, RefsForState

\* The descriptors of a file that a task has.
Held(f, t, e) == {i \in Fd : f[t][i] = e}

LEMMA HeldFinite ==
    ASSUME PipeAssumption, NEW f, NEW t, NEW e
    PROVE  IsFiniteSet(Held(f, t, e)) /\ Cardinality(Held(f, t, e)) \in Nat
<1>1. IsFiniteSet(Fd)
  BY FS_Interval DEF PipeAssumption, Fd
<1>2. Held(f, t, e) \in SUBSET Fd
  BY DEF Held
<1> QED BY <1>1, <1>2, FS_Subset, FS_CardinalityType

\* A task that had none gets the descriptors of another.
Given(f, g, t, u) ==
    /\ \A i \in Fd : f[u][i] = NoFile /\ g[u][i] = f[t][i]
    /\ \A v \in Task \ {u}, i \in Fd : g[v][i] = f[v][i]

LEMMA HeldAlso ==
    ASSUME PipeAssumption, NEW f, NEW g, NEW t \in Task, NEW u \in Task, NEW e \in End,
           Given(f, g, t, u)
    PROVE  /\ Used(g)[e] = Used(f)[e] + Cardinality(Held(f, t, e))
           /\ Used(f)[e] = 0 => Cardinality(Held(f, t, e)) = 0
<1> DEFINE H == Held(f, t, e)
           P == {u} \X H
           U == UsesIn(f, e)
           V == UsesIn(g, e)
<1>1. NoFile # e
  BY DEF NoFile, End
<1>2. IsFiniteSet(H) /\ Cardinality(H) \in Nat /\ IsFiniteSet(U) /\ Cardinality(U) \in Nat
  BY HeldFinite, UsedType, FS_CardinalityType
<1>3. IsFiniteSet(P) /\ Cardinality(P) = Cardinality(H)
  <2>1. IsFiniteSet({u}) /\ Cardinality({u}) = 1
    BY FS_Singleton
  <2> HIDE DEF H
  <2>2. IsFiniteSet(P) /\ Cardinality(P) = Cardinality({u}) * Cardinality(H)
    BY <1>2, <2>1, FS_Product
  <2> QED BY <1>2, <2>1, <2>2
<1>4. V = U \cup P /\ U \cap P = {}
  <2>1. /\ V \in SUBSET (Task \X Fd) /\ U \in SUBSET (Task \X Fd)
        /\ \A v \in Task, k \in Fd : <<v, k>> \in V <=> g[v][k] = e
        /\ \A v \in Task, k \in Fd : <<v, k>> \in U <=> f[v][k] = e
    BY UsesElements
  <2>2. /\ H \in SUBSET Fd
        /\ \A k \in Fd : k \in H <=> f[t][k] = e
    BY DEF Held
  <2> HIDE DEF U, V, H
  <2>3. /\ P \in SUBSET (Task \X Fd)
        /\ \A v \in Task, k \in Fd : <<v, k>> \in P <=> v = u /\ f[t][k] = e
    BY <2>2
  <2> HIDE DEF P
  <2>8. \A v \in Task, k \in Fd : g[v][k] = e <=> f[v][k] = e \/ (v = u /\ f[t][k] = e)
    BY <1>1 DEF Given
  <2>4. ASSUME NEW v \in Task, NEW k \in Fd
        PROVE  <<v, k>> \in V <=> <<v, k>> \in U \cup P
    <3> DEFINE x == <<v, k>>
    <3>1. (x \in V <=> g[v][k] = e) /\ (x \in U <=> f[v][k] = e)
      BY <2>1, Zenon
    <3>2. x \in P <=> v = u /\ f[t][k] = e
      BY <2>3, Zenon
    <3>3. g[v][k] = e <=> f[v][k] = e \/ (v = u /\ f[t][k] = e)
      BY <2>8, Zenon
    <3> HIDE DEF x
    <3>4. x \in V <=> x \in U \cup P
      BY <3>1, <3>2, <3>3
    <3> QED BY <3>4 DEF x
  <2>5. \A v \in Task, k \in Fd : ~(<<v, k>> \in U \cap P)
    BY <1>1, <2>1, <2>3 DEF Given
  <2>6. V = U \cup P
    BY <2>1, <2>3, <2>4, SameUses
  <2>7. U \cap P = {}
    BY <2>1, <2>5
  <2> QED BY <2>6, <2>7
<1>5. Cardinality(V) = Cardinality(U) + Cardinality(H)
  <2> HIDE DEF U, V, H, P
  <2>1. Cardinality(V) = Cardinality(U) + Cardinality(P) - Cardinality(U \cap P)
    BY <1>2, <1>3, <1>4, FS_Union
  <2>2. Cardinality(U \cap P) = 0
    BY <1>4, FS_EmptySet
  <2> QED BY <1>2, <1>3, <2>1, <2>2
<1>6. ASSUME Cardinality(U) = 0
      PROVE  Cardinality(H) = 0
  <2>1. U = {}
    BY <1>2, <1>6, FS_EmptySet
  <2>2. H = {}
    <3>1. \A k \in Fd : <<t, k>> \in U <=> f[t][k] = e
      BY UsesElements
    <3> QED BY <2>1, <3>1 DEF Held
  <2> QED BY <2>2, FS_EmptySet
<1>7. Used(g)[e] = Cardinality(V) /\ Used(f)[e] = Cardinality(U)
  BY DEF Used
<1> QED BY <1>5, <1>6, <1>7

\* fs_newtask: the child's descriptors, which were none, are those of the parent.
LEMMA Shared ==
    ASSUME PipeAssumption, refs \in RefsType, fd \in FdType, RefsRight,
           NEW t \in Task, NEW u \in Task, \A i \in Fd : fd[u][i] = NoFile,
           fd' = [fd EXCEPT ![u] = fd[t]],
           refs' = [refs EXCEPT !.file = [e \in End |-> @[e] + Cardinality({i \in Fd : fd[t][i] = e})]]
    PROVE  refs' \in RefsType /\ fd' \in FdType /\ RefsRight'
<1> DEFINE n == Used(fd)
           m == Used(fd')
<1>1. n \in [End -> Nat] /\ m \in [End -> Nat] /\ refs = Counts(n) /\ refs.file = n
  BY UsedType, RefsForState, RefsAre DEF Counts
<1>2. fd' \in FdType
  BY DEF FdType
<1>3. \A e \in End : m[e] = n[e] + Cardinality(Held(fd, t, e)) /\ (n[e] = 0 => Cardinality(Held(fd, t, e)) = 0)
  <2>1. Given(fd, fd', t, u)
    BY DEF FdType, Given
  <2> QED BY <2>1, HeldAlso
<1>4. m = [e \in End |-> n[e] + Cardinality(Held(fd, t, e))]
  BY <1>1, <1>3
<1>5. \A e \in End : Cardinality(Held(fd, t, e)) \in Nat
  BY HeldFinite
<1>6. refs' = [fso |-> refs.fso, count |-> refs.count, file |-> m, panics |-> refs.panics]
  <2>1. refs' = [refs EXCEPT !.file = m]
    BY <1>1, <1>4 DEF Held
  <2> HIDE DEF m
  <2> QED BY <2>1 DEF RefsType
<1> HIDE DEF m, n
<1>7. \A e \in End : Open(m[e]) = Open(n[e])
  BY <1>1, <1>3, <1>5 DEF Open
<1>8. refs' = Counts(m)
  <2>1. /\ refs.fso = Open(n["rd"]) + Open(n["wr"]) /\ refs.panics = 0
        /\ refs.count = [d \in End |-> Open(n[d])]
    BY <1>1 DEF Counts
  <2>2. refs.fso = Open(m["rd"]) + Open(m["wr"]) /\ refs.count = [d \in End |-> Open(m[d])]
    BY <1>7, <2>1 DEF End
  <2> QED BY <1>6, <2>1, <2>2 DEF Counts
<1>9. refs' \in RefsType
  BY <1>1, <1>8, CountsType
<1> QED BY <1>2, <1>8, <1>9, RefsAre, RefsForState DEF m

\* The counts as a record of their fields.
Rec(a, c, f) == [fso |-> a, count |-> c, file |-> f, panics |-> 0]

LEMMA RecFields ==
    ASSUME NEW a, NEW c, NEW f
    PROVE  /\ Rec(a, c, f).fso = a /\ Rec(a, c, f).count = c
           /\ Rec(a, c, f).file = f /\ Rec(a, c, f).panics = 0
  BY DEF Rec

LEMMA RecPutFso ==
    ASSUME NEW a \in Nat \ {0}, NEW c, NEW f
    PROVE  PutFso(Rec(a, c, f)) = Rec(a - 1, c, f)
<1>1. PutFso(Rec(a, c, f)) = [Rec(a, c, f) EXCEPT !.fso = @ - 1]
  BY RecFields DEF PutFso
<1>2. [Rec(a, c, f) EXCEPT !.fso = @ - 1] = Rec(a - 1, c, f)
  BY DEF Rec
<1> QED BY <1>1, <1>2, Zenon

Opened(f, e) == [f EXCEPT ![e] = 1]

LEMMA RecGetFile ==
    ASSUME NEW a, NEW c \in [End -> Nat], NEW f \in [End -> Nat], NEW e \in End
    PROVE  GetFile(Rec(a, c, f), e) = Rec(a, More(c, e), Opened(f, e))
<1> DEFINE r == Rec(a, c, f)
           z == Rec(a, c, Opened(f, e))
<1>1. GetFile(r, e) = [[r EXCEPT !.file[e] = 1] EXCEPT !.count[e] = @ + 1]
  BY DEF GetFile, Rec
<1>2. [r EXCEPT !.file[e] = 1] = z
  BY DEF Rec, Opened
<1>3. [z EXCEPT !.count[e] = @ + 1] = Rec(a, More(c, e), Opened(f, e))
  BY DEF Rec, More
<1> QED BY <1>1, <1>2, <1>3, Zenon

\* The same number for both files.
All(k) == [e \in End |-> k]

LEMMA AllType ==
    ASSUME NEW k \in Nat
    PROVE  All(k) \in [End -> Nat] /\ \A e \in End : All(k)[e] = k
  BY DEF All

\* Nobody has a descriptor of a freed pipe.
LEMMA NoneUsed ==
    ASSUME PipeAssumption, refs \in RefsType, RefsRight, refs.fso = 0
    PROVE  Used(fd) = All(0)
<1>1. Used(fd) \in [End -> Nat] /\ refs = Counts(Used(fd))
  BY UsedType, RefsForState, RefsAre
<1>2. Open(Used(fd)["rd"]) + Open(Used(fd)["wr"]) = 0
  BY <1>1 DEF Counts
<1>3. Used(fd)["rd"] = 0 /\ Used(fd)["wr"] = 0
  BY <1>1, <1>2 DEF Open, End
<1>4. \A e \in End : Used(fd)[e] = 0
  BY <1>3 DEF End
<1> QED BY <1>1, <1>4, AllType

LEMMA BothMore ==
    /\ More(More(All(0), "rd"), "wr") = All(1)
    /\ Opened(Opened(All(0), "rd"), "wr") = All(1)
<1> DEFINE m == More(All(0), "rd")
           o == Opened(All(0), "rd")
<1>1. /\ m \in [End -> Nat] /\ m["rd"] = 1 /\ m["wr"] = 0
      /\ o \in [End -> Nat] /\ o["rd"] = 1 /\ o["wr"] = 0
  BY DEF All, End, More, Opened
<1> HIDE DEF m, o
<1>2. /\ More(m, "wr") \in [End -> Nat] /\ More(m, "wr")["rd"] = 1 /\ More(m, "wr")["wr"] = 1
      /\ Opened(o, "wr") \in [End -> Nat] /\ Opened(o, "wr")["rd"] = 1 /\ Opened(o, "wr")["wr"] = 1
  BY <1>1 DEF End, More, Opened
<1>3. \A e \in End : More(m, "wr")[e] = All(1)[e] /\ Opened(o, "wr")[e] = All(1)[e]
  BY <1>2 DEF End, All
<1>4. More(m, "wr") = All(1) /\ Opened(o, "wr") = All(1)
  BY <1>2, <1>3, AllType
<1> QED BY <1>4 DEF m, o

\* The object that pipe() begins with, and the files it ends with.
LEMMA NewObject ==
    /\ NoRefs = Rec(0, All(0), All(0))
    /\ NewFso = Rec(2, All(0), All(0))
<1>1. NoRefs = Rec(0, All(0), All(0))
  BY DEF NoRefs, Rec, All
<1>2. [Rec(0, All(0), All(0)) EXCEPT !.fso = 2] = Rec(2, All(0), All(0))
  BY DEF Rec
<1>3. NewFso = [NoRefs EXCEPT !.fso = 2]
  BY DEF NewFso
<1> QED BY <1>1, <1>2, <1>3, Zenon

LEMMA NewCounts ==
    NoRefs = Counts(All(0)) /\ NewFiles = Counts(All(1))
<1>1. NoRefs = Counts(All(0))
  <2>1. /\ Open(All(0)["rd"]) + Open(All(0)["wr"]) = 0
        /\ [e \in End |-> Open(All(0)[e])] = All(0)
    BY DEF All, Open, End
  <2> QED BY <2>1, NewObject DEF Counts, Rec
<1>2. NewFiles = Rec(2, All(1), All(1))
  <2> DEFINE c == More(All(0), "rd")
             f == Opened(All(0), "rd")
  <2>1. c \in [End -> Nat] /\ f \in [End -> Nat] /\ "rd" \in End /\ "wr" \in End
    BY AllType DEF End, More, Opened
  <2>2. GetFile(NewFso, "rd") = Rec(2, c, f)
    BY <2>1, NewObject, AllType, RecGetFile
  <2>3. More(c, "wr") = All(1) /\ Opened(f, "wr") = All(1)
    BY BothMore
  <2> HIDE DEF c, f
  <2>4. GetFile(Rec(2, c, f), "wr")
          = Rec(2, More(c, "wr"), Opened(f, "wr"))
    BY <2>1, RecGetFile
  <2> QED BY <2>2, <2>3, <2>4, Zenon DEF NewFiles
<1>3. Counts(All(1)) = Rec(2, All(1), All(1))
  <2>1. /\ Open(All(1)["rd"]) + Open(All(1)["wr"]) = 2
        /\ [e \in End |-> Open(All(1)[e])] = All(1)
    BY DEF All, Open, End
  <2> QED BY <2>1 DEF Counts, Rec
<1> QED BY <1>1, <1>2, <1>3

\* A task gets one descriptor for each of two files.
GivenBoth(f, g, t, i, j) ==
    \A u \in Task, k \in Fd : g[u][k] = IF u = t /\ k = j THEN "wr"
                                        ELSE IF u = t /\ k = i THEN "rd" ELSE f[u][k]

LEMMA BothOpened ==
    ASSUME PipeAssumption, NEW f \in FdType, NEW g, NEW t \in Task, NEW i \in Fd, NEW j \in Fd,
           i # j, f[t][i] = NoFile, f[t][j] = NoFile, Used(f) = All(0), GivenBoth(f, g, t, i, j)
    PROVE  Used(g) = All(1)
<1> DEFINE h == [f EXCEPT ![t][i] = "rd"]
<1>1. /\ h \in FdType
      /\ \A u \in Task, k \in Fd : h[u][k] = IF u = t /\ k = i THEN "rd" ELSE f[u][k]
  BY DEF FdType, End
<1> HIDE DEF h
<1>2. h[t][i] = "rd" /\ h[t][j] = NoFile /\ g[t][j] = "wr"
  BY <1>1 DEF GivenBoth
<1>3. Differ(f, h, t, i) /\ Differ(h, g, t, j)
  BY <1>1 DEF Differ, GivenBoth
<1>4. Used(h) = More(Used(f), "rd") /\ Used(g) = More(Used(h), "wr")
  BY <1>2, <1>3, OneMore DEF End
<1> QED BY <1>4, BothMore, Zenon

\* pipe() that succeeds: one descriptor for each file.
LEMMA Made ==
    ASSUME PipeAssumption, refs \in RefsType, fd \in FdType, RefsRight, refs.fso = 0,
           NEW t \in Task, NEW i \in Fd, NEW j \in Fd, i # j, fd[t][i] = NoFile, fd[t][j] = NoFile,
           refs' = NewFiles, fd' = [fd EXCEPT ![t][i] = "rd", ![t][j] = "wr"]
    PROVE  refs' \in RefsType /\ fd' \in FdType /\ RefsRight'
<1>1. fd' \in FdType /\ GivenBoth(fd, fd', t, i, j)
  BY DEF FdType, End, GivenBoth
<1>2. Used(fd') = All(1)
  BY <1>1, NoneUsed, BothOpened
<1>3. refs' = Counts(Used(fd'))
  BY <1>2, NewCounts
<1>4. refs' \in RefsType
  BY <1>3, UsedType, CountsType
<1> QED BY <1>1, <1>3, <1>4, RefsAre, RefsForState

\* pipe() that fails leaves nothing behind, whichever step it fails at.
LEMMA Unmade ==
    ASSUME PipeAssumption, NEW f \in {"fso", "file0", "file1", "fd", "tucpy"}
    PROVE  PipeFailed(f) = NoRefs
<1> DEFINE z == All(0)
           o == All(1)
<1>0. NewFso = Rec(2, z, z) /\ NoRefs = Rec(0, z, z)
  BY NewObject
<1>5. PutFso(PutFso(Rec(2, z, z))) = Rec(0, z, z)
  <2>1. PutFso(Rec(2, z, z)) = Rec(2 - 1, z, z) /\ 2 - 1 = 1
    BY RecPutFso
  <2>2. PutFso(Rec(1, z, z)) = Rec(1 - 1, z, z) /\ 1 - 1 = 0
    BY RecPutFso
  <2> QED BY <2>1, <2>2, Zenon
<1>1. CASE f = "fso"
  BY <1>1 DEF PipeFailed
<1>2. CASE f = "file0"
  <2>1. PipeFailed(f) = PutFso(PutFso(NewFso))
    BY <1>2 DEF PipeFailed
  <2> QED BY <1>0, <1>5, <2>1, Zenon
<1>3. CASE f = "file1"
  <2> DEFINE c == More(z, "rd")
             d == Opened(z, "rd")
             r == Rec(2, c, d)
  <2>1. c \in [End -> 0 .. 1] /\ d \in [End -> Nat] /\ "rd" \in End /\ d["rd"] = 1
    BY DEF All, End, More, Opened
  <2>2. GetFile(NewFso, "rd") = r
    BY <1>0, <2>1, AllType, RecGetFile
  <2>3. [c EXCEPT !["rd"] = @ - 1] = z /\ [d EXCEPT !["rd"] = 0] = z
    BY DEF All, End, More, Opened
  <2> HIDE DEF c, d, z
  <2>4. r \in RefsType
    BY <2>1 DEF RefsType, Rec
  <2>5. r.fso = 2 /\ r.count = c /\ r.file = d /\ r.panics = 0
    BY RecFields
  <2> HIDE DEF r
  <2>6. [r EXCEPT !.file["rd"] = 0, !.count["rd"] = @ - 1]
          = [fso |-> r.fso, count |-> [r.count EXCEPT !["rd"] = @ - 1],
             file |-> [r.file EXCEPT !["rd"] = 0], panics |-> r.panics]
    BY <2>1, <2>4, ClosedRecord
  <2>7. [r EXCEPT !.file["rd"] = 0, !.count["rd"] = @ - 1] = Rec(2, z, z)
    BY <2>3, <2>5, <2>6, Zenon DEF Rec
  <2>8. PutFile(r, "rd") = PutFso([r EXCEPT !.file["rd"] = 0, !.count["rd"] = @ - 1])
    BY <2>1, <2>5 DEF PutFile
  <2>9. PipeFailed(f) = PutFso(PutFile(GetFile(NewFso, "rd"), "rd"))
    BY <1>3 DEF PipeFailed
  <2> QED BY <1>0, <1>5, <2>2, <2>7, <2>8, <2>9, Zenon
<1>4. CASE f \in {"fd", "tucpy"}
  <2>1. NewFiles = Counts(o) /\ NoRefs = Counts(z)
    BY NewCounts
  <2>2. /\ o \in [End -> Nat] /\ "rd" \in End /\ "wr" \in End /\ o["rd"] > 0
        /\ Less(o, "rd") \in [End -> Nat] /\ Less(o, "rd")["wr"] > 0
        /\ Less(Less(o, "rd"), "wr") = z
    BY DEF Less, End, All
  <2> HIDE DEF z, o
  <2>3. PutFile(NewFiles, "rd") = Counts(Less(o, "rd"))
    BY <2>1, <2>2, PutCounts
  <2>4. PutFile(Counts(Less(o, "rd")), "wr") = Counts(Less(Less(o, "rd"), "wr"))
    BY <2>2, PutCounts
  <2>5. PipeFailed(f) = PutFile(PutFile(NewFiles, "rd"), "wr")
    BY <1>4 DEF PipeFailed
  <2> QED BY <2>1, <2>2, <2>3, <2>4, <2>5, Zenon
<1> QED BY <1>1, <1>2, <1>3, <1>4

LEMMA NotMade ==
    ASSUME PipeAssumption, refs \in RefsType, fd \in FdType, RefsRight, refs.fso = 0,
           refs' = NoRefs, fd' = fd
    PROVE  refs' \in RefsType /\ fd' \in FdType /\ RefsRight'
<1>1. Used(fd') = All(0)
  BY NoneUsed
<1>2. refs' = Counts(Used(fd'))
  BY <1>1, NewCounts
<1>3. refs' \in RefsType
  BY <1>2, UsedType, CountsType
<1> QED BY <1>2, <1>3, RefsAre, RefsForState

-----------------------------------------------------------------------------
(* The inductive invariant.                                                *)

InRead == {"read", "rsusp", "rsleep"}
InWrite == {"write", "wsusp", "wsleep"}

\* A task in a call has a descriptor for it, and only a writer has bytes to write.
Holders ==
    \A t \in Task :
        /\ at[t] \in InRead => \E i \in Fd : fd[t][i] = "rd"
        /\ at[t] \in InWrite => \E i \in Fd : fd[t][i] = "wr"
        /\ at[t] = "none" => \A i \in Fd : fd[t][i] = NoFile
        /\ at[t] \notin InWrite => todo[t] = <<>>

\* Who is about to sleep, or exits, has the processor, and saw what he sleeps for.
Processor ==
    /\ \A t \in Task :
        /\ at[t] \in {"rsusp", "wsusp", "exit"} => busy = t
        /\ at[t] = "rsusp" => size = 0
        /\ at[t] = "wsusp" => size = PIPE_BUF /\ ~unsaid
    /\ busy # NoTask => at[busy] \in {"read", "rsusp", "write", "wsusp", "exit"}

\* fso->state speaks of the buffer, and nobody sleeps for what it says is there.
Told ==
    /\ unsaid => size = PIPE_BUF
    /\ ~Writing /\ ~unsaid => state = StateOf(size)
    /\ readers # <<>> => "R_OK" \notin state
    /\ writers # <<>> => "W_OK" \notin state

WaitTypes ==
    /\ size \in 0 .. PIPE_BUF
    /\ state \subseteq {"R_OK", "W_OK"}
    /\ readers \in Seq(Task) /\ writers \in Seq(Task)
    /\ at \in [Task -> Place] /\ busy \in Task \cup {NoTask}
    /\ todo \in [Task -> Seq(Byte)]
    /\ unsaid \in BOOLEAN

FlagTypes ==
    /\ ndelay \in [End -> BOOLEAN]
    /\ want \in [Task -> 0 .. MaxCount]
    /\ nodelay \in [Task -> BOOLEAN]
    /\ pending \in [Task -> BOOLEAN] /\ unseen \in [Task -> BOOLEAN]

DataTypes ==
    /\ buf \in [Index -> Byte] /\ read_p \in Index /\ write_p \in Index
    /\ taken \in Seq(Byte)

RefsInv == refs \in RefsType /\ fd \in FdType /\ RefsRight
WaitInv == WaitTypes /\ QueuesRight /\ Holders /\ Processor /\ Told

PipeInv == RefsInv /\ WaitInv /\ FlagTypes /\ DataTypes

LEMMA TypeParts == TypeOK <=> WaitTypes /\ FlagTypes /\ DataTypes /\ refs \in RefsType /\ fd \in FdType
  BY Zenon DEF TypeOK, WaitTypes, FlagTypes, DataTypes, RefsType, FdType

-----------------------------------------------------------------------------
(* References are kept by every step.                                      *)

LEMMA RefsSame ==
    ASSUME RefsInv, UNCHANGED <<refs, fd>>
    PROVE  RefsInv'
<1>1. \A e : Uses(e)' = Uses(e)
  BY DEF Uses
<1> QED BY <1>1 DEF RefsInv, RefsRight

\* A step of the kernel that leaves the files alone.
LEMMA RefsStep ==
    ASSUME PipeAssumption, RefsInv, Holders, NEW t \in Task, Step(t)
    PROVE  RefsInv'
<1>1. CASE Clean(t)
  <2>1. PICK i \in Fd \ Free(t) : refs' = PutFile(refs, fd[t][i]) /\ fd' = [fd EXCEPT ![t][i] = NoFile]
    BY <1>1 DEF Clean
  <2>2. i \in Fd /\ fd[t][i] # NoFile
    BY <2>1 DEF Free
  <2> QED BY <2>1, <2>2, Dropped DEF RefsInv
<1>2. CASE ~Clean(t)
  <2>1. UNCHANGED <<refs, fd>>
    <3>1. CASE ReadNothing(t) \/ ReadIntr(t) \/ ReadWait(t) \/ ReadTake(t)
      BY <3>1 DEF ReadNothing, ReadIntr, ReadWait, ReadTake, Return, files
    <3>2. CASE Suspend(t) \/ SuspendIntr(t)
      BY <3>2 DEF Suspend, SuspendIntr, Return, files
    <3>3. CASE WriteNoDelay(t) \/ WriteIntr(t) \/ WriteWait(t) \/ WriteChunk(t) \/ WriteDone(t)
      BY <3>3 DEF WriteNoDelay, WriteIntr, WriteWait, WriteChunk, WriteDone, Return, files
    <3>4. CASE CleanDone(t) \/ SignalHandle(t)
      BY <3>4 DEF CleanDone, SignalHandle, files
    <3> QED BY <1>2, <3>1, <3>2, <3>3, <3>4, Zenon DEF Step
  <2> QED BY <2>1, RefsSame
<1> QED BY <1>1, <1>2

LEMMA RefsCall ==
    ASSUME PipeAssumption, RefsInv, Holders, NEW t \in Task, Call(t)
    PROVE  RefsInv'
<1> USE DEF RefsInv
<1>1. CASE SysPipe(t)
  <2>1. PICK i \in Free(t), j \in Free(t) : i < j /\ fd' = [fd EXCEPT ![t][i] = "rd", ![t][j] = "wr"]
    BY <1>1, Zenon DEF SysPipe
  <2>2. i \in Fd /\ j \in Fd /\ i # j /\ fd[t][i] = NoFile /\ fd[t][j] = NoFile
    BY <2>1 DEF Free, Fd
  <2>3. refs.fso = 0 /\ refs' = NewFiles
    BY <1>1 DEF SysPipe
  <2> QED BY <2>1, <2>2, <2>3, Made
<1>2. CASE SysPipeFails(t)
  <2>1. PICK f \in (Faults \ {"tucpy"}) \cup
                (IF Cardinality(Free(t)) < 2 THEN {"fd"} ELSE Faults \cap {"tucpy"}) : refs' = PipeFailed(f)
    BY <1>2, Zenon DEF SysPipeFails
  <2>2. f \in {"fso", "file0", "file1", "fd", "tucpy"}
    BY <2>1 DEF PipeAssumption
  <2>3. refs.fso = 0 /\ refs' = NoRefs /\ fd' = fd
    BY <1>2, <2>1, <2>2, Unmade DEF SysPipeFails
  <2> QED BY <2>3, NotMade
<1>3. ASSUME NEW i \in Fd, SysClose(t, i)
      PROVE  RefsInv'
  BY <1>3, Dropped DEF SysClose
<1>4. ASSUME NEW i \in Fd, NEW j \in Fd, SysDup(t, i, j)
      PROVE  RefsInv'
  BY <1>4, Duplicated DEF SysDup, Free
<1>5. ASSUME NEW u \in Task, SysFork(t, u)
      PROVE  RefsInv'
  BY <1>5, Shared DEF SysFork, Holders
<1>6. CASE SysExit(t)
  BY <1>6, RefsSame DEF SysExit, files
<1>7. ASSUME NEW i \in Fd, WriteBroken(t, i)
      PROVE  RefsInv'
  BY <1>7, RefsSame DEF WriteBroken, files
<1>8. ASSUME NEW i \in Fd, NEW b \in BOOLEAN, SysSetFl(t, i, b)
      PROVE  RefsInv'
  BY <1>8, RefsSame DEF SysSetFl
<1>9. ASSUME NEW i \in Fd, NEW n \in 0 .. MaxCount, SysRead(t, i, n)
      PROVE  RefsInv'
  BY <1>9, RefsSame DEF SysRead, files
<1>10. ASSUME NEW i \in Fd, NEW n \in 0 .. MaxCount, NEW d \in [1 .. n -> Byte], SysWrite(t, i, d)
      PROVE  RefsInv'
  BY <1>10, RefsSame DEF SysWrite, files
<1> QED BY <1>1, <1>2, <1>3, <1>4, <1>5, <1>6, <1>7, <1>8, <1>9, <1>10, Zenon DEF Call

LEMMA RefsKept ==
    ASSUME PipeAssumption, RefsInv, Holders, Next
    PROVE  RefsInv'
<1>1. PICK t \in Task : Step(t) \/ Call(t) \/ Signal(t) \/ Event(t)
  BY DEF Next
<1>2. CASE Signal(t) \/ Event(t)
  BY <1>2, RefsSame DEF Signal, Event, SignalSend, files
<1> QED BY <1>1, <1>2, RefsStep, RefsCall

-----------------------------------------------------------------------------
(* Flags and requests.                                                     *)

LEMMA FlagsFinish ==
    ASSUME PipeAssumption, FlagTypes, NEW t \in Task, Finish(t)
    PROVE  /\ want' \in [Task -> 0 .. MaxCount] /\ nodelay' \in [Task -> BOOLEAN]
  BY DEF PipeAssumption, FlagTypes, Finish

LEMMA FlagsStep ==
    ASSUME PipeAssumption, FlagTypes, NEW t \in Task, Step(t)
    PROVE  FlagTypes'
<1>1. CASE ReadNothing(t) \/ ReadIntr(t) \/ WriteNoDelay(t) \/ WriteIntr(t)
  BY <1>1, FlagsFinish DEF ReadNothing, ReadIntr, WriteNoDelay, WriteIntr, Return, files, signals, FlagTypes
<1>2. CASE SuspendIntr(t)
  <2>1. Finish(t) /\ ndelay' = ndelay /\ pending' = pending /\ unseen' = [unseen EXCEPT ![t] = FALSE]
    BY <1>2 DEF SuspendIntr, Return, files
  <2> QED BY <2>1, FlagsFinish DEF FlagTypes
<1>3. CASE ReadTake(t) \/ WriteDone(t)
  BY <1>3, FlagsFinish DEF ReadTake, WriteDone, files, signals, FlagTypes
<1>4. CASE ReadWait(t) \/ Suspend(t) \/ WriteWait(t) \/ CleanDone(t)
  BY <1>4 DEF ReadWait, Suspend, WriteWait, CleanDone, files, request, signals, FlagTypes
<1>5. CASE WriteChunk(t)
  BY <1>5 DEF WriteChunk, files, signals, FlagTypes
<1>6. CASE Clean(t) \/ SignalHandle(t)
  BY <1>6 DEF Clean, SignalHandle, files, request, signals, FlagTypes
<1> QED BY <1>1, <1>2, <1>3, <1>4, <1>5, <1>6, Zenon DEF Step

LEMMA FlagsCall ==
    ASSUME PipeAssumption, FlagTypes, NEW t \in Task, Call(t)
    PROVE  FlagTypes'
<1>1. CASE SysPipe(t)
  BY <1>1 DEF SysPipe, Fresh, request, signals, FlagTypes
<1>2. CASE SysPipeFails(t)
  <2>1. ndelay' = ndelay \/ ndelay' = [e \in End |-> FALSE]
    BY <1>2 DEF SysPipeFails, Fresh
  <2> QED BY <1>2, <2>1 DEF SysPipeFails, request, signals, FlagTypes
<1>3. CASE SysExit(t)
  BY <1>3 DEF SysExit, files, request, signals, FlagTypes
<1>4. ASSUME NEW i \in Fd, SysClose(t, i) PROVE FlagTypes'
  BY <1>4 DEF SysClose, request, signals, FlagTypes
<1>5. ASSUME NEW i \in Fd, NEW j \in Fd, SysDup(t, i, j) PROVE FlagTypes'
  BY <1>5 DEF SysDup, request, signals, FlagTypes
<1>6. ASSUME NEW i \in Fd, NEW b \in BOOLEAN, SysSetFl(t, i, b) PROVE FlagTypes'
  BY <1>6 DEF SysSetFl, request, signals, FlagTypes
<1>7. ASSUME NEW u \in Task, SysFork(t, u) PROVE FlagTypes'
  BY <1>7 DEF SysFork, request, FlagTypes
<1>8. ASSUME NEW i \in Fd, WriteBroken(t, i) PROVE FlagTypes'
  BY <1>8 DEF WriteBroken, files, request, FlagTypes
<1>9. ASSUME NEW i \in Fd, NEW n \in 0 .. MaxCount, SysRead(t, i, n) PROVE FlagTypes'
  BY <1>9 DEF SysRead, files, signals, FlagTypes, End
<1>10. ASSUME NEW i \in Fd, NEW n \in 0 .. MaxCount, NEW d \in [1 .. n -> Byte], SysWrite(t, i, d)
       PROVE FlagTypes'
  BY <1>10 DEF SysWrite, files, signals, FlagTypes, End
<1> QED BY <1>1, <1>2, <1>3, <1>4, <1>5, <1>6, <1>7, <1>8, <1>9, <1>10, Zenon DEF Call

LEMMA FlagsKept ==
    ASSUME PipeAssumption, FlagTypes, Next
    PROVE  FlagTypes'
<1>1. PICK t \in Task : Step(t) \/ Call(t) \/ Signal(t) \/ Event(t)
  BY DEF Next
<1>2. CASE Signal(t) \/ Event(t)
  <2>1. PICK ev \in BOOLEAN : SignalSend(t, ev)
    BY <1>2 DEF Signal, Event, FlagTypes
  <2> QED BY <2>1 DEF SignalSend, files, request, FlagTypes
<1> QED BY <1>1, <1>2, FlagsStep, FlagsCall

-----------------------------------------------------------------------------
(* The ring buffer.                                                        *)

LEMMA ChunkRight ==
    ASSUME PipeAssumption, WaitTypes, NEW t \in Task, todo[t] # <<>>, size < PIPE_BUF
    PROVE  /\ Len(todo[t]) \in Nat
           /\ Chunk(t) \in 1 .. Len(todo[t]) /\ size + Chunk(t) <= PIPE_BUF
           /\ SubSeq(todo[t], 1, Chunk(t)) \in Seq(Byte)
           /\ Len(SubSeq(todo[t], 1, Chunk(t))) = Chunk(t)
           /\ \A k \in 1 .. Chunk(t) : SubSeq(todo[t], 1, Chunk(t))[k] = todo[t][k]
           /\ SubSeq(todo[t], Chunk(t) + 1, Len(todo[t])) \in Seq(Byte)
<1>1. todo[t] \in Seq(Byte) /\ size \in 0 .. PIPE_BUF /\ PIPE_BUF \in Nat \ {0}
  BY DEF WaitTypes, PipeAssumption
<1>2. Len(todo[t]) \in Nat /\ Len(todo[t]) > 0
  BY <1>1
<1>3. Chunk(t) \in 1 .. Len(todo[t]) /\ size + Chunk(t) <= PIPE_BUF
  BY <1>1, <1>2 DEF Chunk
<1> HIDE DEF Chunk
<1>4. /\ SubSeq(todo[t], 1, Chunk(t)) \in Seq(Byte)
      /\ Len(SubSeq(todo[t], 1, Chunk(t))) = Chunk(t)
      /\ \A k \in 1 .. Chunk(t) : SubSeq(todo[t], 1, Chunk(t))[k] = todo[t][k]
  BY <1>1, <1>2, <1>3, SubSeqProperties
<1>5. SubSeq(todo[t], Chunk(t) + 1, Len(todo[t])) \in Seq(Byte)
  <2>1. \A i \in (Chunk(t) + 1) .. Len(todo[t]) : todo[t][i] \in Byte
    BY <1>1, <1>2, <1>3
  <2> QED BY <1>1, <1>2, <1>3, SubSeqProperties
<1> QED BY <1>2, <1>3, <1>4, <1>5

\* A position that goes round the ring.
LEMMA Round ==
    ASSUME PipeAssumption, NEW x \in 0 .. 2 * PIPE_BUF - 1
    PROVE  /\ x % PIPE_BUF = IF x < PIPE_BUF THEN x ELSE x - PIPE_BUF
           /\ x % PIPE_BUF \in Index
<1>1. PIPE_BUF \in Nat \ {0}
  BY DEF PipeAssumption
<1>2. x % PIPE_BUF = IF x < PIPE_BUF THEN x ELSE x - PIPE_BUF
  BY <1>1
<1>3. (IF x < PIPE_BUF THEN x ELSE x - PIPE_BUF) \in 0 .. PIPE_BUF - 1
  BY <1>1
<1> QED BY <1>2, <1>3 DEF Index

LEMMA PlaceOf ==
    ASSUME PipeAssumption, NEW p \in Index, NEW n \in 0 .. PIPE_BUF
    PROVE  /\ (p + n) % PIPE_BUF \in Index
           /\ (p + n) % PIPE_BUF = IF p + n < PIPE_BUF THEN p + n ELSE p + n - PIPE_BUF
<1> DEFINE x == p + n
<1>1. x \in 0 .. 2 * PIPE_BUF - 1
  BY DEF PipeAssumption, Index
<1> HIDE DEF x
<1>2. /\ x % PIPE_BUF = IF x < PIPE_BUF THEN x ELSE x - PIPE_BUF
      /\ x % PIPE_BUF \in Index
  BY <1>1, Round
<1>3. x \in Int /\ p \in Int /\ n \in Int /\ PIPE_BUF \in Int
  BY <1>1 DEF PipeAssumption, Index
<1> QED BY <1>2, <1>3 DEF x

\* The k-th of the bytes copied out, and where a copied byte is put.
LEMMA CopiedOut ==
    ASSUME PipeAssumption, DataTypes, NEW n \in 0 .. PIPE_BUF
    PROVE  /\ CopyOut(n) \in [1 .. n -> Byte]
           /\ \A k \in 1 .. n : CopyOut(n)[k] = buf[(read_p + (k - 1)) % PIPE_BUF]
<1>1. PIPE_BUF \in Nat \ {0} /\ read_p \in 0 .. PIPE_BUF - 1 /\ buf \in [Index -> Byte]
  BY DEF PipeAssumption, DataTypes, Index
<1>2. ASSUME NEW k \in 1 .. n
      PROVE  CopyOut(n)[k] = buf[(read_p + (k - 1)) % PIPE_BUF] /\ CopyOut(n)[k] \in Byte
  <2> DEFINE q == (read_p + (k - 1)) % PIPE_BUF
  <2>1. q \in Index /\ q = IF read_p + (k - 1) < PIPE_BUF THEN read_p + (k - 1) ELSE read_p + (k - 1) - PIPE_BUF
    <3>1. k - 1 \in 0 .. PIPE_BUF /\ read_p \in Index
      BY <1>1 DEF Index
    <3> QED BY <3>1, PlaceOf
  <2> HIDE DEF q
  <2>2. CopyOut(n)[k] = IF k <= ToWrap(read_p, n) THEN buf[read_p + k - 1] ELSE buf[k - ToWrap(read_p, n) - 1]
    BY DEF CopyOut
  <2>3. CopyOut(n)[k] = buf[q]
    BY <1>1, <2>1, <2>2 DEF ToWrap
  <2> QED BY <1>1, <2>1, <2>3 DEF q
<1>3. CopyOut(n) = [k \in 1 .. n |-> CopyOut(n)[k]]
  BY DEF CopyOut
<1> HIDE DEF CopyOut
<1> QED BY <1>2, <1>3

LEMMA CopiedIn ==
    ASSUME PipeAssumption, DataTypes, NEW d \in Seq(Byte), Len(d) <= PIPE_BUF
    PROVE  /\ CopyIn(d) \in [Index -> Byte]
           /\ \A k \in 1 .. Len(d) : CopyIn(d)[(write_p + (k - 1)) % PIPE_BUF] = d[k]
           /\ \A n \in Len(d) .. PIPE_BUF - 1 :
                CopyIn(d)[(write_p + n) % PIPE_BUF] = buf[(write_p + n) % PIPE_BUF]
<1>1. PIPE_BUF \in Nat \ {0} /\ write_p \in 0 .. PIPE_BUF - 1 /\ buf \in [Index -> Byte]
      /\ Len(d) \in 0 .. PIPE_BUF /\ \A k \in 1 .. Len(d) : d[k] \in Byte
  BY DEF PipeAssumption, DataTypes, Index
<1> DEFINE l == ToWrap(write_p, Len(d))
<1>2. l \in 0 .. Len(d) /\ l = IF Len(d) + write_p > PIPE_BUF THEN PIPE_BUF - write_p ELSE Len(d)
  BY <1>1 DEF ToWrap
<1>3. CopyIn(d) = [i \in Index |-> IF i < Len(d) - l THEN d[l + i + 1]
                         ELSE IF write_p <= i /\ i < write_p + l THEN d[i - write_p + 1]
                         ELSE buf[i]]
  BY DEF CopyIn
<1> HIDE DEF l
<1>4. \A i \in Index : CopyIn(d)[i] = IF i < Len(d) - l THEN d[l + i + 1]
                         ELSE IF write_p <= i /\ i < write_p + l THEN d[i - write_p + 1]
                         ELSE buf[i]
  BY <1>3, Zenon
<1>5. ASSUME NEW i \in Index
      PROVE  CopyIn(d)[i] \in Byte
  <2>1. i \in 0 .. PIPE_BUF - 1
    BY DEF Index
  <2>2. i < Len(d) - l => l + i + 1 \in 1 .. Len(d)
    BY <1>1, <1>2, <2>1
  <2>3. write_p <= i /\ i < write_p + l => i - write_p + 1 \in 1 .. Len(d)
    BY <1>1, <1>2, <2>1
  <2> QED BY <1>1, <1>4, <2>2, <2>3, Zenon
<1>6. CopyIn(d) \in [Index -> Byte]
  BY <1>3, <1>5, Zenon
<1>7. ASSUME NEW k \in 1 .. Len(d)
      PROVE  CopyIn(d)[(write_p + (k - 1)) % PIPE_BUF] = d[k]
  <2> DEFINE q == (write_p + (k - 1)) % PIPE_BUF
  <2>1. q \in Index /\ q = IF write_p + (k - 1) < PIPE_BUF THEN write_p + (k - 1) ELSE write_p + (k - 1) - PIPE_BUF
    <3>1. k - 1 \in 0 .. PIPE_BUF /\ write_p \in Index
      BY <1>1 DEF Index
    <3> QED BY <3>1, PlaceOf
  <2> HIDE DEF q
  <2>2. CASE write_p + (k - 1) < PIPE_BUF
    <3>1. ~(q < Len(d) - l) /\ write_p <= q /\ q < write_p + l /\ q - write_p + 1 = k
      BY <1>1, <1>2, <2>1, <2>2
    <3> QED BY <1>4, <2>1, <3>1 DEF q
  <2>3. CASE write_p + (k - 1) >= PIPE_BUF
    <3>1. q = write_p + (k - 1) - PIPE_BUF /\ k \in 1 .. Len(d) /\ q \in Int
      BY <1>1, <2>1, <2>3 DEF Index
    <3>2. Len(d) + write_p > PIPE_BUF
      BY <1>1, <2>3
    <3>3. l = PIPE_BUF - write_p
      BY <1>2, <3>2
    <3>4. q < Len(d) - l /\ l + q + 1 = k
      BY <1>1, <3>1, <3>3
    <3> QED BY <1>4, <2>1, <3>4 DEF q
  <2> QED BY <1>1, <2>2, <2>3
<1>8. ASSUME NEW n \in Len(d) .. PIPE_BUF - 1
      PROVE  CopyIn(d)[(write_p + n) % PIPE_BUF] = buf[(write_p + n) % PIPE_BUF]
  <2> DEFINE q == (write_p + n) % PIPE_BUF
  <2>1. q \in Index /\ q = IF write_p + n < PIPE_BUF THEN write_p + n ELSE write_p + n - PIPE_BUF
    <3>1. n \in 0 .. PIPE_BUF /\ write_p \in Index
      BY <1>1 DEF Index
    <3> QED BY <3>1, PlaceOf
  <2> HIDE DEF q
  <2>2. ~(q < Len(d) - l) /\ ~(write_p <= q /\ q < write_p + l)
    BY <1>1, <1>2, <2>1
  <2> QED BY <1>4, <2>1, <2>2 DEF q
<1> QED BY <1>6, <1>7, <1>8

LEMMA DataStep ==
    ASSUME PipeAssumption, WaitTypes, FlagTypes, DataTypes, NEW t \in Task, Step(t)
    PROVE  DataTypes'
<1>0. PIPE_BUF \in Nat \ {0} /\ size \in 0 .. PIPE_BUF /\ want[t] \in 0 .. MaxCount /\ MaxCount \in Nat
  BY DEF PipeAssumption, WaitTypes, FlagTypes
<1>1. CASE ReadTake(t)
  <2> DEFINE cnt == IF want[t] > size THEN size ELSE want[t]
  <2>1. taken' = CopyOut(cnt) /\ read_p' = (read_p + cnt) % PIPE_BUF
        /\ buf' = buf /\ write_p' = write_p
    BY <1>1 DEF ReadTake
  <2>2. cnt \in 0 .. PIPE_BUF
    BY <1>0
  <2> HIDE DEF cnt
  <2>3. CopyOut(cnt) \in [1 .. cnt -> Byte] /\ (read_p + cnt) % PIPE_BUF \in Index
    BY <2>2, CopiedOut, PlaceOf DEF DataTypes
  <2>4. CopyOut(cnt) \in Seq(Byte)
    BY <2>2, <2>3, IsASeq
  <2> QED BY <2>1, <2>3, <2>4, Zenon DEF DataTypes
<1>2. CASE WriteChunk(t)
  <2>1. /\ todo[t] # <<>> /\ size < PIPE_BUF
        /\ buf' = CopyIn(SubSeq(todo[t], 1, Chunk(t)))
        /\ write_p' = (write_p + Chunk(t)) % PIPE_BUF
        /\ taken' = <<>> /\ read_p' = read_p
    BY <1>2 DEF WriteChunk
  <2>2. /\ SubSeq(todo[t], 1, Chunk(t)) \in Seq(Byte)
        /\ Len(SubSeq(todo[t], 1, Chunk(t))) = Chunk(t)
        /\ Chunk(t) \in 0 .. PIPE_BUF /\ Chunk(t) <= PIPE_BUF
    BY <1>0, <2>1, ChunkRight
  <2>3. buf' \in [Index -> Byte] /\ write_p' \in Index
    <3>1. Len(SubSeq(todo[t], 1, Chunk(t))) <= PIPE_BUF
      BY <2>2
    <3>2. buf' \in [Index -> Byte]
      BY <2>1, <2>2, <3>1, CopiedIn, Zenon
    <3>3. write_p \in Index
      BY DEF DataTypes
    <3> QED BY <2>1, <2>2, <3>2, <3>3, PlaceOf, Zenon
  <2>4. taken' \in Seq(Byte)
    BY <2>1
  <2> QED BY <2>1, <2>3, <2>4, Zenon DEF DataTypes
<1>3. CASE ~ReadTake(t) /\ ~WriteChunk(t)
  <2>1. /\ buf' = buf /\ read_p' = read_p /\ write_p' = write_p /\ taken' = <<>>
    <3>1. CASE ReadNothing(t) \/ ReadIntr(t) \/ ReadWait(t) \/ Suspend(t) \/ SuspendIntr(t)
      BY <3>1 DEF ReadNothing, ReadIntr, ReadWait, Suspend, SuspendIntr, Return, ring
    <3>2. CASE WriteNoDelay(t) \/ WriteIntr(t) \/ WriteWait(t) \/ WriteDone(t)
      BY <3>2 DEF WriteNoDelay, WriteIntr, WriteWait, WriteDone, Return, ring
    <3>3. CASE Clean(t) \/ CleanDone(t) \/ SignalHandle(t)
      BY <3>3 DEF Clean, CleanDone, SignalHandle, ring
    <3> QED BY <1>3, <3>1, <3>2, <3>3, Zenon DEF Step
  <2> QED BY <2>1 DEF DataTypes
<1> QED BY <1>1, <1>2, <1>3

\* A call copies nothing; pipe() starts an object anew.
LEMMA CallCopiesNothing ==
    ASSUME NEW t \in Task, Call(t)
    PROVE  /\ buf' = buf /\ taken' = <<>>
           /\ \/ UNCHANGED ring
              \/ refs.fso = 0 /\ Fresh /\ UNCHANGED todo /\ (SysPipe(t) \/ SysPipeFails(t))
<1>1. CASE SysPipe(t)
  BY <1>1 DEF SysPipe, Fresh, request
<1>2. CASE SysPipeFails(t)
  BY <1>2 DEF SysPipeFails, Fresh, ring, request
<1>3. ASSUME NEW i \in Fd, NEW j \in Fd, SysClose(t, i) \/ SysDup(t, i, j)
      PROVE  UNCHANGED ring /\ taken' = <<>>
  BY <1>3 DEF SysClose, SysDup
<1>4. ASSUME NEW i \in Fd, NEW b \in BOOLEAN, SysSetFl(t, i, b) \/ WriteBroken(t, i)
      PROVE  UNCHANGED ring /\ taken' = <<>>
  BY <1>4 DEF SysSetFl, WriteBroken
<1>5. ASSUME NEW u \in Task, SysFork(t, u) \/ SysExit(t)
      PROVE  UNCHANGED ring /\ taken' = <<>>
  BY <1>5 DEF SysFork, SysExit
<1>6. ASSUME NEW i \in Fd, NEW n, SysRead(t, i, n)
      PROVE  UNCHANGED ring /\ taken' = <<>>
  BY <1>6 DEF SysRead
<1>7. ASSUME NEW i \in Fd, NEW d, SysWrite(t, i, d)
      PROVE  UNCHANGED ring /\ taken' = <<>>
  BY <1>7 DEF SysWrite
<1>8. CASE ~SysPipe(t) /\ ~SysPipeFails(t)
  <2>1. UNCHANGED ring /\ taken' = <<>>
    <3>1. PICK u \in Task : SysExit(t) \/ SysFork(t, u) \/ \E i \in Fd :
        \/ SysClose(t, i) \/ WriteBroken(t, i)
        \/ \E j \in Fd : SysDup(t, i, j)
        \/ \E b \in BOOLEAN : SysSetFl(t, i, b)
        \/ \E n \in 0 .. MaxCount :
            \/ SysRead(t, i, n)
            \/ \E d \in [1 .. n -> Byte] : SysWrite(t, i, d)
      BY <1>8, Zenon DEF Call
    <3> QED BY <3>1, <1>3, <1>4, <1>5, <1>6, <1>7, Zenon
  <2> QED BY <2>1 DEF ring
<1> QED BY <1>1, <1>2, <1>8

LEMMA DataKept ==
    ASSUME PipeAssumption, WaitTypes, FlagTypes, DataTypes, Next
    PROVE  DataTypes'
<1>1. PICK t \in Task : Step(t) \/ Call(t) \/ Signal(t) \/ Event(t)
  BY DEF Next
<1>2. CASE Call(t)
  <2>1. 0 \in Index
    BY DEF PipeAssumption, Index
  <2>2. /\ buf' = buf /\ taken' = <<>>
        /\ \/ read_p' = read_p /\ write_p' = write_p
           \/ read_p' = 0 /\ write_p' = 0
    BY <1>2, CallCopiesNothing DEF ring, Fresh
  <2> QED BY <2>1, <2>2 DEF DataTypes
<1>3. CASE Signal(t) \/ Event(t)
  <2>1. PICK ev \in BOOLEAN : SignalSend(t, ev)
    BY <1>3 DEF Signal, Event, FlagTypes
  <2> QED BY <2>1 DEF SignalSend, ring, DataTypes
<1> QED BY <1>1, <1>2, <1>3, DataStep

-----------------------------------------------------------------------------
(* Queues.                                                                 *)

\* Nobody is in an empty queue.
LEMMA EmptyQueue ==
    /\ Once(<<>>) /\ <<>> \in Seq(Task)
    /\ \A t : ~InQueue(<<>>, t)
    /\ \A s \in Seq(Task) : s # <<>> => \E t \in Task : InQueue(s, t)
  BY DEF Once, InQueue

\* Without takes out the one place of t and keeps the others in order.
LEMMA WithoutRight ==
    ASSUME NEW s \in Seq(Task), NEW t \in Task, Once(s)
    PROVE  /\ Without(s, t) \in Seq(Task)
           /\ Once(Without(s, t))
           /\ \A u : InQueue(Without(s, t), u) <=> u # t /\ InQueue(s, u)
           /\ s = <<>> => Without(s, t) = <<>>
<1>0. CASE ~InQueue(s, t)
  BY <1>0 DEF Without
<1>00. CASE InQueue(s, t)
  <2> DEFINE k == CHOOSE i \in 1 .. Len(s) : s[i] = t
             w == [i \in 1 .. Len(s) - 1 |-> IF i < k THEN s[i] ELSE s[i + 1]]
  <2>1. k \in 1 .. Len(s) /\ s[k] = t
    BY <1>00 DEF InQueue
  <2>2. Without(s, t) = w
    BY <1>00 DEF Without
  <2>3. Len(s) \in Nat /\ Len(s) > 0 /\ \A i \in 1 .. Len(s) : s[i] \in Task
    BY <2>1
  <2> HIDE DEF k
  <2>4. w \in [1 .. Len(s) - 1 -> Task]
    BY <2>1, <2>3
  <2>5. w \in Seq(Task) /\ Len(w) = Len(s) - 1
    BY <2>3, <2>4, IsASeq, LenProperties
  <2>6. \A i \in 1 .. Len(w) : w[i] = IF i < k THEN s[i] ELSE s[i + 1]
    BY <2>5
  <2> HIDE DEF w
  <2>7. ASSUME NEW i \in 1 .. Len(w), NEW j \in 1 .. Len(w), w[i] = w[j]
        PROVE  i = j
    <3> DEFINE i1 == IF i < k THEN i ELSE i + 1
               j1 == IF j < k THEN j ELSE j + 1
    <3>1. i1 \in 1 .. Len(s) /\ j1 \in 1 .. Len(s) /\ w[i] = s[i1] /\ w[j] = s[j1]
      BY <2>1, <2>3, <2>5, <2>6
    <3>2. i1 = j1
      BY <2>7, <3>1 DEF Once
    <3> QED BY <2>1, <2>3, <2>5, <3>2
  <2>8. ASSUME NEW u, NEW i \in 1 .. Len(w), w[i] = u
        PROVE  u # t /\ InQueue(s, u)
    <3> DEFINE j == IF i < k THEN i ELSE i + 1
    <3>1. j \in 1 .. Len(s) /\ j # k /\ s[j] = u
      BY <2>1, <2>3, <2>5, <2>6, <2>8
    <3> QED BY <2>1, <3>1 DEF Once, InQueue
  <2>9. ASSUME NEW u, u # t, NEW i \in 1 .. Len(s), s[i] = u
        PROVE  InQueue(w, u)
    <3>1. CASE i < k
      <4>1. i \in 1 .. Len(w) /\ w[i] = s[i]
        BY <2>1, <2>3, <2>5, <2>6, <3>1
      <4> QED BY <2>9, <4>1 DEF InQueue
    <3>2. CASE i > k
      <4>1. i - 1 \in 1 .. Len(w) /\ w[i - 1] = s[i]
        BY <2>1, <2>3, <2>5, <2>6, <3>2
      <4> QED BY <2>9, <4>1 DEF InQueue
    <3> QED BY <2>1, <2>9, <3>1, <3>2
  <2>10. s # <<>>
    BY <2>3
  <2> QED BY <2>2, <2>5, <2>7, <2>8, <2>9, <2>10, Zenon DEF InQueue, Once
<1> QED BY <1>0, <1>00

LEMMA AppendRight ==
    ASSUME NEW s \in Seq(Task), NEW t \in Task, Once(s), ~InQueue(s, t)
    PROVE  /\ Append(s, t) \in Seq(Task)
           /\ Once(Append(s, t))
           /\ \A u : InQueue(Append(s, t), u) <=> u = t \/ InQueue(s, u)
<1>1. /\ Append(s, t) \in Seq(Task) /\ Len(s) \in Nat /\ Len(Append(s, t)) = Len(s) + 1
      /\ \A i \in 1 .. Len(s) : Append(s, t)[i] = s[i]
      /\ Append(s, t)[Len(s) + 1] = t
  BY AppendProperties
<1>2. Once(Append(s, t))
  BY <1>1 DEF Once, InQueue
<1>3. ASSUME NEW u
      PROVE  InQueue(Append(s, t), u) <=> u = t \/ InQueue(s, u)
  BY <1>1 DEF InQueue
<1> QED BY <1>1, <1>2, <1>3

-----------------------------------------------------------------------------
(* What a step of one task does to the places of the others: they stay, or *)
(* wake up.                                                                *)

Asleep == {"rsleep", "wsleep"}

Goes(t, p) ==
    /\ at' \in [Task -> Place] /\ at'[t] = p
    /\ \A u \in Task \ {t} :
        \/ at'[u] = at[u]
        \/ at[u] = "rsleep" /\ at'[u] = "read"
        \/ at[u] = "wsleep" /\ at'[u] = "write"

\* A step that wakes nobody.
LEMMA Moved ==
    ASSUME WaitTypes, QueuesRight, NEW t \in Task, at[t] \notin Asleep,
           NEW p \in Place \ Asleep, at' = [at EXCEPT ![t] = p], UNCHANGED <<readers, writers>>
    PROVE  Goes(t, p) /\ QueuesRight'
  BY DEF WaitTypes, QueuesRight, Goes, Asleep

\* pipe_ustate wakes whom it has to.
LEMMA Ustated ==
    ASSUME PipeAssumption, WaitTypes, QueuesRight, NEW t \in Task, at[t] \notin Asleep,
           NEW p \in Place \ Asleep, NEW n \in 0 .. PIPE_BUF,
           Ustate(n, [at EXCEPT ![t] = p])
    PROVE  /\ Goes(t, p) /\ QueuesRight'
           /\ readers' \in Seq(Task) /\ writers' \in Seq(Task)
           /\ state' = StateOf(n) /\ unsaid' = FALSE
           /\ readers' # <<>> => "R_OK" \notin state'
           /\ writers' # <<>> => "W_OK" \notin state'
<1>1. /\ readers \in Seq(Task) /\ writers \in Seq(Task) /\ at \in [Task -> Place]
      /\ Once(readers) /\ Once(writers)
      /\ \A u \in Task : /\ InQueue(readers, u) <=> at[u] = "rsleep"
                         /\ InQueue(writers, u) <=> at[u] = "wsleep"
  BY DEF WaitTypes, QueuesRight
<1>2. /\ state' = StateOf(n) /\ unsaid' = FALSE
      /\ readers' = IF "R_OK" \in StateOf(n) THEN <<>> ELSE readers
      /\ writers' = IF "W_OK" \in StateOf(n) THEN <<>> ELSE writers
  BY Zenon DEF Ustate
<1>3. ASSUME NEW u \in Task
      PROVE  at'[u] = IF \/ "R_OK" \in StateOf(n) /\ InQueue(readers, u)
                         \/ "W_OK" \in StateOf(n) /\ InQueue(writers, u)
                      THEN Resumed([at EXCEPT ![t] = p][u]) ELSE [at EXCEPT ![t] = p][u]
  BY Zenon DEF Ustate
<1>4. ASSUME NEW u \in Task \ {t}
      PROVE  /\ at'[u] = IF \/ "R_OK" \in StateOf(n) /\ at[u] = "rsleep"
                            \/ "W_OK" \in StateOf(n) /\ at[u] = "wsleep"
                         THEN Resumed(at[u]) ELSE at[u]
  BY <1>1, <1>3
<1>5. at'[t] = p
  BY <1>1, <1>3 DEF Asleep
<1>6. at' = [u \in Task |-> at'[u]]
  BY DEF Ustate
<1>7. \A u \in Task : at'[u] \in Place
  BY <1>1, <1>4, <1>5 DEF Resumed, Place
<1>8. Goes(t, p)
  BY <1>1, <1>4, <1>5, <1>6, <1>7 DEF Goes, Resumed
<1>9. QueuesRight'
  <2>1. Once(readers') /\ Once(writers')
    BY <1>1, <1>2, EmptyQueue
  <2>2. ASSUME NEW u \in Task
        PROVE  /\ InQueue(readers', u) <=> "R_OK" \notin StateOf(n) /\ at[u] = "rsleep"
               /\ InQueue(writers', u) <=> "W_OK" \notin StateOf(n) /\ at[u] = "wsleep"
    BY <1>1, <1>2, EmptyQueue
  <2>3. ASSUME NEW u \in Task
        PROVE  /\ at'[u] = "rsleep" <=> "R_OK" \notin StateOf(n) /\ at[u] = "rsleep"
               /\ at'[u] = "wsleep" <=> "W_OK" \notin StateOf(n) /\ at[u] = "wsleep"
    BY <1>4, <1>5 DEF Asleep, Resumed
  <2> QED BY <2>1, <2>2, <2>3 DEF QueuesRight
<1> QED BY <1>1, <1>2, <1>8, <1>9, EmptyQueue

\* Only the task that has the processor is about to sleep or exits.
LEMMA Alone ==
    ASSUME PipeAssumption, Processor, NEW t \in Task, busy \in {NoTask, t}
    PROVE  \A u \in Task \ {t} : at[u] \notin {"rsusp", "wsusp", "exit"}
  BY DEF PipeAssumption, Processor

LEMMA ProcessorKept ==
    ASSUME PipeAssumption, Processor, NEW t \in Task, busy \in {NoTask, t},
           NEW p \in Place, Goes(t, p),
           \/ busy' = NoTask /\ p \notin {"rsusp", "wsusp", "exit"}
           \/ busy' = t /\ p \in {"read", "rsusp", "write", "wsusp", "exit"},
           p = "rsusp" => size' = 0,
           p = "wsusp" => size' = PIPE_BUF /\ ~unsaid'
    PROVE  Processor'
<1>1. \A u \in Task \ {t} : at'[u] \notin {"rsusp", "wsusp", "exit"}
  BY Alone DEF Goes
<1>2. at'[t] = p /\ NoTask # t
  BY DEF Goes, PipeAssumption
<1> QED BY <1>1, <1>2 DEF Processor

LEMMA HoldersKept ==
    ASSUME Holders, NEW t \in Task, NEW p \in Place, Goes(t, p),
           fd' = fd, \A u \in Task \ {t} : todo'[u] = todo[u],
           p \in InRead => \E i \in Fd : fd[t][i] = "rd",
           p \in InWrite => \E i \in Fd : fd[t][i] = "wr",
           p = "none" => \A i \in Fd : fd[t][i] = NoFile,
           p \notin InWrite => todo'[t] = <<>>
    PROVE  Holders'
<1>1. ASSUME NEW u \in Task \ {t}
      PROVE  /\ at'[u] \in InRead <=> at[u] \in InRead
             /\ at'[u] \in InWrite <=> at[u] \in InWrite
             /\ at'[u] = "none" <=> at[u] = "none"
  BY DEF Goes, InRead, InWrite
<1>2. at'[t] = p
  BY DEF Goes
<1>3. ASSUME NEW u \in Task
      PROVE  /\ at'[u] \in InRead => \E i \in Fd : fd'[u][i] = "rd"
             /\ at'[u] \in InWrite => \E i \in Fd : fd'[u][i] = "wr"
             /\ at'[u] = "none" => \A i \in Fd : fd'[u][i] = NoFile
             /\ at'[u] \notin InWrite => todo'[u] = <<>>
  <2>1. CASE u = t
    BY <1>2, <2>1
  <2>2. CASE u # t
    <3>1. todo'[u] = todo[u] /\ fd'[u] = fd[u]
      BY <2>2
    <3>2. /\ at[u] \in InRead => \E i \in Fd : fd[u][i] = "rd"
          /\ at[u] \in InWrite => \E i \in Fd : fd[u][i] = "wr"
          /\ at[u] = "none" => \A i \in Fd : fd[u][i] = NoFile
          /\ at[u] \notin InWrite => todo[u] = <<>>
      BY Zenon DEF Holders
    <3>3. /\ at'[u] \in InRead <=> at[u] \in InRead
          /\ at'[u] \in InWrite <=> at[u] \in InWrite
          /\ at'[u] = "none" <=> at[u] = "none"
      BY <1>1, <2>2
    <3> QED BY <3>1, <3>2, <3>3
  <2> QED BY <2>1, <2>2
<1> QED BY <1>3 DEF Holders

-----------------------------------------------------------------------------
(* Every step keeps the queues right and everybody told.                   *)

LEMMA NotWriting ==
    ASSUME NEW t \in Task, busy \in {NoTask, t}, at[t] # "write"
    PROVE  ~Writing
  BY DEF Writing

\* A step that touches neither the buffer's size nor the queues.
LEMMA QuietStep ==
    ASSUME PipeAssumption, WaitInv, NEW t \in Task, busy \in {NoTask, t},
           at[t] \notin Asleep, at[t] # "write",
           NEW p \in Place \ Asleep, at' = [at EXCEPT ![t] = p],
           UNCHANGED <<size, state, readers, writers, unsaid, fd>>,
           todo' \in [Task -> Seq(Byte)], \A u \in Task \ {t} : todo'[u] = todo[u],
           p \in InRead => \E i \in Fd : fd[t][i] = "rd",
           p \in InWrite => \E i \in Fd : fd[t][i] = "wr",
           p = "none" => \A i \in Fd : fd[t][i] = NoFile,
           p \notin InWrite => todo'[t] = <<>>,
           \/ busy' = NoTask /\ p \notin {"rsusp", "wsusp", "exit"}
           \/ busy' = t /\ p \in {"read", "rsusp", "write", "exit"},
           p = "rsusp" => size = 0
    PROVE  WaitInv'
<1>1. WaitTypes /\ QueuesRight /\ Holders /\ Processor /\ Told
  BY Zenon DEF WaitInv
<1>2. Goes(t, p) /\ QueuesRight'
  BY <1>1, Moved
<1>3. Holders'
  BY <1>1, <1>2, HoldersKept
<1>4. p # "wsusp"
  OBVIOUS
<1>5. Processor'
  BY <1>1, <1>2, <1>4, ProcessorKept
<1>6. ~Writing
  BY NotWriting
<1>7. Told'
  BY <1>1, <1>6 DEF Told
<1>8. WaitTypes'
  BY <1>1, <1>2 DEF WaitTypes, Goes
<1> QED BY <1>2, <1>3, <1>5, <1>7, <1>8, Zenon DEF WaitInv

\* A step that changes the descriptors of a task that is not in a call.
LEMMA FilesStep ==
    ASSUME PipeAssumption, WaitInv, NEW t \in Task, busy \in {NoTask, t},
           at[t] \in {"user", "exit"},
           UNCHANGED <<at, busy, todo, size, state, readers, writers, unsaid>>,
           \A u \in Task \ {t} : fd'[u] = fd[u]
    PROVE  WaitInv'
<1>1. WaitTypes /\ QueuesRight /\ Holders /\ Processor /\ Told
  BY Zenon DEF WaitInv
<1>2. WaitTypes'
  BY <1>1 DEF WaitTypes
<1>3. QueuesRight'
  BY <1>1 DEF QueuesRight
<1>4. Holders'
  <2>1. ASSUME NEW u \in Task
        PROVE  /\ at[u] \in InRead => \E i \in Fd : fd'[u][i] = "rd"
               /\ at[u] \in InWrite => \E i \in Fd : fd'[u][i] = "wr"
               /\ at[u] = "none" => \A i \in Fd : fd'[u][i] = NoFile
               /\ at[u] \notin InWrite => todo[u] = <<>>
    <3>1. CASE u = t
      BY <1>1, <3>1 DEF Holders, InRead, InWrite
    <3>2. CASE u # t
      BY <1>1, <3>2 DEF Holders
    <3> QED BY <3>1, <3>2
  <2> QED BY <2>1 DEF Holders
<1>5. Processor'
  BY <1>1 DEF Processor
<1>6. ~Writing
  BY NotWriting
<1>7. Told'
  BY <1>1, <1>6 DEF Told
<1> QED BY <1>2, <1>3, <1>4, <1>5, <1>7, Zenon DEF WaitInv

\* A step that ends in pipe_ustate.
LEMMA UstateStep ==
    ASSUME PipeAssumption, WaitInv, NEW t \in Task, busy \in {NoTask, t},
           at[t] \notin Asleep,
           NEW p \in Place \ Asleep, NEW n \in 0 .. PIPE_BUF, size' = n,
           Ustate(n, [at EXCEPT ![t] = p]), fd' = fd,
           todo' \in [Task -> Seq(Byte)], \A u \in Task \ {t} : todo'[u] = todo[u],
           \/ p = "user" /\ todo'[t] = <<>> /\ busy' = NoTask
           \/ p = "wsusp" /\ (\E i \in Fd : fd[t][i] = "wr") /\ n = PIPE_BUF /\ busy' = t
    PROVE  WaitInv'
<1>1. WaitTypes /\ QueuesRight /\ Holders /\ Processor /\ Told
  BY Zenon DEF WaitInv
<1>2. /\ Goes(t, p) /\ QueuesRight'
      /\ readers' \in Seq(Task) /\ writers' \in Seq(Task)
      /\ state' = StateOf(n) /\ unsaid' = FALSE
      /\ readers' # <<>> => "R_OK" \notin state'
      /\ writers' # <<>> => "W_OK" \notin state'
  BY <1>1, Ustated
<1>3. Holders'
  BY <1>1, <1>2, HoldersKept DEF InRead, InWrite
<1>5. Processor'
  BY <1>1, <1>2, ProcessorKept
<1>7. Told'
  BY <1>2 DEF Told
<1>8. WaitTypes'
  BY <1>1, <1>2 DEF WaitTypes, Goes, StateOf
<1> QED BY <1>2, <1>3, <1>5, <1>7, <1>8, Zenon DEF WaitInv

\* task_suspend puts t into a queue, and nothing is there for it.
LEMMA SuspendKept ==
    ASSUME PipeAssumption, WaitInv, NEW t \in Task, Suspend(t)
    PROVE  WaitInv'
<1>1. WaitTypes /\ QueuesRight /\ Holders /\ Processor /\ Told
  BY Zenon DEF WaitInv
<1>2. /\ busy \in {NoTask, t} /\ at[t] \in {"rsusp", "wsusp"}
      /\ at' = [at EXCEPT ![t] = IF at[t] = "rsusp" THEN "rsleep" ELSE "wsleep"]
      /\ readers' = IF at[t] = "rsusp" THEN Append(readers, t) ELSE readers
      /\ writers' = IF at[t] = "wsusp" THEN Append(writers, t) ELSE writers
      /\ busy' = NoTask
      /\ UNCHANGED <<size, state, fd, todo, unsaid>>
  BY DEF Suspend, Runs, ring, files, request
<1>3. /\ readers \in Seq(Task) /\ writers \in Seq(Task) /\ at \in [Task -> Place]
      /\ Once(readers) /\ Once(writers)
      /\ \A u \in Task : /\ InQueue(readers, u) <=> at[u] = "rsleep"
                         /\ InQueue(writers, u) <=> at[u] = "wsleep"
  BY <1>1 DEF WaitTypes, QueuesRight
<1>4. ~InQueue(readers, t) /\ ~InQueue(writers, t)
  BY <1>2, <1>3
<1>5. /\ readers' \in Seq(Task) /\ Once(readers')
      /\ \A u \in Task : InQueue(readers', u) <=> at'[u] = "rsleep"
  <2>1. CASE at[t] = "rsusp"
    BY <1>2, <1>3, <1>4, <2>1, AppendRight
  <2>2. CASE at[t] # "rsusp"
    BY <1>2, <1>3, <1>4, <2>2
  <2> QED BY <2>1, <2>2
<1>6. /\ writers' \in Seq(Task) /\ Once(writers')
      /\ \A u \in Task : InQueue(writers', u) <=> at'[u] = "wsleep"
  <2>1. CASE at[t] = "wsusp"
    BY <1>2, <1>3, <1>4, <2>1, AppendRight
  <2>2. CASE at[t] # "wsusp"
    BY <1>2, <1>3, <1>4, <2>2
  <2> QED BY <2>1, <2>2
<1>7. QueuesRight'
  BY <1>5, <1>6 DEF QueuesRight
<1>8. at' \in [Task -> Place]
  BY <1>2, <1>3 DEF Place
<1>9. WaitTypes'
  BY <1>1, <1>2, <1>5, <1>6, <1>8 DEF WaitTypes
<1>10. Holders'
  <2>1. \A u \in Task : /\ at'[u] \in InRead <=> at[u] \in InRead
                        /\ at'[u] \in InWrite <=> at[u] \in InWrite
                        /\ at'[u] = "none" <=> at[u] = "none"
    BY <1>2, <1>3 DEF InRead, InWrite
  <2> QED BY <1>1, <1>2, <2>1 DEF Holders
<1>11. Processor'
  BY <1>1, <1>2, <1>3, Alone DEF Processor
<1>12. Told'
  <2>1. ~Writing
    BY <1>2, NotWriting
  <2>2. PIPE_BUF > 0
    BY DEF PipeAssumption
  <2>3. CASE at[t] = "rsusp"
    <3>1. "R_OK" \notin state
      BY <1>1, <2>1, <2>2, <2>3 DEF Processor, Told, StateOf
    <3> QED BY <1>1, <1>2, <2>1, <2>3, <3>1 DEF Told
  <2>4. CASE at[t] = "wsusp"
    <3>1. "W_OK" \notin state
      <4>1. size = PIPE_BUF /\ state = StateOf(size)
        BY <1>1, <2>1, <2>4 DEF Processor, Told
      <4>2. ~(PIPE_BUF < PIPE_BUF)
        BY DEF PipeAssumption
      <4> QED BY <4>1, <4>2 DEF StateOf
    <3> QED BY <1>1, <1>2, <2>1, <2>4, <3>1 DEF Told
  <2> QED BY <1>2, <2>3, <2>4
<1> QED BY <1>7, <1>9, <1>10, <1>11, <1>12, Zenon DEF WaitInv

\* A signal takes its task out of the queue.
LEMMA SignalKept ==
    ASSUME PipeAssumption, WaitInv, NEW t \in Task, NEW ev, SignalSend(t, ev)
    PROVE  WaitInv'
<1>1. WaitTypes /\ QueuesRight /\ Holders /\ Processor /\ Told
  BY Zenon DEF WaitInv
<1>2. /\ at' = [at EXCEPT ![t] = Resumed(at[t])]
      /\ readers' = Without(readers, t)
      /\ writers' = Without(writers, t)
      /\ UNCHANGED <<size, state, fd, todo, unsaid, busy>>
  BY DEF SignalSend, ring, files, request
<1>3. /\ readers \in Seq(Task) /\ writers \in Seq(Task) /\ at \in [Task -> Place]
      /\ Once(readers) /\ Once(writers)
      /\ \A u \in Task : /\ InQueue(readers, u) <=> at[u] = "rsleep"
                         /\ InQueue(writers, u) <=> at[u] = "wsleep"
  BY <1>1 DEF WaitTypes, QueuesRight
<1>4. /\ readers' \in Seq(Task) /\ Once(readers')
      /\ \A u : InQueue(readers', u) <=> u # t /\ InQueue(readers, u)
      /\ readers = <<>> => readers' = <<>>
  BY <1>2, <1>3, WithoutRight
<1>5. /\ writers' \in Seq(Task) /\ Once(writers')
      /\ \A u : InQueue(writers', u) <=> u # t /\ InQueue(writers, u)
      /\ writers = <<>> => writers' = <<>>
  BY <1>2, <1>3, WithoutRight
<1>6. /\ at' \in [Task -> Place] /\ \A u \in Task \ {t} : at'[u] = at[u]
      /\ at'[t] = Resumed(at[t])
  BY <1>2, <1>3 DEF Resumed, Place
<1>7. QueuesRight'
  BY <1>3, <1>4, <1>5, <1>6 DEF QueuesRight, Resumed
<1>9. WaitTypes'
  BY <1>1, <1>2, <1>4, <1>5, <1>6 DEF WaitTypes
<1>10. Holders'
  <2>1. \A u \in Task : /\ at'[u] \in InRead <=> at[u] \in InRead
                        /\ at'[u] \in InWrite <=> at[u] \in InWrite
                        /\ at'[u] = "none" <=> at[u] = "none"
    BY <1>6 DEF InRead, InWrite, Resumed
  <2> QED BY <1>1, <1>2, <2>1 DEF Holders
<1>11. /\ Processor'
       /\ busy # NoTask => at'[busy] = at[busy]
  <2>1. \A u \in Task : at'[u] \in {"rsusp", "wsusp", "exit"} => at'[u] = at[u]
    BY <1>6 DEF Resumed
  <2>2. busy # NoTask => at'[busy] = at[busy] /\ busy \in Task
    BY <1>1, <1>6 DEF Resumed, Processor, WaitTypes
  <2> QED BY <1>1, <1>2, <2>1, <2>2 DEF Processor
<1>12. Told'
  <2>1. Writing' <=> Writing
    BY <1>2, <1>11 DEF Writing
  <2> QED BY <1>1, <1>2, <1>4, <1>5, <2>1 DEF Told
<1> QED BY <1>7, <1>9, <1>10, <1>11, <1>12, Zenon DEF WaitInv

\* The steps of the kernel.
LEMMA WaitStep ==
    ASSUME PipeAssumption, WaitInv, DataTypes, FlagTypes, NEW t \in Task, Step(t)
    PROVE  WaitInv'
<1>1. WaitTypes /\ QueuesRight /\ Holders /\ Processor /\ Told
  BY Zenon DEF WaitInv
<1>2. /\ size \in 0 .. PIPE_BUF /\ PIPE_BUF \in Nat \ {0} /\ todo \in [Task -> Seq(Byte)]
      /\ busy \in Task \cup {NoTask} /\ NoTask \notin Task
      /\ want[t] \in 0 .. MaxCount /\ MaxCount \in Nat
  BY <1>1 DEF WaitTypes, PipeAssumption, FlagTypes
<1>3. [todo EXCEPT ![t] = <<>>] \in [Task -> Seq(Byte)]
  BY <1>2
<1>4. CASE ReadNothing(t) \/ ReadIntr(t)
  <2>1. /\ busy \in {NoTask, t} /\ at[t] = "read" /\ at' = [at EXCEPT ![t] = "user"]
        /\ busy' = NoTask /\ todo' = [todo EXCEPT ![t] = <<>>]
        /\ UNCHANGED <<size, state, readers, writers, unsaid, fd>>
    BY <1>4 DEF ReadNothing, ReadIntr, Runs, Return, Finish, ring, queues, files
  <2>2. /\ "user" \in Place \ Asleep /\ "user" \notin InRead /\ "user" \notin InWrite
        /\ at[t] \notin Asleep /\ todo' \in [Task -> Seq(Byte)] /\ todo'[t] = <<>>
        /\ \A u \in Task \ {t} : todo'[u] = todo[u]
    BY <1>2, <2>1 DEF Place, Asleep, InRead, InWrite
  <2> QED BY <2>1, <2>2, QuietStep
<1>5. CASE ReadWait(t)
  <2>1. /\ busy \in {NoTask, t} /\ at[t] = "read" /\ at' = [at EXCEPT ![t] = "rsusp"]
        /\ busy' = t /\ todo' = todo /\ size = 0
        /\ UNCHANGED <<size, state, readers, writers, unsaid, fd>>
    BY <1>5 DEF ReadWait, Runs, ring, queues, files, request
  <2>2. /\ "rsusp" \in Place \ Asleep /\ "rsusp" \in InRead /\ "rsusp" \notin InWrite
        /\ at[t] \notin Asleep /\ at[t] \in InRead /\ at[t] \notin InWrite
    BY <2>1 DEF Place, Asleep, InRead, InWrite
  <2>3. (\E i \in Fd : fd[t][i] = "rd") /\ todo'[t] = <<>>
    BY <1>1, <2>1, <2>2 DEF Holders
  <2> QED BY <1>2, <2>1, <2>2, <2>3, QuietStep
<1>6. CASE ReadTake(t)
  <2> DEFINE n == size - (IF want[t] > size THEN size ELSE want[t])
  <2>1. /\ busy \in {NoTask, t} /\ at[t] = "read" /\ size' = n
        /\ Ustate(size', [at EXCEPT ![t] = "user"])
        /\ busy' = NoTask /\ todo' = [todo EXCEPT ![t] = <<>>] /\ fd' = fd
    BY <1>6 DEF ReadTake, Runs, Finish, files
  <2>2. n \in 0 .. PIPE_BUF
    BY <1>2
  <2> HIDE DEF n
  <2>3. Ustate(n, [at EXCEPT ![t] = "user"])
    BY <2>1, Zenon
  <2>4. /\ "user" \in Place \ Asleep
        /\ at[t] \notin Asleep /\ todo' \in [Task -> Seq(Byte)] /\ todo'[t] = <<>>
        /\ \A u \in Task \ {t} : todo'[u] = todo[u]
    BY <1>2, <2>1 DEF Place, Asleep
  <2> QED BY <2>1, <2>2, <2>3, <2>4, UstateStep
<1>7. CASE SuspendIntr(t)
  <2>1. /\ busy \in {NoTask, t} /\ at[t] \in {"rsusp", "wsusp"} /\ at' = [at EXCEPT ![t] = "user"]
        /\ busy' = NoTask /\ todo' = [todo EXCEPT ![t] = <<>>]
        /\ UNCHANGED <<size, state, readers, writers, unsaid, fd>>
    BY <1>7 DEF SuspendIntr, Runs, Return, Finish, ring, queues, files
  <2>2. /\ "user" \in Place \ Asleep /\ "user" \notin InRead /\ "user" \notin InWrite
        /\ at[t] \notin Asleep /\ at[t] # "write"
        /\ todo' \in [Task -> Seq(Byte)] /\ todo'[t] = <<>>
        /\ \A u \in Task \ {t} : todo'[u] = todo[u]
    BY <1>2, <2>1 DEF Place, Asleep, InRead, InWrite
  <2> QED BY <2>1, <2>2, QuietStep
<1>8. CASE WriteNoDelay(t) \/ WriteIntr(t)
  <2>1. /\ busy \in {NoTask, t} /\ at[t] = "write" /\ at' = [at EXCEPT ![t] = "user"]
        /\ busy' = NoTask /\ todo' = [todo EXCEPT ![t] = <<>>] /\ size >= PIPE_BUF
        /\ unsaid' = (unsaid \/ state # StateOf(size))
        /\ UNCHANGED <<size, state, readers, writers, fd>>
    BY <1>8 DEF WriteNoDelay, WriteIntr, Full, Untold, Runs, Return, Finish, ring, queues, files
  <2>2. /\ "user" \in Place \ Asleep /\ "user" \notin InRead /\ "user" \notin InWrite
        /\ at[t] \notin Asleep /\ todo' \in [Task -> Seq(Byte)] /\ todo'[t] = <<>>
        /\ \A u \in Task \ {t} : todo'[u] = todo[u]
    BY <1>2, <2>1 DEF Place, Asleep, InRead, InWrite
  <2>3. Goes(t, "user") /\ QueuesRight'
    BY <1>1, <2>1, <2>2, Moved
  <2>4. Holders' /\ Processor'
    BY <1>1, <2>1, <2>2, <2>3, HoldersKept, ProcessorKept
  <2>5. size = PIPE_BUF
    BY <1>2, <2>1
  <2>6. unsaid' \in BOOLEAN
    BY <2>1
  <2>7. Told'
    BY <1>1, <2>1, <2>5 DEF Told
  <2>8. WaitTypes'
    BY <1>1, <2>1, <2>2, <2>3, <2>6 DEF WaitTypes, Goes
  <2> QED BY <2>3, <2>4, <2>7, <2>8, Zenon DEF WaitInv
<1>9. CASE WriteWait(t)
  <2>1. /\ busy \in {NoTask, t} /\ at[t] = "write" /\ size >= PIPE_BUF
        /\ Ustate(size, [at EXCEPT ![t] = "wsusp"]) /\ size' = size
        /\ busy' = t /\ todo' = todo /\ fd' = fd
    BY <1>9 DEF WriteWait, Full, Runs, ring, files, request
  <2>2. /\ "wsusp" \in Place \ Asleep /\ at[t] \notin Asleep /\ at[t] \in InWrite /\ size = PIPE_BUF
    BY <1>2, <2>1 DEF Place, Asleep, InWrite
  <2>3. \E i \in Fd : fd[t][i] = "wr"
    BY <1>1, <2>2 DEF Holders
  <2> QED BY <1>2, <2>1, <2>2, <2>3, UstateStep
<1>10. CASE WriteChunk(t)
  <2>1. /\ busy \in {NoTask, t} /\ at[t] = "write" /\ todo[t] # <<>> /\ size < PIPE_BUF
        /\ size' = size + Chunk(t)
        /\ todo' = [todo EXCEPT ![t] = SubSeq(todo[t], Chunk(t) + 1, Len(todo[t]))]
        /\ busy' = t
        /\ UNCHANGED <<at, state, readers, writers, fd, unsaid>>
    BY <1>10 DEF WriteChunk, Runs, queues, files
  <2>2. /\ Chunk(t) \in 1 .. Len(todo[t]) /\ size + Chunk(t) <= PIPE_BUF /\ Len(todo[t]) \in Nat
        /\ SubSeq(todo[t], Chunk(t) + 1, Len(todo[t])) \in Seq(Byte)
    BY <1>1, <2>1, ChunkRight
  <2>3. size' \in 0 .. PIPE_BUF
    BY <1>2, <2>1, <2>2
  <2>4. todo' \in [Task -> Seq(Byte)] /\ \A u \in Task \ {t} : todo'[u] = todo[u]
    BY <1>2, <2>1, <2>2
  <2>5. WaitTypes'
    BY <1>1, <2>1, <2>3, <2>4 DEF WaitTypes
  <2>6. QueuesRight'
    BY <1>1, <2>1 DEF QueuesRight
  <2>7. Holders'
    BY <1>1, <2>1, <2>4 DEF Holders, InWrite
  <2>8. Processor'
    BY <1>1, <1>2, <2>1, Alone DEF Processor
  <2>9. Writing' /\ ~unsaid'
    BY <1>1, <1>2, <2>1 DEF Writing, Told
  <2>10. Told'
    BY <1>1, <2>1, <2>9 DEF Told
  <2> QED BY <2>5, <2>6, <2>7, <2>8, <2>10, Zenon DEF WaitInv
<1>11. CASE WriteDone(t)
  <2>1. /\ busy \in {NoTask, t} /\ at[t] = "write"
        /\ Ustate(size, [at EXCEPT ![t] = "user"]) /\ size' = size
        /\ busy' = NoTask /\ todo' = [todo EXCEPT ![t] = <<>>] /\ fd' = fd
    BY <1>11 DEF WriteDone, Runs, Finish, ring, files
  <2>2. /\ "user" \in Place \ Asleep
        /\ at[t] \notin Asleep /\ todo' \in [Task -> Seq(Byte)] /\ todo'[t] = <<>>
        /\ \A u \in Task \ {t} : todo'[u] = todo[u]
    BY <1>2, <2>1 DEF Place, Asleep
  <2> QED BY <1>2, <2>1, <2>2, UstateStep
<1>12. CASE Clean(t)
  <2>1. /\ busy \in {NoTask, t} /\ at[t] \in {"user", "exit"}
        /\ UNCHANGED <<at, busy, todo, size, state, readers, writers, unsaid>>
        /\ \A u \in Task \ {t} : fd'[u] = fd[u]
    BY <1>12 DEF Clean, Runs, ring, queues, request
  <2> QED BY <2>1, FilesStep
<1>13. CASE CleanDone(t)
  <2>1. /\ busy \in {NoTask, t} /\ at[t] = "exit" /\ at' = [at EXCEPT ![t] = "none"]
        /\ busy' = NoTask /\ todo' = todo /\ Free(t) = Fd
        /\ UNCHANGED <<size, state, readers, writers, unsaid, fd>>
    BY <1>13 DEF CleanDone, Runs, ring, queues, files, request
  <2>2. /\ "none" \in Place \ Asleep /\ "none" \notin InRead /\ "none" \notin InWrite
        /\ at[t] \notin Asleep /\ at[t] \notin InWrite
        /\ \A i \in Fd : fd[t][i] = NoFile
    BY <2>1 DEF Place, Asleep, InRead, InWrite, Free
  <2>3. todo'[t] = <<>>
    BY <1>1, <2>1, <2>2 DEF Holders
  <2> QED BY <1>2, <2>1, <2>2, <2>3, QuietStep
<1>14. CASE SignalHandle(t)
  <2>1. /\ busy = NoTask /\ at[t] = "user" /\ todo' = todo
        /\ \/ at' = at /\ busy' = NoTask
           \/ at' = [at EXCEPT ![t] = "exit"] /\ busy' = t
        /\ UNCHANGED <<size, state, readers, writers, unsaid, fd>>
    BY <1>14 DEF SignalHandle, ring, queues, files, request
  <2>2. /\ {"user", "exit"} \subseteq Place \ Asleep
        /\ {"user", "exit"} \cap InRead = {} /\ {"user", "exit"} \cap InWrite = {}
        /\ at[t] \notin Asleep /\ at[t] \notin InWrite
        /\ at = [at EXCEPT ![t] = "user"]
    BY <1>1, <2>1 DEF Place, Asleep, InRead, InWrite, WaitTypes
  <2>3. todo'[t] = <<>>
    BY <1>1, <2>1, <2>2 DEF Holders
  <2>4. CASE at' = at /\ busy' = NoTask
    BY <1>2, <2>1, <2>2, <2>3, <2>4, QuietStep
  <2>5. CASE at' = [at EXCEPT ![t] = "exit"] /\ busy' = t
    BY <1>2, <2>1, <2>2, <2>3, <2>5, QuietStep
  <2> QED BY <2>1, <2>4, <2>5
<1> QED BY <1>4, <1>5, <1>6, <1>7, SuspendKept, <1>8, <1>9, <1>10, <1>11, <1>12, <1>13, <1>14, Zenon DEF Step

\* Nobody has a descriptor of a freed pipe, so nobody is in a call on it.
LEMMA NobodyInside ==
    ASSUME PipeAssumption, RefsInv, Holders, refs.fso = 0
    PROVE  \A t \in Task : at[t] \notin InRead \cup InWrite
<1>1. Used(fd) = All(0)
  BY NoneUsed DEF RefsInv
<1>2. ASSUME NEW e \in End
      PROVE  UsesIn(fd, e) = {}
  <2>1. Cardinality(UsesIn(fd, e)) = 0
    <3>1. Used(fd)[e] = 0
      BY <1>1, AllType
    <3> QED BY <3>1 DEF Used
  <2>2. IsFiniteSet(UsesIn(fd, e))
    BY UsedType
  <2> QED BY <2>1, <2>2, FS_EmptySet
<1>3. ASSUME NEW u \in Task, NEW k \in Fd
      PROVE  fd[u][k] # "rd" /\ fd[u][k] # "wr"
  <2>1. UsesIn(fd, "rd") = {} /\ UsesIn(fd, "wr") = {}
    BY <1>2 DEF End
  <2>2. /\ <<u, k>> \in UsesIn(fd, "rd") <=> fd[u][k] = "rd"
        /\ <<u, k>> \in UsesIn(fd, "wr") <=> fd[u][k] = "wr"
    BY UsesElements
  <2> QED BY <2>1, <2>2
<1> QED BY <1>3 DEF Holders

\* pipe() in a task, while nobody is inside the old object.
LEMMA FreshKept ==
    ASSUME PipeAssumption, RefsInv, WaitInv, refs.fso = 0, NEW t \in Task, at[t] = "user",
           busy = NoTask, Fresh, UNCHANGED <<at, busy, todo>>,
           \A u \in Task \ {t} : fd'[u] = fd[u]
    PROVE  WaitInv'
<1>1. WaitTypes /\ QueuesRight /\ Holders /\ Processor /\ Told
  BY Zenon DEF WaitInv
<1>2. /\ size' = 0 /\ state' = {"W_OK"} /\ readers' = <<>> /\ writers' = <<>> /\ unsaid' = FALSE
      /\ PIPE_BUF \in Nat \ {0}
  BY DEF Fresh, PipeAssumption
<1>3. \A u \in Task : at[u] \notin InRead \cup InWrite
  BY <1>1, NobodyInside
<1>4. WaitTypes'
  <2>1. /\ size' \in 0 .. PIPE_BUF
        /\ state' \subseteq {"R_OK", "W_OK"}
        /\ unsaid' \in BOOLEAN
        /\ readers' \in Seq(Task) /\ writers' \in Seq(Task)
    <3>1. size' \in 0 .. PIPE_BUF
      BY <1>2
    <3>2. state' \subseteq {"R_OK", "W_OK"}
      BY <1>2
    <3>3. unsaid' \in BOOLEAN
      BY <1>2
    <3>4. readers' \in Seq(Task) /\ writers' \in Seq(Task)
      BY <1>2, EmptyQueue, Zenon
    <3> QED BY <3>1, <3>2, <3>3, <3>4
  <2>2. /\ at' \in [Task -> Place] /\ busy' \in Task \cup {NoTask} /\ todo' \in [Task -> Seq(Byte)]
    BY <1>1 DEF WaitTypes
  <2> QED BY <2>1, <2>2, Zenon DEF WaitTypes
<1>5. QueuesRight'
  <2>1. \A u \in Task : at[u] # "rsleep" /\ at[u] # "wsleep"
    BY <1>3 DEF InRead, InWrite
  <2> QED BY <1>2, <2>1, EmptyQueue DEF QueuesRight
<1>6. Holders'
  <2>1. ASSUME NEW u \in Task
        PROVE  /\ at[u] = "none" => \A i \in Fd : fd'[u][i] = NoFile
               /\ todo[u] = <<>>
    <3>1. CASE u = t
      BY <1>1, <1>3, <3>1 DEF Holders
    <3>2. CASE u # t
      BY <1>1, <1>3, <3>2 DEF Holders
    <3> QED BY <3>1, <3>2
  <2> QED BY <1>3, <2>1 DEF Holders
<1>7. Processor'
  BY <1>1, <1>2, <1>3 DEF Processor, InRead, InWrite
<1>8. Told'
  BY <1>2 DEF Told, StateOf
<1> QED BY <1>4, <1>5, <1>6, <1>7, <1>8, Zenon DEF WaitInv

\* fork: the child starts in user mode.
LEMMA ForkKept ==
    ASSUME PipeAssumption, WaitInv, NEW t \in Task, NEW u \in Task, SysFork(t, u)
    PROVE  WaitInv'
<1>1. WaitTypes /\ QueuesRight /\ Holders /\ Processor /\ Told
  BY Zenon DEF WaitInv
<1>2. /\ busy = NoTask /\ at[t] = "user" /\ at[u] = "none"
      /\ at' = [at EXCEPT ![u] = "user"] /\ fd' = [fd EXCEPT ![u] = fd[t]]
      /\ UNCHANGED <<busy, todo, size, state, readers, writers, unsaid>>
  BY DEF SysFork, Enter, ring, queues, request
<1>3. /\ at' \in [Task -> Place] /\ at'[u] = "user"
      /\ \A x \in Task \ {u} : at'[x] = at[x] /\ fd'[x] = fd[x]
  BY <1>1, <1>2 DEF WaitTypes, Place
<1>4. WaitTypes'
  BY <1>1, <1>2, <1>3 DEF WaitTypes
<1>5. QueuesRight'
  BY <1>1, <1>2, <1>3 DEF QueuesRight
<1>6. Holders'
  <2>1. ASSUME NEW x \in Task
        PROVE  /\ at'[x] \in InRead => \E i \in Fd : fd'[x][i] = "rd"
               /\ at'[x] \in InWrite => \E i \in Fd : fd'[x][i] = "wr"
               /\ at'[x] = "none" => \A i \in Fd : fd'[x][i] = NoFile
               /\ at'[x] \notin InWrite => todo'[x] = <<>>
    <3>1. CASE x = u
      BY <1>1, <1>2, <1>3, <3>1 DEF Holders, InRead, InWrite
    <3>2. CASE x # u
      BY <1>1, <1>2, <1>3, <3>2 DEF Holders
    <3> QED BY <3>1, <3>2
  <2> QED BY <2>1 DEF Holders
<1>7. Processor'
  BY <1>1, <1>2, <1>3 DEF Processor
<1>8. Told'
  BY <1>1, <1>2 DEF Told, Writing
<1> QED BY <1>4, <1>5, <1>6, <1>7, <1>8, Zenon DEF WaitInv

\* The calls of programs.
LEMMA WaitCall ==
    ASSUME PipeAssumption, RefsInv, WaitInv, NEW t \in Task, Call(t)
    PROVE  WaitInv'
<1>1. WaitTypes /\ QueuesRight /\ Holders /\ Processor /\ Told
  BY Zenon DEF WaitInv
<1>2. /\ at \in [Task -> Place] /\ todo \in [Task -> Seq(Byte)] /\ "user" \in Place \ Asleep
      /\ fd \in FdType
  BY <1>1 DEF WaitTypes, Place, Asleep, RefsInv
<1>3. CASE SysPipe(t)
  <2>1. /\ busy = NoTask /\ at[t] = "user" /\ refs.fso = 0 /\ Fresh /\ UNCHANGED <<at, busy, todo>>
    BY <1>3 DEF SysPipe, Enter, request
  <2>2. PICK i \in Free(t), j \in Free(t) : fd' = [fd EXCEPT ![t][i] = "rd", ![t][j] = "wr"]
    BY <1>3, Zenon DEF SysPipe
  <2>3. \A u \in Task \ {t} : fd'[u] = fd[u]
    BY <1>2, <2>2 DEF FdType
  <2> QED BY <2>1, <2>3, FreshKept
<1>4. CASE SysPipeFails(t)
  <2>1. /\ busy = NoTask /\ at[t] = "user" /\ refs.fso = 0 /\ UNCHANGED <<at, busy, todo, fd>>
        /\ Fresh \/ UNCHANGED <<size, state, readers, writers, unsaid>>
    BY <1>4 DEF SysPipeFails, Enter, request, ring, queues
  <2>2. CASE Fresh
    BY <2>1, <2>2, FreshKept
  <2>3. CASE UNCHANGED <<size, state, readers, writers, unsaid>>
    BY <2>1, <2>3, FilesStep
  <2> QED BY <2>1, <2>2, <2>3
<1>5. ASSUME NEW i \in Fd, NEW j \in Fd, SysClose(t, i) \/ SysDup(t, i, j)
      PROVE  WaitInv'
  <2>1. /\ busy = NoTask /\ at[t] = "user"
        /\ UNCHANGED <<at, busy, todo, size, state, readers, writers, unsaid>>
    BY <1>5 DEF SysClose, SysDup, Enter, ring, queues, request
  <2>2. fd' = [fd EXCEPT ![t][i] = NoFile] \/ fd' = [fd EXCEPT ![t][j] = fd[t][i]]
    BY <1>5 DEF SysClose, SysDup
  <2>3. \A u \in Task \ {t} : fd'[u] = fd[u]
    BY <1>2, <2>2 DEF FdType
  <2> QED BY <2>1, <2>3, FilesStep
<1>6. ASSUME NEW i \in Fd, NEW b \in BOOLEAN, SysSetFl(t, i, b) \/ WriteBroken(t, i)
      PROVE  WaitInv'
  <2>1. /\ busy = NoTask /\ at[t] = "user"
        /\ UNCHANGED <<at, busy, todo, size, state, readers, writers, unsaid, fd>>
    BY <1>6 DEF SysSetFl, WriteBroken, Enter, ring, queues, files, request
  <2> QED BY <2>1, FilesStep
<1>7. CASE SysExit(t)
  <2>1. /\ busy = NoTask /\ at[t] = "user" /\ at' = [at EXCEPT ![t] = "exit"]
        /\ busy' = t /\ todo' = todo
        /\ UNCHANGED <<size, state, readers, writers, unsaid, fd>>
    BY <1>7 DEF SysExit, Enter, ring, queues, files, request
  <2>2. /\ "exit" \in Place \ Asleep /\ "exit" \notin InRead /\ "exit" \notin InWrite
        /\ at[t] \notin Asleep /\ at[t] \notin InWrite
    BY <2>1 DEF Place, Asleep, InRead, InWrite
  <2>3. todo'[t] = <<>>
    BY <1>1, <2>1, <2>2 DEF Holders
  <2> QED BY <1>2, <2>1, <2>2, <2>3, QuietStep
<1>8. ASSUME NEW u \in Task, SysFork(t, u)
      PROVE  WaitInv'
  BY <1>8, ForkKept
<1>9. ASSUME NEW i \in Fd, NEW n \in 0 .. MaxCount, SysRead(t, i, n)
      PROVE  WaitInv'
  <2>1. /\ busy = NoTask /\ at[t] = "user" /\ at' = [at EXCEPT ![t] = "read"] /\ fd[t][i] = "rd"
        /\ busy' = t /\ todo' = todo
        /\ UNCHANGED <<size, state, readers, writers, unsaid, fd>>
    BY <1>9 DEF SysRead, Enter, ring, queues, files
  <2>2. /\ "read" \in Place \ Asleep /\ "read" \notin InWrite
        /\ at[t] \notin Asleep /\ at[t] \notin InWrite
    BY <2>1 DEF Place, Asleep, InWrite
  <2>3. todo'[t] = <<>>
    BY <1>1, <2>1, <2>2 DEF Holders
  <2> QED BY <1>2, <2>1, <2>2, <2>3, QuietStep
<1>10. ASSUME NEW i \in Fd, NEW n \in 0 .. MaxCount, NEW d \in [1 .. n -> Byte], SysWrite(t, i, d)
       PROVE  WaitInv'
  <2>1. /\ busy = NoTask /\ at[t] = "user" /\ at' = [at EXCEPT ![t] = "write"] /\ fd[t][i] = "wr"
        /\ busy' = t /\ todo' = [todo EXCEPT ![t] = d]
        /\ UNCHANGED <<size, state, readers, writers, unsaid, fd>>
    BY <1>10 DEF SysWrite, Enter, ring, queues, files
  <2>2. /\ "write" \in Place \ Asleep /\ "write" \notin InRead /\ "write" \in InWrite
        /\ at[t] \notin Asleep
    BY <2>1 DEF Place, Asleep, InWrite, InRead
  <2>3. d \in Seq(Byte)
    BY IsASeq
  <2>4. todo' \in [Task -> Seq(Byte)] /\ \A u \in Task \ {t} : todo'[u] = todo[u]
    BY <1>2, <2>1, <2>3
  <2> QED BY <1>2, <2>1, <2>2, <2>4, QuietStep
<1> QED BY <1>3, <1>4, <1>5, <1>6, <1>7, <1>8, <1>9, <1>10, Zenon DEF Call

LEMMA WaitKept ==
    ASSUME PipeAssumption, PipeInv, Next
    PROVE  WaitInv'
<1>1. RefsInv /\ WaitInv /\ FlagTypes /\ DataTypes
  BY Zenon DEF PipeInv
<1>2. PICK t \in Task : Step(t) \/ Call(t) \/ Signal(t) \/ Event(t)
  BY DEF Next
<1>3. CASE Signal(t) \/ Event(t)
  <2>1. PICK ev \in BOOLEAN : SignalSend(t, ev)
    BY <1>1, <1>3 DEF Signal, Event, FlagTypes
  <2> QED BY <1>1, <2>1, SignalKept
<1> QED BY <1>1, <1>2, <1>3, WaitStep, WaitCall

-----------------------------------------------------------------------------
(* The invariant.                                                          *)

LEMMA PipeInit == ASSUME PipeAssumption, Init PROVE PipeInv
<1>1. /\ PIPE_BUF \in Nat \ {0} /\ MaxCount \in Nat /\ NoTask \notin Task /\ 0 \in Index
      /\ size = 0 /\ read_p = 0 /\ write_p = 0 /\ state = {"W_OK"} /\ readers = <<>> /\ writers = <<>>
      /\ fd = [t \in Task |-> [i \in Fd |-> NoFile]]
      /\ at = [t \in Task |-> IF t = Main THEN "user" ELSE "none"]
      /\ busy = NoTask /\ todo = [t \in Task |-> <<>>]
      /\ want = [t \in Task |-> 0] /\ taken = <<>>
  BY DEF PipeAssumption, Init, Index
<1>2. unsaid = FALSE /\ unsaid \in BOOLEAN
  BY Zenon DEF Init
<1>3. WaitTypes
  <2>1. at \in [Task -> Place]
    BY <1>1 DEF Place
  <2>2. todo \in [Task -> Seq(Byte)] /\ readers \in Seq(Task) /\ writers \in Seq(Task)
    BY <1>1
  <2> QED BY <1>1, <1>2, <2>1, <2>2 DEF WaitTypes
<1>4. FlagTypes
  <2>1. ndelay = [e \in End |-> FALSE] /\ nodelay = [t \in Task |-> FALSE]
        /\ pending = [t \in Task |-> FALSE] /\ unseen = [t \in Task |-> FALSE]
    BY Zenon DEF Init
  <2>2. ndelay \in [End -> BOOLEAN] /\ nodelay \in [Task -> BOOLEAN]
        /\ pending \in [Task -> BOOLEAN] /\ unseen \in [Task -> BOOLEAN]
    BY <2>1
  <2>3. want \in [Task -> 0 .. MaxCount]
    BY <1>1
  <2> QED BY <2>2, <2>3, Zenon DEF FlagTypes
<1>5. DataTypes
  <2>1. buf \in [Index -> Byte]
    BY DEF Init
  <2> QED BY <1>1, <2>1 DEF DataTypes
<1>6. QueuesRight
  <2>1. \A t \in Task : at[t] # "rsleep" /\ at[t] # "wsleep"
    BY <1>1
  <2> QED BY <1>1, <2>1, EmptyQueue DEF QueuesRight
<1>7. Holders
  BY <1>1 DEF Holders, InRead, InWrite
<1>8. Processor
  BY <1>1 DEF Processor
<1>9. Told
  BY <1>1, <1>2 DEF Told, StateOf
<1>10. RefsInv
  <2>1. refs = NoRefs /\ fd \in FdType
    BY <1>1 DEF Init, FdType
  <2>2. \A e \in End : UsesIn(fd, e) = {}
    BY <1>1 DEF UsesIn, End, NoFile
  <2>3. Cardinality({}) = 0
    BY FS_EmptySet
  <2>4. Used(fd) = All(0)
    BY <2>2, <2>3 DEF Used, All
  <2>5. refs = Counts(Used(fd)) /\ refs \in RefsType
    BY <2>1, <2>4, NewCounts, AllType, CountsType
  <2> QED BY <2>1, <2>5, RefsAre, RefsForState DEF RefsInv
<1> QED BY <1>3, <1>4, <1>5, <1>6, <1>7, <1>8, <1>9, <1>10, Zenon DEF PipeInv, WaitInv

LEMMA PipeKept == ASSUME PipeAssumption, PipeInv, [Next]_vars PROVE PipeInv'
<1>1. RefsInv /\ WaitInv /\ FlagTypes /\ DataTypes
  BY Zenon DEF PipeInv
<1>2. WaitTypes /\ Holders
  BY <1>1, Zenon DEF WaitInv
<1>3. CASE Next
  BY <1>1, <1>2, <1>3, RefsKept, WaitKept, FlagsKept, DataKept, Zenon DEF PipeInv
<1>4. CASE UNCHANGED vars
  <2>1. /\ UNCHANGED <<buf, read_p, write_p, size, state, readers, writers, refs, ndelay, fd>>
        /\ UNCHANGED <<at, busy, want, todo, nodelay, pending, unseen, taken, unsaid>>
    BY <1>4 DEF vars, ring, queues, files, request, signals
  <2>2. RefsInv'
    BY <1>1, <2>1, RefsSame
  <2>3. FlagTypes' /\ DataTypes'
    BY <1>1, <2>1 DEF FlagTypes, DataTypes
  <2>4. WaitTypes' /\ QueuesRight'
    BY <1>1, <2>1 DEF WaitInv, WaitTypes, QueuesRight
  <2>5. Holders' /\ Processor' /\ Told'
    BY <1>1, <2>1 DEF WaitInv, Holders, Processor, Told, Writing
  <2> QED BY <2>2, <2>3, <2>4, <2>5, Zenon DEF PipeInv, WaitInv
<1> QED BY <1>3, <1>4

LEMMA Correct ==
    ASSUME PipeAssumption, PipeInv
    PROVE  ObjectRight /\ WaitersRight
<1>1. RefsInv /\ WaitInv /\ FlagTypes /\ DataTypes
  BY Zenon DEF PipeInv
<1>2. WaitTypes /\ QueuesRight /\ Holders /\ Processor /\ Told
  BY <1>1, Zenon DEF WaitInv
<1>3. TypeOK /\ RefsRight
  BY <1>1, <1>2, TypeParts, Zenon DEF RefsInv
<1>4. NoUseAfterFree
  <2>1. ASSUME NEW t \in Task, at[t] \notin {"none", "user", "exit"}
        PROVE  at[t] \in InRead \cup InWrite
    BY <1>2, <2>1 DEF WaitTypes, Place, InRead, InWrite
  <2>2. refs.fso \in Nat
    BY <1>1 DEF RefsInv, RefsType
  <2> QED BY <1>1, <1>2, <2>1, <2>2, NobodyInside DEF NoUseAfterFree
<1>5. NoLostWakeup /\ StateFresh
  <2>1. size \in 0 .. PIPE_BUF /\ PIPE_BUF \in Nat \ {0}
    BY <1>2 DEF WaitTypes, PipeAssumption
  <2>2. /\ "R_OK" \notin StateOf(size) => size = 0
        /\ "W_OK" \notin StateOf(size) => size = PIPE_BUF
    BY <2>1 DEF StateOf
  <2> QED BY <1>2, <2>1, <2>2 DEF NoLostWakeup, StateFresh, Told
<1> QED BY <1>2, <1>3, <1>4, <1>5, Zenon DEF ObjectRight, WaitersRight

(* The counts of the pipe and its files are right, and nobody uses the     *)
(* pipe after it was freed: pipe(), close, dup, fork, exit and the calls   *)
(* of pipe.c, in whatever order.                                           *)
THEOREM ObjectCorrect == ASSUME PipeAssumption PROVE Spec => []ObjectRight
<1>1. Init => PipeInv
  BY PipeInit
<1>2. PipeInv /\ [Next]_vars => PipeInv'
  BY PipeKept
<1>3. PipeInv => ObjectRight
  BY Correct
<1> QED BY <1>1, <1>2, <1>3, PTL DEF Spec

(* Who sleeps is in a queue, nobody sleeps past bytes or room, and poll()  *)
(* is told the truth, whatever signals arrive (pipe_ustate).               *)
THEOREM WaitersCorrect == ASSUME PipeAssumption PROVE Spec => []WaitersRight
<1>1. Init => PipeInv
  BY PipeInit
<1>2. PipeInv /\ [Next]_vars => PipeInv'
  BY PipeKept
<1>3. PipeInv => WaitersRight
  BY Correct
<1> QED BY <1>1, <1>2, <1>3, PTL DEF Spec

-----------------------------------------------------------------------------
(* The ring is a stream.                                                   *)

\* The bytes in a ring b of which n, from place p on, are in use.
Inside(b, p, n) == [k \in 1 .. n |-> b[(p + k - 1) % PIPE_BUF]]

\* write_p is where the bytes end.
Filled == write_p = (read_p + size) % PIPE_BUF

LEMMA AddPlace ==
    ASSUME PipeAssumption, NEW p \in Index, NEW n \in 0 .. PIPE_BUF, NEW m \in 0 .. PIPE_BUF,
           n + m <= PIPE_BUF
    PROVE  (((p + n) % PIPE_BUF) + m) % PIPE_BUF = (p + (n + m)) % PIPE_BUF
<1> DEFINE q == (p + n) % PIPE_BUF
           x == (q + m) % PIPE_BUF
           y == (p + (n + m)) % PIPE_BUF
<1>1. PIPE_BUF \in Nat \ {0} /\ p \in 0 .. PIPE_BUF - 1 /\ n + m \in 0 .. PIPE_BUF
  BY DEF PipeAssumption, Index
<1>2. q \in Index /\ q = IF p + n < PIPE_BUF THEN p + n ELSE p + n - PIPE_BUF
  BY PlaceOf
<1> HIDE DEF q
<1>3. x = IF q + m < PIPE_BUF THEN q + m ELSE q + m - PIPE_BUF
  BY <1>2, PlaceOf
<1>4. y = IF p + (n + m) < PIPE_BUF THEN p + (n + m) ELSE p + (n + m) - PIPE_BUF
  BY <1>1, PlaceOf
<1> HIDE DEF x, y
<1>5. x = y
  BY <1>1, <1>2, <1>3, <1>4
<1> QED BY <1>5 DEF x, y, q

\* The free places follow the used ones.
LEMMA FreePlace ==
    ASSUME PipeAssumption, NEW p \in Index, NEW n \in 0 .. PIPE_BUF, NEW k \in 0 .. n - 1
    PROVE  (((p + n) % PIPE_BUF) + (PIPE_BUF - n + k)) % PIPE_BUF = (p + k) % PIPE_BUF
<1> DEFINE q == (p + n) % PIPE_BUF
           m == PIPE_BUF - n + k
           x == (q + m) % PIPE_BUF
           y == (p + k) % PIPE_BUF
<1>1. PIPE_BUF \in Nat \ {0} /\ p \in 0 .. PIPE_BUF - 1 /\ m \in 0 .. PIPE_BUF /\ k \in 0 .. PIPE_BUF
      /\ m \in 0 .. PIPE_BUF - 1
  BY DEF PipeAssumption, Index
<1>2. q \in Index /\ q = IF p + n < PIPE_BUF THEN p + n ELSE p + n - PIPE_BUF
  BY PlaceOf
<1> HIDE DEF q
<1>3. m = PIPE_BUF - n + k
  OBVIOUS
<1> HIDE DEF m
<1>4. x = IF q + m < PIPE_BUF THEN q + m ELSE q + m - PIPE_BUF
  BY <1>1, <1>2, PlaceOf
<1>5. y = IF p + k < PIPE_BUF THEN p + k ELSE p + k - PIPE_BUF
  BY <1>1, PlaceOf
<1> HIDE DEF x, y
<1>6. x = y
  BY <1>1, <1>2, <1>3, <1>4, <1>5
<1> QED BY <1>6 DEF x, y, q, m

LEMMA InsideRight ==
    ASSUME PipeAssumption, NEW b \in [Index -> Byte], NEW p \in Index, NEW n \in 0 .. PIPE_BUF
    PROVE  /\ Inside(b, p, n) \in Seq(Byte) /\ Len(Inside(b, p, n)) = n
           /\ \A k \in 1 .. n : Inside(b, p, n)[k] = b[(p + (k - 1)) % PIPE_BUF]
<1>1. ASSUME NEW k \in 1 .. n
      PROVE  /\ Inside(b, p, n)[k] = b[(p + (k - 1)) % PIPE_BUF]
             /\ Inside(b, p, n)[k] \in Byte
  <2>1. p + k - 1 = p + (k - 1) /\ k - 1 \in 0 .. PIPE_BUF
    BY DEF PipeAssumption, Index
  <2>2. (p + k - 1) % PIPE_BUF = (p + (k - 1)) % PIPE_BUF
    BY <2>1, Zenon
  <2>3. Inside(b, p, n)[k] = b[(p + k - 1) % PIPE_BUF]
    BY Zenon DEF Inside
  <2>4. (p + (k - 1)) % PIPE_BUF \in Index
    BY <2>1, PlaceOf
  <2>5. b[(p + (k - 1)) % PIPE_BUF] \in Byte
    BY <2>4, Zenon
  <2> QED BY <2>2, <2>3, <2>5, Zenon
<1>2. Inside(b, p, n) = [k \in 1 .. n |-> Inside(b, p, n)[k]]
  BY Zenon DEF Inside
<1>3. Inside(b, p, n) \in [1 .. n -> Byte] /\ n \in Nat
  BY <1>1, <1>2 DEF PipeAssumption
<1>4. Inside(b, p, n) \in Seq(Byte) /\ Len(Inside(b, p, n)) = n
  BY <1>3, IsASeq, LenProperties
<1> QED BY <1>1, <1>4

\* Taking the first c bytes.
LEMMA TakenInside ==
    ASSUME PipeAssumption, NEW b \in [Index -> Byte], NEW p \in Index, NEW n \in 0 .. PIPE_BUF,
           NEW c \in 0 .. n
    PROVE  Inside(b, (p + c) % PIPE_BUF, n - c) = SubSeq(Inside(b, p, n), c + 1, n)
<1> DEFINE q == (p + c) % PIPE_BUF
           s == Inside(b, p, n)
           r == Inside(b, q, n - c)
<1>1. PIPE_BUF \in Nat \ {0} /\ c \in 0 .. PIPE_BUF /\ n - c \in 0 .. PIPE_BUF
  BY DEF PipeAssumption
<1>2. q \in Index
  BY <1>1, PlaceOf
<1>3. /\ s \in Seq(Byte) /\ Len(s) = n
      /\ \A k \in 1 .. n : s[k] = b[(p + (k - 1)) % PIPE_BUF]
  BY InsideRight
<1>4. /\ r \in Seq(Byte) /\ Len(r) = n - c
      /\ \A k \in 1 .. n - c : r[k] = b[(q + (k - 1)) % PIPE_BUF]
  BY <1>1, <1>2, InsideRight
<1>5. ASSUME NEW k \in 1 .. n - c
      PROVE  r[k] = s[c + 1 + k - 1]
  <2>1. k - 1 \in 0 .. PIPE_BUF /\ c + (k - 1) <= PIPE_BUF /\ c + 1 + k - 1 \in 1 .. n
        /\ c + (k - 1) = (c + 1 + k - 1) - 1
    BY <1>1
  <2>2. (q + (k - 1)) % PIPE_BUF = (p + (c + (k - 1))) % PIPE_BUF
    BY <1>1, <2>1, AddPlace
  <2>3. s[c + 1 + k - 1] = b[(p + ((c + 1 + k - 1) - 1)) % PIPE_BUF]
    BY <1>3, <2>1, Zenon
  <2> QED BY <1>4, <2>1, <2>2, <2>3, Zenon
<1> HIDE DEF q, r, s
<1>6. \A i \in c + 1 .. n : s[i] \in Byte
  BY <1>3
<1>7. /\ SubSeq(s, c + 1, n) \in Seq(Byte)
      /\ Len(SubSeq(s, c + 1, n)) = n - c
      /\ \A k \in 1 .. n - c : SubSeq(s, c + 1, n)[k] = s[c + 1 + k - 1]
  <2>1. c + 1 \in Int /\ n \in Int /\ n - (c + 1) + 1 = n - c
    BY <1>1
  <2>2. /\ SubSeq(s, c + 1, n) \in Seq(Byte)
        /\ Len(SubSeq(s, c + 1, n)) = IF c + 1 <= n THEN n - (c + 1) + 1 ELSE 0
        /\ \A i \in 1 .. n - (c + 1) + 1 : SubSeq(s, c + 1, n)[i] = s[c + 1 + i - 1]
    BY <1>6, <2>1, SubSeqProperties
  <2> QED BY <1>1, <2>1, <2>2
<1>8. r = SubSeq(s, c + 1, n)
  BY <1>1, <1>4, <1>5, <1>7, SeqEqual
<1> QED BY <1>8 DEF q, r, s

LEMMA FirstInside ==
    ASSUME PipeAssumption, DataTypes, size \in 0 .. PIPE_BUF, NEW c \in 0 .. size
    PROVE  CopyOut(c) = SubSeq(Inside(buf, read_p, size), 1, c)
<1> DEFINE s == Inside(buf, read_p, size)
           o == CopyOut(c)
<1>1. PIPE_BUF \in Nat \ {0} /\ c \in 0 .. PIPE_BUF /\ buf \in [Index -> Byte] /\ read_p \in Index
  BY DEF PipeAssumption, DataTypes
<1>2. /\ s \in Seq(Byte) /\ Len(s) = size
      /\ \A k \in 1 .. size : s[k] = buf[(read_p + (k - 1)) % PIPE_BUF]
  BY <1>1, InsideRight
<1>3. /\ o \in [1 .. c -> Byte]
      /\ \A k \in 1 .. c : o[k] = buf[(read_p + (k - 1)) % PIPE_BUF]
  BY <1>1, CopiedOut
<1>4. \A k \in 1 .. c : o[k] = s[k]
  <2>1. \A k \in 1 .. c : k \in 1 .. size
    OBVIOUS
  <2> QED BY <1>2, <1>3, <2>1, Zenon
<1> HIDE DEF s, o
<1>5. o \in Seq(Byte) /\ Len(o) = c
  BY <1>1, <1>3, IsASeq, LenProperties
<1>6. \A i \in 1 .. c : s[i] \in Byte
  BY <1>2
<1>7. /\ SubSeq(s, 1, c) \in Seq(Byte) /\ Len(SubSeq(s, 1, c)) = c
      /\ \A k \in 1 .. c : SubSeq(s, 1, c)[k] = s[k]
  BY <1>1, <1>6, SubSeqProperties
<1>8. o = SubSeq(s, 1, c)
  BY <1>4, <1>5, <1>7, SeqEqual
<1> QED BY <1>8 DEF s, o

\* Adding d at the end.
LEMMA AddedInside ==
    ASSUME PipeAssumption, DataTypes, Filled, size \in 0 .. PIPE_BUF,
           NEW d \in Seq(Byte), size + Len(d) <= PIPE_BUF
    PROVE  Inside(CopyIn(d), read_p, size + Len(d)) = Inside(buf, read_p, size) \o d
<1> DEFINE s == Inside(buf, read_p, size)
           c == CopyIn(d)
           l == Len(d)
           r == Inside(c, read_p, size + l)
<1>1. PIPE_BUF \in Nat \ {0} /\ l \in 0 .. PIPE_BUF /\ size + l \in 0 .. PIPE_BUF /\ l <= PIPE_BUF
      /\ buf \in [Index -> Byte] /\ read_p \in Index
  BY DEF PipeAssumption, DataTypes
<1>2. /\ s \in Seq(Byte) /\ Len(s) = size
      /\ \A k \in 1 .. size : s[k] = buf[(read_p + (k - 1)) % PIPE_BUF]
  BY <1>1, InsideRight
<1>3. /\ c \in [Index -> Byte]
      /\ \A k \in 1 .. l : c[(write_p + (k - 1)) % PIPE_BUF] = d[k]
      /\ \A n \in l .. PIPE_BUF - 1 : c[(write_p + n) % PIPE_BUF] = buf[(write_p + n) % PIPE_BUF]
  BY <1>1, CopiedIn
<1>4. /\ r \in Seq(Byte) /\ Len(r) = size + l
      /\ \A k \in 1 .. size + l : r[k] = c[(read_p + (k - 1)) % PIPE_BUF]
  BY <1>1, <1>3, InsideRight
<1> HIDE DEF c, l, s, r
<1>5. ASSUME NEW k \in 1 .. size
      PROVE  r[k] = s[k]
  <2>1. k - 1 \in 0 .. size - 1 /\ k \in 1 .. size + l
        /\ PIPE_BUF - size + (k - 1) \in l .. PIPE_BUF - 1
    BY <1>1
  <2>2. (write_p + (PIPE_BUF - size + (k - 1))) % PIPE_BUF = (read_p + (k - 1)) % PIPE_BUF
    BY <1>1, <2>1, FreePlace, Zenon DEF Filled
  <2>3. c[(read_p + (k - 1)) % PIPE_BUF] = buf[(read_p + (k - 1)) % PIPE_BUF]
    BY <1>3, <2>1, <2>2, Zenon
  <2> QED BY <1>2, <1>4, <2>1, <2>3, Zenon
<1>6. ASSUME NEW k \in 1 .. l
      PROVE  r[size + k] = d[k]
  <2>1. PICK j \in 1 .. size + l : j = size + k
    BY <1>1
  <2>2. k - 1 \in 0 .. PIPE_BUF /\ size + (k - 1) <= PIPE_BUF /\ size + (k - 1) = j - 1
    BY <1>1, <2>1
  <2>3. (write_p + (k - 1)) % PIPE_BUF = (read_p + (size + (k - 1))) % PIPE_BUF
    BY <1>1, <2>2, AddPlace, Zenon DEF Filled
  <2>4. r[j] = c[(read_p + (j - 1)) % PIPE_BUF]
    BY <1>4, Zenon
  <2>5. (write_p + (k - 1)) % PIPE_BUF = (read_p + (j - 1)) % PIPE_BUF
    BY <2>2, <2>3, Zenon
  <2>6. r[j] = d[k]
    BY <1>3, <2>4, <2>5, Zenon
  <2> QED BY <2>1, <2>6
<1>7. /\ s \o d \in Seq(Byte) /\ Len(s \o d) = size + l
      /\ \A i \in 1 .. size + l : (s \o d)[i] = IF i <= size THEN s[i] ELSE d[i - size]
  BY <1>2, ConcatProperties DEF l
<1>8. ASSUME NEW i \in 1 .. size + l
      PROVE  r[i] = (s \o d)[i]
  <2>1. CASE i <= size
    BY <1>5, <1>7, <2>1
  <2>2. CASE ~(i <= size)
    <3>1. i - size \in 1 .. l /\ size + (i - size) = i
      BY <1>1, <2>2
    <3> QED BY <1>6, <1>7, <2>2, <3>1
  <2> QED BY <2>1, <2>2
<1>9. r = s \o d
  BY <1>4, <1>7, <1>8, SeqEqual
<1> QED BY <1>9 DEF c, l, s, r

LEMMA ContentsInside ==
    /\ Contents = Inside(buf, read_p, size)
    /\ Contents' = Inside(buf', read_p', size')
  BY DEF Contents, Inside

\* A step that moves no byte takes nothing.
LEMMA NothingMoved ==
    ASSUME PipeAssumption, DataTypes, Filled, size \in 0 .. PIPE_BUF,
           UNCHANGED <<buf, read_p, write_p, size>>, todo' = todo, taken' = <<>>
    PROVE  Filled' /\ Stream!Take
<1> DEFINE s == Inside(buf, read_p, size)
<1>1. s \in Seq(Byte) /\ Len(s) = size
  BY InsideRight DEF DataTypes
<1> HIDE DEF s
<1>2. SubSeq(s, 1, 0) = <<>> /\ SubSeq(s, 0 + 1, Len(s)) = s
  BY <1>1, SubSeqEmpty, SubSeqFull
<1>3. Contents = s /\ Contents' = s
  BY ContentsInside, Zenon DEF s
<1>4. 0 \in 0 .. Len(s)
  BY <1>1
<1>5. \E n \in 0 .. Len(Contents) :
        taken' = SubSeq(Contents, 1, n) /\ Contents' = SubSeq(Contents, n + 1, Len(Contents))
  BY <1>2, <1>3, <1>4, Zenon
<1>6. Stream!Take
  BY <1>5, Zenon DEF Stream!Take
<1>7. Filled'
  BY Zenon DEF Filled
<1> QED BY <1>6, <1>7

\* Bytes only move in the two loops.
LEMMA TakeIsTake ==
    ASSUME PipeAssumption, DataTypes, FlagTypes, WaitTypes, Holders, Filled,
           NEW t \in Task, ReadTake(t)
    PROVE  Filled' /\ Stream!Take
<1> DEFINE c == IF want[t] > size THEN size ELSE want[t]
           s == Inside(buf, read_p, size)
<1>1. /\ taken' = CopyOut(c) /\ read_p' = (read_p + c) % PIPE_BUF /\ size' = size - c
      /\ buf' = buf /\ write_p' = write_p /\ at[t] = "read"
      /\ todo' = [todo EXCEPT ![t] = <<>>]
  BY DEF ReadTake, Finish, Runs
<1>2. c \in 0 .. size /\ size \in 0 .. PIPE_BUF /\ PIPE_BUF \in Nat \ {0}
      /\ c \in 0 .. PIPE_BUF /\ size - c \in 0 .. PIPE_BUF /\ c + (size - c) = size
      /\ c + (size - c) <= PIPE_BUF
  BY DEF WaitTypes, FlagTypes, PipeAssumption
<1> HIDE DEF c
<1>3. todo' = todo
  <2>1. todo[t] = <<>> /\ todo \in [Task -> Seq(Byte)]
    BY <1>1 DEF Holders, InWrite, WaitTypes
  <2> QED BY <1>1, <2>1
<1>4. buf \in [Index -> Byte] /\ read_p \in Index
  BY DEF DataTypes
<1>5. Filled'
  <2>1. (((read_p + c) % PIPE_BUF) + (size - c)) % PIPE_BUF = (read_p + (c + (size - c))) % PIPE_BUF
    BY <1>2, <1>4, AddPlace
  <2>2. (read_p' + size') % PIPE_BUF = (read_p + size) % PIPE_BUF
    BY <1>1, <1>2, <2>1, Zenon
  <2> QED BY <1>1, <2>2, Zenon DEF Filled
<1>6. s \in Seq(Byte) /\ Len(s) = size
  BY <1>2, <1>4, InsideRight
<1>7. Contents = s
  BY ContentsInside, Zenon
<1>8. taken' = SubSeq(Contents, 1, c)
  BY <1>1, <1>2, <1>7, FirstInside, Zenon
<1>9. Contents' = SubSeq(Contents, c + 1, Len(Contents))
  <2>1. Inside(buf, (read_p + c) % PIPE_BUF, size - c) = SubSeq(s, c + 1, size)
    BY <1>2, <1>4, TakenInside
  <2> QED BY <1>1, <1>6, <1>7, <2>1, ContentsInside, Zenon
<1>10. c \in 0 .. Len(Contents)
  BY <1>2, <1>6, <1>7, Zenon
<1>11. Stream!Take
  BY <1>3, <1>8, <1>9, <1>10, Zenon DEF Stream!Take
<1> QED BY <1>5, <1>11

LEMMA ChunkIsPut ==
    ASSUME PipeAssumption, DataTypes, WaitTypes, Filled, NEW t \in Task, WriteChunk(t)
    PROVE  Filled' /\ Stream!Put(t)
<1> DEFINE d == SubSeq(todo[t], 1, Chunk(t))
           s == Inside(buf, read_p, size)
<1>1. /\ todo[t] # <<>> /\ size < PIPE_BUF
      /\ buf' = CopyIn(d) /\ write_p' = (write_p + Chunk(t)) % PIPE_BUF
      /\ size' = size + Chunk(t)
      /\ todo' = [todo EXCEPT ![t] = SubSeq(todo[t], Chunk(t) + 1, Len(todo[t]))]
      /\ taken' = <<>> /\ read_p' = read_p
  BY DEF WriteChunk
<1>2. /\ Chunk(t) \in 1 .. Len(todo[t]) /\ size + Chunk(t) <= PIPE_BUF /\ Len(todo[t]) \in Nat
      /\ d \in Seq(Byte) /\ Len(d) = Chunk(t)
  BY <1>1, ChunkRight
<1>3. size \in 0 .. PIPE_BUF /\ PIPE_BUF \in Nat \ {0} /\ Chunk(t) \in 0 .. PIPE_BUF
  BY <1>2 DEF WaitTypes, PipeAssumption
<1>4. buf \in [Index -> Byte] /\ read_p \in Index
  BY DEF DataTypes
<1>5. Filled'
  <2>1. (((read_p + size) % PIPE_BUF) + Chunk(t)) % PIPE_BUF = (read_p + (size + Chunk(t))) % PIPE_BUF
    BY <1>2, <1>3, <1>4, AddPlace
  <2> QED BY <1>1, <2>1, Zenon DEF Filled
<1>6. s \in Seq(Byte) /\ Len(s) = size /\ Contents = s
  BY <1>3, <1>4, InsideRight, ContentsInside
<1> HIDE DEF d, s
<1>7. Contents' = Contents \o d
  <2>1. size + Len(d) <= PIPE_BUF
    BY <1>2
  <2>2. Inside(CopyIn(d), read_p, size + Len(d)) = s \o d
    BY <1>2, <1>3, <2>1, AddedInside, Zenon DEF s
  <2> QED BY <1>1, <1>2, <1>6, <2>2, ContentsInside, Zenon
<1>8. Len(Contents) + Chunk(t) <= PIPE_BUF
  BY <1>2, <1>6, Zenon
<1>9. Stream!Put(t)
  BY <1>1, <1>2, <1>7, <1>8, Zenon DEF Stream!Put, d
<1> QED BY <1>5, <1>9

\* A new object is an empty stream.
LEMMA FreshIsReset ==
    ASSUME PipeAssumption, DataTypes, WaitTypes, Fresh, todo' = todo, taken' = <<>>
    PROVE  Filled' /\ Stream!Reset
<1>1. read_p' = 0 /\ write_p' = 0 /\ size' = 0 /\ buf' = buf
  BY DEF Fresh
<1>2. 0 \in Index /\ 0 \in 0 .. PIPE_BUF /\ PIPE_BUF \in Nat \ {0}
  BY DEF PipeAssumption, Index
<1>3. Filled'
  <2>1. (0 + 0) % PIPE_BUF = 0
    BY <1>2
  <2> QED BY <1>1, <2>1, Zenon DEF Filled
<1>4. Inside(buf, 0, 0) \in Seq(Byte) /\ Len(Inside(buf, 0, 0)) = 0
  BY <1>2, InsideRight DEF DataTypes
<1>5. Inside(buf, 0, 0) = <<>>
  BY <1>4, EmptySeq
<1>6. Contents' = <<>>
  BY <1>1, <1>5, ContentsInside, Zenon
<1> QED BY <1>3, <1>6, Zenon DEF Stream!Reset

\* The kernel's steps.
LEMMA StepIsStream ==
    ASSUME PipeAssumption, PipeInv, Filled, NEW t \in Task, Step(t)
    PROVE  Filled' /\ Stream!Next
<1>1. WaitTypes /\ Holders /\ FlagTypes /\ DataTypes
  BY Zenon DEF PipeInv, WaitInv
<1>2. size \in 0 .. PIPE_BUF /\ todo \in [Task -> Seq(Byte)]
  BY <1>1 DEF WaitTypes
<1>3. CASE ReadTake(t)
  BY <1>1, <1>3, TakeIsTake, Zenon DEF Stream!Next
<1>4. CASE WriteChunk(t)
  BY <1>1, <1>4, ChunkIsPut, Zenon DEF Stream!Next
<1>5. CASE \/ ReadNothing(t) \/ ReadIntr(t) \/ SuspendIntr(t)
           \/ WriteNoDelay(t) \/ WriteIntr(t) \/ WriteDone(t)
  <2>1. /\ UNCHANGED <<buf, read_p, write_p, size>> /\ taken' = <<>>
        /\ todo' = [todo EXCEPT ![t] = <<>>]
    <3>1. CASE ReadNothing(t) \/ ReadIntr(t) \/ SuspendIntr(t)
      BY <3>1 DEF ReadNothing, ReadIntr, SuspendIntr, Return, Finish, ring
    <3>2. CASE WriteNoDelay(t) \/ WriteIntr(t) \/ WriteDone(t)
      BY <3>2 DEF WriteNoDelay, WriteIntr, WriteDone, Return, Finish, ring
    <3> QED BY <1>5, <3>1, <3>2
  <2>2. Contents' = Contents
    BY <2>1, ContentsInside, Zenon
  <2>3. Filled'
    BY <2>1, Zenon DEF Filled
  <2>4. Stream!GiveUp(t)
    BY <2>1, <2>2, Zenon DEF Stream!GiveUp
  <2> QED BY <2>3, <2>4, Zenon DEF Stream!Next
<1>6. CASE \/ ReadWait(t) \/ Suspend(t) \/ WriteWait(t)
           \/ Clean(t) \/ CleanDone(t) \/ SignalHandle(t)
  <2>1. UNCHANGED <<buf, read_p, write_p, size>> /\ taken' = <<>> /\ todo' = todo
    <3>1. CASE ReadWait(t) \/ Suspend(t) \/ WriteWait(t)
      BY <3>1 DEF ReadWait, Suspend, WriteWait, ring, request
    <3>2. CASE Clean(t) \/ CleanDone(t) \/ SignalHandle(t)
      BY <3>2 DEF Clean, CleanDone, SignalHandle, ring, request
    <3> QED BY <1>6, <3>1, <3>2
  <2> QED BY <1>1, <1>2, <2>1, NothingMoved, Zenon DEF Stream!Next
<1> QED BY <1>3, <1>4, <1>5, <1>6, Zenon DEF Step

\* The programs' calls.
LEMMA CallIsStream ==
    ASSUME PipeAssumption, PipeInv, Filled, NEW t \in Task, Call(t)
    PROVE  Filled' /\ Stream!Next
<1>1. WaitTypes /\ Holders /\ FlagTypes /\ DataTypes
  BY Zenon DEF PipeInv, WaitInv
<1>2. size \in 0 .. PIPE_BUF /\ todo \in [Task -> Seq(Byte)]
  BY <1>1 DEF WaitTypes
<1>3. taken' = <<>>
  BY CallCopiesNothing
<1>4. CASE Fresh /\ UNCHANGED todo
  BY <1>1, <1>3, <1>4, FreshIsReset, Zenon DEF Stream!Next
<1>5. CASE UNCHANGED ring
  <2>1. UNCHANGED <<buf, read_p, write_p, size>>
    BY <1>5 DEF ring
  <2>2. CASE todo' = todo
    BY <1>1, <1>2, <1>3, <2>1, <2>2, NothingMoved, Zenon DEF Stream!Next
  <2>3. CASE todo' # todo
    <3>1. ASSUME NEW i \in Fd, NEW j \in Fd, SysClose(t, i) \/ SysDup(t, i, j)
          PROVE  todo' = todo
      BY <3>1 DEF SysClose, SysDup, request
    <3>2. ASSUME NEW i \in Fd, NEW b \in BOOLEAN, SysSetFl(t, i, b) \/ WriteBroken(t, i)
          PROVE  todo' = todo
      BY <3>2 DEF SysSetFl, WriteBroken, request
    <3>3. ASSUME NEW u \in Task, SysFork(t, u) \/ SysExit(t) \/ SysPipe(t) \/ SysPipeFails(t)
          PROVE  todo' = todo
      BY <3>3 DEF SysFork, SysExit, SysPipe, SysPipeFails, request
    <3>4. ASSUME NEW i \in Fd, NEW n, SysRead(t, i, n)
          PROVE  todo' = todo
      BY <3>4 DEF SysRead
    <3>5. PICK i \in Fd, n \in 0 .. MaxCount : \E d \in [1 .. n -> Byte] : SysWrite(t, i, d)
      <4>1. PICK u \in Task : SysExit(t) \/ SysPipe(t) \/ SysPipeFails(t) \/ SysFork(t, u) \/ \E i \in Fd :
          \/ SysClose(t, i) \/ WriteBroken(t, i)
          \/ \E j \in Fd : SysDup(t, i, j)
          \/ \E b \in BOOLEAN : SysSetFl(t, i, b)
          \/ \E n \in 0 .. MaxCount :
              \/ SysRead(t, i, n)
              \/ \E d \in [1 .. n -> Byte] : SysWrite(t, i, d)
        BY Zenon DEF Call
      <4> QED BY <2>3, <3>1, <3>2, <3>3, <3>4, <4>1, Zenon
    <3>6. PICK d \in [1 .. n -> Byte] : at[t] = "user" /\ todo' = [todo EXCEPT ![t] = d]
      BY <3>5 DEF SysWrite, Enter
    <3>7. todo[t] = <<>>
      BY <1>1, <3>6 DEF Holders, InWrite
    <3>8. Contents' = Contents
      BY <2>1, ContentsInside, Zenon
    <3>9. Stream!Request(t)
      BY <1>3, <3>6, <3>7, <3>8, Zenon DEF Stream!Request
    <3>10. Filled'
      BY <2>1, Zenon DEF Filled
    <3> QED BY <3>9, <3>10, Zenon DEF Stream!Next
  <2> QED BY <2>2, <2>3
<1> QED BY <1>4, <1>5, CallCopiesNothing

LEMMA NextIsStream ==
    ASSUME PipeAssumption, PipeInv, Filled, [Next]_vars
    PROVE  Filled' /\ [Stream!Next]_(Stream!vars)
<1>1. WaitTypes /\ Holders /\ FlagTypes /\ DataTypes
  BY Zenon DEF PipeInv, WaitInv
<1>2. CASE UNCHANGED vars
  <2>1. UNCHANGED <<buf, read_p, write_p, size, todo, taken>>
    BY <1>2 DEF vars, ring, request
  <2>2. Contents' = Contents
    BY <2>1, ContentsInside, Zenon
  <2>3. UNCHANGED Stream!vars
    BY <2>1, <2>2 DEF Stream!vars
  <2>4. Filled'
    BY <2>1, Zenon DEF Filled
  <2> QED BY <2>3, <2>4
<1>3. CASE Next
  <2>1. PICK t \in Task : Step(t) \/ Call(t) \/ Signal(t) \/ Event(t)
    BY <1>3 DEF Next
  <2>2. CASE Signal(t) \/ Event(t)
    <3>1. PICK ev \in BOOLEAN : SignalSend(t, ev)
      BY <1>1, <2>2 DEF Signal, Event, FlagTypes
    <3>2. UNCHANGED <<buf, read_p, write_p, size>> /\ taken' = <<>> /\ todo' = todo
      BY <3>1 DEF SignalSend, ring, request
    <3>3. size \in 0 .. PIPE_BUF
      BY <1>1 DEF WaitTypes
    <3> QED BY <1>1, <3>2, <3>3, NothingMoved, Zenon DEF Stream!Next
  <2> QED BY <2>1, <2>2, StepIsStream, CallIsStream
<1> QED BY <1>2, <1>3

LEMMA InitIsStream ==
    ASSUME PipeAssumption, Init
    PROVE  Filled /\ Stream!Init
<1>1. read_p = 0 /\ write_p = 0 /\ size = 0 /\ taken = <<>> /\ todo = [t \in Task |-> <<>>]
  BY DEF Init
<1>2. 0 \in Index /\ 0 \in 0 .. PIPE_BUF /\ PIPE_BUF \in Nat \ {0}
  BY DEF PipeAssumption, Index
<1>3. buf \in [Index -> Byte]
  BY PipeInit, Zenon DEF PipeInv, DataTypes
<1>4. Filled
  <2>1. (0 + 0) % PIPE_BUF = 0
    BY <1>2
  <2> QED BY <1>1, <2>1, Zenon DEF Filled
<1>5. Inside(buf, 0, 0) = <<>>
  BY <1>2, <1>3, InsideRight, EmptySeq
<1>6. Contents = <<>>
  BY <1>1, <1>5, ContentsInside, Zenon
<1> QED BY <1>1, <1>4, <1>6, Zenon DEF Stream!Init

(* The pipe implements the stream of bytes: what is read is what was       *)
(* written and in that order, across the wrap of the ring, partial writes, *)
(* interrupted calls, several readers and writers, and pipes that are      *)
(* closed and made anew (pipe_read and pipe_write).                        *)
THEOREM StreamImplemented == ASSUME PipeAssumption PROVE Spec => IsStream
<1>1. Init => PipeInv /\ Filled /\ Stream!Init
  BY PipeInit, InitIsStream
<1>2. PipeInv /\ Filled /\ [Next]_vars => PipeInv' /\ Filled' /\ [Stream!Next]_(Stream!vars)
  BY PipeKept, NextIsStream
<1> QED BY <1>1, <1>2, PTL DEF Spec, IsStream, Stream!Spec
=============================================================================
