----------------------------- MODULE TaskProofs -----------------------------
(***************************************************************************)
(* The invariants of the process core, proved for every size of the task   *)
(* table, every number of priorities and every set of wait queues.         *)
(***************************************************************************)
EXTENDS Task, FiniteSetTheorems, SequenceTheorems, TLAPS

-----------------------------------------------------------------------------
(* Facts about the queues.                                                 *)

\* Slots are finitely many, so sets of them can be counted.
LEMMA SlotFinite == IsFiniteSet(Slot) /\ \A S \in SUBSET Slot : IsFiniteSet(S)
<1>1. IsFiniteSet(Slot)
  BY FS_Interval, TaskAssumption DEF Slot
<1>2. QED
  BY <1>1, FS_Subset

\* Adding a slot to a set of slots, and taking one out, counts by one.
LEMMA CountSlots ==
    ASSUME NEW S \in SUBSET Slot, NEW t \in Slot
    PROVE  /\ Cardinality(S) \in Nat
           /\ t \in S => Cardinality(S \ {t}) = Cardinality(S) - 1 /\ Cardinality(S) > 0
           /\ t \notin S => Cardinality(S \cup {t}) = Cardinality(S) + 1
<1>1. IsFiniteSet(S) /\ IsFiniteSet(S \ {t})
  BY SlotFinite
<1>2. Cardinality(S) \in Nat /\ Cardinality(S \ {t}) \in Nat
  BY <1>1, FS_CardinalityType
<1>3. t \in S => Cardinality(S \ {t}) = Cardinality(S) - 1
  BY <1>1, FS_RemoveElement
<1>4. t \notin S => Cardinality(S \cup {t}) = Cardinality(S) + 1
  BY <1>1, FS_AddElement
<1>5. QED
  BY <1>2, <1>3, <1>4

\* Queue numbers are naturals, so none is NoQueue; ready and wait queues differ.
LEMMA QueueFacts ==
    /\ NoQueue \notin Queue /\ Queue \subseteq Nat
    /\ ReadyQueue \subseteq Queue /\ WaitQueue \subseteq Queue
    /\ ReadyQueue \cap WaitQueue = {}
    /\ 0 \in ReadyQueue /\ PrioUser \in ReadyQueue
    /\ XWaitQ \in WaitQueue
    /\ init \in Slot /\ NoTask \notin Slot
BY TaskAssumption DEF Queue, ReadyQueue, NoQueue, Slot, init, NoTask

\* task_remove: Without takes out the one place of t and keeps the others in order.
LEMMA WithoutProperties ==
    ASSUME NEW s \in Seq(Slot), NEW t \in Slot,
           \A i, j \in 1..Len(s) : s[i] = s[j] => i = j,
           \E i \in 1..Len(s) : s[i] = t
    PROVE  /\ Without(s, t) \in Seq(Slot)
           /\ \A i, j \in 1..Len(Without(s, t)) :
                 Without(s, t)[i] = Without(s, t)[j] => i = j
           /\ \A u : (\E i \in 1..Len(Without(s, t)) : Without(s, t)[i] = u)
                     <=> u # t /\ \E i \in 1..Len(s) : s[i] = u
<1> DEFINE k == CHOOSE i \in 1..Len(s) : s[i] = t
           w == [i \in 1..(Len(s) - 1) |-> IF i < k THEN s[i] ELSE s[i + 1]]
<1>1. k \in 1..Len(s) /\ s[k] = t
  OBVIOUS
<1>2. Without(s, t) = w
  BY DEF Without
<1>3. Len(s) \in Nat /\ Len(s) > 0 /\ \A i \in 1..Len(s) : s[i] \in Slot
  BY <1>1
<1> HIDE DEF k
<1>4. w \in [1..(Len(s) - 1) -> Slot]
  BY <1>1, <1>3
<1>5. w \in Seq(Slot) /\ Len(w) = Len(s) - 1
  BY <1>3, <1>4, IsASeq, LenProperties
<1>9. \A i \in 1..Len(w) : w[i] = IF i < k THEN s[i] ELSE s[i + 1]
  BY <1>5
<1> HIDE DEF w
<1>6. ASSUME NEW i \in 1..Len(w), NEW j \in 1..Len(w), w[i] = w[j]
      PROVE  i = j
  <2> DEFINE i1 == IF i < k THEN i ELSE i + 1
             j1 == IF j < k THEN j ELSE j + 1
  <2>1. i1 \in 1..Len(s) /\ j1 \in 1..Len(s) /\ w[i] = s[i1] /\ w[j] = s[j1]
    BY <1>1, <1>3, <1>5, <1>9
  <2>2. i1 = j1
    BY <1>6, <2>1
  <2>3. QED
    BY <1>1, <1>3, <1>5, <2>2
<1>7. ASSUME NEW u
      PROVE  (\E i \in 1..Len(w) : w[i] = u) <=> u # t /\ \E i \in 1..Len(s) : s[i] = u
  <2>1. ASSUME NEW i \in 1..Len(w), w[i] = u
        PROVE  u # t /\ \E j \in 1..Len(s) : s[j] = u
    <3> DEFINE j == IF i < k THEN i ELSE i + 1
    <3>1. j \in 1..Len(s) /\ j # k /\ s[j] = u
      BY <1>1, <1>3, <1>5, <1>9, <2>1
    <3>2. QED
      BY <1>1, <3>1
  <2>2. ASSUME u # t, NEW i \in 1..Len(s), s[i] = u
        PROVE  \E j \in 1..Len(w) : w[j] = u
    <3>1. CASE i < k
      <4>1. i \in 1..Len(w) /\ w[i] = s[i]
        BY <1>1, <1>3, <1>5, <1>9, <3>1
      <4>2. QED
        BY <2>2, <4>1
    <3>2. CASE i > k
      <4>1. i - 1 \in 1..Len(w) /\ w[i - 1] = s[i]
        BY <1>1, <1>3, <1>5, <1>9, <3>2
      <4>2. QED
        BY <2>2, <4>1
    <3>3. QED
      BY <1>1, <2>2, <3>1, <3>2
  <2>3. QED
    BY <2>1, <2>2
<1>8. QED
  BY <1>2, <1>5, <1>6, <1>7

\* task_insert of a task that is on no queue keeps the lists linked.
LEMMA InsertLinked ==
    ASSUME NEW qs \in [Queue -> Seq(Slot)], NEW qu \in [Slot -> Queue \cup {NoQueue}],
           Linked(qs, qu), NEW t \in Slot, qu[t] = NoQueue, NEW c \in Queue
    PROVE  /\ Inserted(qs, c, t) \in [Queue -> Seq(Slot)]
           /\ Linked(Inserted(qs, c, t), [qu EXCEPT ![t] = c])
<1> DEFINE qs1 == Inserted(qs, c, t)
           qu1 == [qu EXCEPT ![t] = c]
<1>1. qs1[c] = Append(qs[c], t) /\ \A d \in Queue \ {c} : qs1[d] = qs[d]
  BY DEF Inserted
<1>2. /\ Append(qs[c], t) \in Seq(Slot)
      /\ Len(qs1[c]) = Len(qs[c]) + 1
      /\ \A i \in 1..Len(qs[c]) : qs1[c][i] = qs[c][i]
      /\ qs1[c][Len(qs[c]) + 1] = t
  BY <1>1, AppendProperties
<1>3. qs1 \in [Queue -> Seq(Slot)]
  BY <1>2 DEF Inserted
<1>4. \A d \in Queue : ~\E i \in 1..Len(qs[d]) : qs[d][i] = t
  BY QueueFacts DEF Linked
<1>5. Len(qs[c]) \in Nat
  OBVIOUS
<1>6. \A i, j \in 1..Len(qs1[c]) : qs1[c][i] = qs1[c][j] => i = j
  BY <1>2, <1>4, <1>5 DEF Linked
<1>7. ASSUME NEW d \in Queue, NEW u \in Slot
      PROVE  qu1[u] = d <=> \E i \in 1..Len(qs1[d]) : qs1[d][i] = u
  <2>1. CASE d # c
    BY <1>1, <1>4, <2>1 DEF Linked
  <2>2. CASE d = c /\ u = t
    BY <1>2, <1>5, <2>2
  <2>3. CASE d = c /\ u # t
    <3>1. (\E i \in 1..Len(qs1[c]) : qs1[c][i] = u) <=> \E i \in 1..Len(qs[c]) : qs[c][i] = u
      BY <1>2, <1>5, <2>3
    <3>2. QED
      BY <2>3, <3>1 DEF Linked
  <2>4. QED
    BY <2>1, <2>2, <2>3
<1>8. \A d \in Queue : \A i, j \in 1..Len(qs1[d]) : qs1[d][i] = qs1[d][j] => i = j
  BY <1>1, <1>6 DEF Linked
<1>10. QED
  BY <1>3, <1>7, <1>8 DEF Linked

\* task_remove of a task that is on queue c keeps the lists linked.
LEMMA RemoveLinked ==
    ASSUME NEW qs \in [Queue -> Seq(Slot)], NEW qu \in [Slot -> Queue \cup {NoQueue}],
           Linked(qs, qu), NEW t \in Slot, NEW c \in Queue, qu[t] = c
    PROVE  /\ [qs EXCEPT ![c] = Without(@, t)] \in [Queue -> Seq(Slot)]
           /\ Linked([qs EXCEPT ![c] = Without(@, t)], [qu EXCEPT ![t] = NoQueue])
<1> DEFINE w   == Without(qs[c], t)
           qs1 == [qs EXCEPT ![c] = Without(@, t)]
           qu1 == [qu EXCEPT ![t] = NoQueue]
<1>1. /\ \A i, j \in 1..Len(qs[c]) : qs[c][i] = qs[c][j] => i = j
      /\ \E i \in 1..Len(qs[c]) : qs[c][i] = t
  BY DEF Linked
<1>2. /\ w \in Seq(Slot)
      /\ \A i, j \in 1..Len(w) : w[i] = w[j] => i = j
      /\ \A u : (\E i \in 1..Len(w) : w[i] = u)
                <=> u # t /\ \E i \in 1..Len(qs[c]) : qs[c][i] = u
  BY <1>1, WithoutProperties
<1> HIDE DEF w
<1>3. qs1[c] = w /\ \A d \in Queue \ {c} : qs1[d] = qs[d]
  BY DEF w
<1>4. qs1 \in [Queue -> Seq(Slot)]
  BY <1>2 DEF w
<1> HIDE DEF qs1
<1>5. \A d \in Queue : \A i, j \in 1..Len(qs1[d]) : qs1[d][i] = qs1[d][j] => i = j
  BY <1>2, <1>3 DEF Linked
<1>6. ASSUME NEW d \in Queue, NEW u \in Slot
      PROVE  qu1[u] = d <=> \E i \in 1..Len(qs1[d]) : qs1[d][i] = u
  <2>1. qu[u] = d <=> \E i \in 1..Len(qs[d]) : qs[d][i] = u
    BY DEF Linked
  <2>2. CASE d = c
    <3>1. (\E i \in 1..Len(w) : w[i] = u) <=> u # t /\ \E i \in 1..Len(qs[c]) : qs[c][i] = u
      BY <1>2
    <3>2. qs1[d] = w
      BY <1>3, <2>2
    <3>3. qu1[u] = d <=> u # t /\ qu[u] = d
      BY <2>2, QueueFacts
    <3>4. QED
      BY <2>1, <2>2, <3>1, <3>2, <3>3
  <2>3. CASE d # c
    BY <1>3, <2>1, <2>3, QueueFacts
  <2>4. QED
    BY <2>2, <2>3
<1>7. QED
  BY <1>4, <1>5, <1>6 DEF Linked, qs1

\* task_dequeue takes the first task, which is the same as removing it.
LEMMA TailIsWithout ==
    ASSUME NEW s \in Seq(Slot), s # <<>>,
           \A i, j \in 1..Len(s) : s[i] = s[j] => i = j
    PROVE  Tail(s) = Without(s, Head(s)) /\ Head(s) = s[1] /\ 1 \in 1..Len(s)
<1>1. Len(s) \in Nat /\ Len(s) > 0 /\ Head(s) = s[1]
  BY HeadTailProperties
<1> DEFINE k == CHOOSE i \in 1..Len(s) : s[i] = Head(s)
<1>2. k = 1
  <2>1. k \in 1..Len(s) /\ s[k] = Head(s)
    BY <1>1
  <2>2. QED
    BY <1>1, <2>1
<1>3. /\ Tail(s) \in Seq(Slot) /\ Len(Tail(s)) = Len(s) - 1
      /\ \A i \in 1..Len(Tail(s)) : Tail(s)[i] = s[i + 1]
  BY HeadTailProperties
<1>4. Without(s, Head(s)) = [i \in 1..(Len(s) - 1) |-> s[i + 1]]
  BY <1>1, <1>2 DEF Without
<1>5. Without(s, Head(s)) \in Seq(Slot)
  BY <1>1, WithoutProperties, ElementOfSeq
<1>6. Tail(s) = Without(s, Head(s))
  <2> DEFINE w == Without(s, Head(s))
  <2>1. /\ w \in Seq(Slot) /\ Len(w) = Len(s) - 1
        /\ \A i \in 1..Len(w) : w[i] = s[i + 1]
    BY <1>1, <1>4, <1>5, LenProperties
  <2> HIDE DEF w
  <2>2. Len(Tail(s)) = Len(w) /\ \A i \in 1..Len(w) : Tail(s)[i] = w[i]
    BY <1>3, <2>1
  <2>3. Tail(s) = w
    BY <1>3, <2>1, <2>2, SeqEqual
  <2>4. QED
    BY <2>3 DEF w
<1>7. QED
  BY <1>1, <1>6

-----------------------------------------------------------------------------
(* The core of the inductive invariant, as a predicate on the values that  *)
(* it speaks of: used, exited, paused, queue, q, curr and the counters.    *)

Living(us, ex)  == {t \in Slot : us[t] /\ ~ex[t]}
Asleep(pa)      == {t \in Slot : pa[t] # 0}

Core(us, ex, pa, qu, qs, cu, tc, tp) ==
    /\ us \in [Slot -> BOOLEAN] /\ ex \in [Slot -> BOOLEAN]
    /\ pa \in [Slot -> {0, WAIT_NOINTR, WAIT_INTR}]
    /\ qu \in [Slot -> Queue \cup {NoQueue}]
    /\ qs \in [Queue -> Seq(Slot)]
    /\ Linked(qs, qu)
    /\ \A t \in Slot : IF t \notin Living(us, ex) \/ t = cu THEN qu[t] = NoQueue
                       ELSE qu[t] \in ReadyQueue <=> pa[t] = 0
    /\ tc = Cardinality(Living(us, ex)) /\ tp = Cardinality(Asleep(pa))
    /\ Asleep(pa) \subseteq Living(us, ex) \ {cu}
    /\ cu \in Living(us, ex) \cup {NoTask}
    /\ \A t \in Slot : ex[t] => us[t]

\* task_resume of a sleeping task: it moves from its wait queue, if it is on one,
\* to ready queue p.
LEMMA ResumeCore ==
    ASSUME NEW us, NEW ex, NEW pa, NEW qu, NEW qs, NEW cu, NEW tc, NEW tp,
           Core(us, ex, pa, qu, qs, cu, tc, tp),
           NEW t \in Slot, pa[t] # 0, NEW p \in ReadyQueue
    PROVE  /\ t # cu /\ ~ex[t] /\ tp > 0
           /\ LET qs1 == IF qu[t] = NoQueue THEN qs
                         ELSE [qs EXCEPT ![qu[t]] = Without(@, t)]
              IN Core(us, ex, [pa EXCEPT ![t] = 0], [qu EXCEPT ![t] = p],
                      Inserted(qs1, p, t), cu, tc, tp - 1)
<1> DEFINE pa1 == [pa EXCEPT ![t] = 0]
           qs1 == IF qu[t] = NoQueue THEN qs
                  ELSE [qs EXCEPT ![qu[t]] = Without(@, t)]
           qu1 == [qu EXCEPT ![t] = NoQueue]
           qu2 == [qu EXCEPT ![t] = p]
           qs2 == Inserted(qs1, p, t)
<1>1. t \in Asleep(pa) /\ t \in Living(us, ex) /\ t # cu /\ ~ex[t]
  BY DEF Core, Asleep, Living
<1>2. /\ Asleep(pa1) = Asleep(pa) \ {t}
      /\ pa1 \in [Slot -> {0, WAIT_NOINTR, WAIT_INTR}]
  BY DEF Core, Asleep
<1>3. Asleep(pa) \in SUBSET Slot /\ tp = Cardinality(Asleep(pa))
  BY DEF Asleep, Core
<1>4. Cardinality(Asleep(pa1)) = tp - 1 /\ tp > 0
  BY <1>1, <1>2, <1>3, CountSlots
<1>5. qs1 \in [Queue -> Seq(Slot)] /\ Linked(qs1, qu1)
  <2>1. CASE qu[t] = NoQueue
    <3>1. qu1 = qu
      BY <2>1 DEF Core
    <3>2. QED
      BY <2>1, <3>1 DEF Core
  <2>2. CASE qu[t] # NoQueue
    BY <2>2, RemoveLinked DEF Core
  <2>3. QED
    BY <2>1, <2>2
<1>6. qs2 \in [Queue -> Seq(Slot)] /\ Linked(qs2, qu2)
  <2>1. qu1 \in [Slot -> Queue \cup {NoQueue}] /\ qu1[t] = NoQueue /\ p \in Queue
    BY QueueFacts DEF Core
  <2>2. qu2 = [qu1 EXCEPT ![t] = p]
    BY DEF Core
  <2> HIDE DEF qs1, qu1, qu2
  <2>3. QED
    BY <1>5, <2>1, <2>2, InsertLinked
<1>7. qu2 \in [Slot -> Queue \cup {NoQueue}]
  BY QueueFacts DEF Core
<1>8. \A u \in Slot : IF u \notin Living(us, ex) \/ u = cu THEN qu2[u] = NoQueue
                      ELSE qu2[u] \in ReadyQueue <=> pa1[u] = 0
  BY <1>1 DEF Core
<1>9. QED
  <2> HIDE DEF qs2, qu2, pa1
  <2>1. Core(us, ex, pa1, qu2, qs2, cu, tc, tp - 1)
    BY <1>1, <1>2, <1>4, <1>6, <1>7, <1>8 DEF Core
  <2>2. QED
    BY <1>1, <1>4, <2>1 DEF qs2, qu2, pa1

\* The running task goes to ready queue p: sched() called by a runnable task.
LEMMA YieldCore ==
    ASSUME NEW us, NEW ex, NEW pa, NEW qu, NEW qs, NEW cu \in Slot, NEW tc, NEW tp,
           Core(us, ex, pa, qu, qs, cu, tc, tp), NEW p \in ReadyQueue
    PROVE  /\ qu[cu] = NoQueue /\ pa[cu] = 0 /\ cu \in Living(us, ex)
           /\ Core(us, ex, pa, [qu EXCEPT ![cu] = p], Inserted(qs, p, cu), NoTask, tc, tp)
<1> DEFINE qu1 == [qu EXCEPT ![cu] = p]
           qs1 == Inserted(qs, p, cu)
<1>1. qu[cu] = NoQueue /\ pa[cu] = 0 /\ cu \in Living(us, ex) /\ p \in Queue
  BY QueueFacts DEF Core, Asleep
<1>2. qs1 \in [Queue -> Seq(Slot)] /\ Linked(qs1, qu1)
  BY <1>1, InsertLinked DEF Core
<1>3. qu1 \in [Slot -> Queue \cup {NoQueue}]
  BY <1>1 DEF Core
<1>4. \A u \in Slot : IF u \notin Living(us, ex) \/ u = NoTask THEN qu1[u] = NoQueue
                      ELSE qu1[u] \in ReadyQueue <=> pa[u] = 0
  BY <1>1, QueueFacts DEF Core
<1>5. Asleep(pa) \subseteq Living(us, ex) \ {NoTask}
  BY QueueFacts DEF Core, Living
<1> HIDE DEF qu1, qs1
<1>6. Core(us, ex, pa, qu1, qs1, NoTask, tc, tp)
  BY <1>2, <1>3, <1>4, <1>5 DEF Core
<1>7. QED
  BY <1>1, <1>6 DEF qu1, qs1

\* How and where a task may sleep.
SleepType  == {WAIT_NOINTR, WAIT_INTR}
SleepPlace == WaitQueue \cup {NoQueue}

\* The running task falls asleep, on wait queue c or on none: task_suspend.
LEMMA SleepCore ==
    ASSUME NEW us, NEW ex, NEW pa, NEW qu, NEW qs, NEW cu \in Slot, NEW tc, NEW tp,
           Core(us, ex, pa, qu, qs, cu, tc, tp), NEW ty \in SleepType,
           NEW c \in SleepPlace
    PROVE  /\ qu[cu] = NoQueue /\ pa[cu] = 0
           /\ Core(us, ex, [pa EXCEPT ![cu] = ty],
                   IF c = NoQueue THEN qu ELSE [qu EXCEPT ![cu] = c],
                   IF c = NoQueue THEN qs ELSE Inserted(qs, c, cu), NoTask, tc, tp + 1)
<1> DEFINE pa1 == [pa EXCEPT ![cu] = ty]
<1>1. qu[cu] = NoQueue /\ pa[cu] = 0 /\ cu \in Living(us, ex) /\ NoQueue \notin ReadyQueue
  BY QueueFacts DEF Core, Asleep
<1>2. /\ pa1 \in [Slot -> {0, WAIT_NOINTR, WAIT_INTR}]
      /\ Asleep(pa1) = Asleep(pa) \cup {cu}
      /\ cu \notin Asleep(pa) /\ Asleep(pa) \in SUBSET Slot
      /\ tp = Cardinality(Asleep(pa))
  BY <1>1 DEF Core, Asleep, SleepType, WAIT_NOINTR, WAIT_INTR
<1>3. Cardinality(Asleep(pa1)) = tp + 1
  BY <1>2, CountSlots
<1>4. Asleep(pa1) \subseteq Living(us, ex) \ {NoTask}
  BY <1>1, <1>2, QueueFacts DEF Core
<1>5. pa1[cu] # 0 /\ \A u \in Slot \ {cu} : pa1[u] = pa[u]
  BY DEF Core, SleepType, WAIT_NOINTR, WAIT_INTR
<1> HIDE DEF pa1
<1>6. Core(us, ex, pa1, qu, qs, NoTask, tc, tp + 1)
  <2>1. \A u \in Slot : IF u \notin Living(us, ex) \/ u = NoTask THEN qu[u] = NoQueue
                        ELSE qu[u] \in ReadyQueue <=> pa1[u] = 0
    BY <1>1, <1>5, QueueFacts DEF Core
  <2>2. QED
    BY <1>2, <1>3, <1>4, <2>1 DEF Core
<1>7. ASSUME c \in WaitQueue
      PROVE  Core(us, ex, pa1, [qu EXCEPT ![cu] = c], Inserted(qs, c, cu), NoTask, tc, tp + 1)
  <2> DEFINE qu1 == [qu EXCEPT ![cu] = c]
             qs1 == Inserted(qs, c, cu)
  <2>1. c \in Queue /\ c \notin ReadyQueue
    BY <1>7, QueueFacts
  <2>2. qs1 \in [Queue -> Seq(Slot)] /\ Linked(qs1, qu1)
    BY <1>1, <2>1, InsertLinked DEF Core
  <2>3. qu1 \in [Slot -> Queue \cup {NoQueue}]
    BY <2>1 DEF Core
  <2>4. \A u \in Slot : IF u \notin Living(us, ex) \/ u = NoTask THEN qu1[u] = NoQueue
                        ELSE qu1[u] \in ReadyQueue <=> pa1[u] = 0
    BY <1>1, <1>5, <2>1, QueueFacts DEF Core
  <2> HIDE DEF qu1, qs1
  <2>5. Core(us, ex, pa1, qu1, qs1, NoTask, tc, tp + 1)
    BY <1>2, <1>3, <1>4, <2>2, <2>3, <2>4 DEF Core
  <2>6. QED
    BY <2>5 DEF qu1, qs1
<1>8. CASE c = NoQueue
  BY <1>1, <1>6, <1>8 DEF pa1
<1>9. CASE c # NoQueue
  BY <1>1, <1>7, <1>9 DEF pa1, SleepPlace
<1>10. QED
  BY <1>8, <1>9

\* The first task of ready queue p gets the processor: task_dequeue in sched().
LEMMA DispatchCore ==
    ASSUME NEW us, NEW ex, NEW pa, NEW qu, NEW qs, NEW tc, NEW tp,
           Core(us, ex, pa, qu, qs, NoTask, tc, tp),
           NEW p \in ReadyQueue, qs[p] # <<>>
    PROVE  LET t == Head(qs[p])
           IN  /\ t \in Living(us, ex) /\ pa[t] = 0
               /\ Core(us, ex, pa, [qu EXCEPT ![t] = NoQueue], [qs EXCEPT ![p] = Tail(@)],
                       t, tc, tp)
<1> DEFINE t   == Head(qs[p])
           qu1 == [qu EXCEPT ![t] = NoQueue]
           qs1 == [qs EXCEPT ![p] = Tail(@)]
<1>1. p \in Queue /\ qs[p] \in Seq(Slot) /\ NoQueue \notin Queue
  BY QueueFacts DEF Core
<1>2. \A i, j \in 1..Len(qs[p]) : qs[p][i] = qs[p][j] => i = j
  BY <1>1 DEF Core, Linked
<1>3. Tail(qs[p]) = Without(qs[p], t) /\ t = qs[p][1] /\ 1 \in 1..Len(qs[p])
  BY <1>1, <1>2, TailIsWithout
<1>4. t \in Slot
  BY <1>1, <1>3, ElementOfSeq
<1> HIDE DEF t
<1>5. qu[t] = p
  BY <1>1, <1>3, <1>4 DEF Core, Linked
<1>6. t \in Living(us, ex) /\ pa[t] = 0
  BY <1>1, <1>4, <1>5, QueueFacts DEF Core
<1>7. qs1 = [qs EXCEPT ![p] = Without(@, t)]
  BY <1>3
<1>8. qs1 \in [Queue -> Seq(Slot)] /\ Linked(qs1, qu1)
  <2>1. /\ qs \in [Queue -> Seq(Slot)] /\ qu \in [Slot -> Queue \cup {NoQueue}]
        /\ Linked(qs, qu)
    BY DEF Core
  <2> HIDE DEF qs1
  <2>2. QED
    BY <1>1, <1>4, <1>5, <1>7, <2>1, RemoveLinked
<1>9. qu1 \in [Slot -> Queue \cup {NoQueue}]
  BY DEF Core
<1>10. \A u \in Slot : IF u \notin Living(us, ex) \/ u = t THEN qu1[u] = NoQueue
                       ELSE qu1[u] \in ReadyQueue <=> pa[u] = 0
  BY <1>4, QueueFacts DEF Core
<1>11. t \notin Asleep(pa)
  BY <1>6 DEF Asleep
<1> HIDE DEF qu1, qs1
<1>12. Core(us, ex, pa, qu1, qs1, t, tc, tp)
  BY <1>6, <1>8, <1>9, <1>10, <1>11 DEF Core
<1>13. QED
  BY <1>6, <1>12 DEF t, qu1, qs1

\* A free slot becomes a task on ready queue p: do_fork and task_creat.
LEMMA CreateCore ==
    ASSUME NEW us, NEW ex, NEW pa, NEW qu, NEW qs, NEW cu, NEW tc, NEW tp,
           Core(us, ex, pa, qu, qs, cu, tc, tp),
           NEW t \in Slot, ~us[t], NEW p \in ReadyQueue
    PROVE  /\ qu[t] = NoQueue /\ t # cu
           /\ Core([us EXCEPT ![t] = TRUE], ex, pa, [qu EXCEPT ![t] = p],
                   Inserted(qs, p, t), cu, tc + 1, tp)
<1> DEFINE us1 == [us EXCEPT ![t] = TRUE]
           qu1 == [qu EXCEPT ![t] = p]
           qs1 == Inserted(qs, p, t)
<1>1. ~ex[t] /\ t \notin Living(us, ex) /\ p \in Queue
  BY QueueFacts DEF Core, Living
<1>2. qu[t] = NoQueue /\ t # cu /\ pa[t] = 0
  BY <1>1, QueueFacts DEF Core, Asleep
<1>3. us1 \in [Slot -> BOOLEAN] /\ Living(us1, ex) = Living(us, ex) \cup {t}
  BY <1>1 DEF Core, Living
<1>4. Cardinality(Living(us1, ex)) = tc + 1
  <2>1. Living(us, ex) \in SUBSET Slot /\ tc = Cardinality(Living(us, ex))
    BY DEF Core, Living
  <2>2. QED
    BY <1>1, <1>3, <2>1, CountSlots
<1>5. qs1 \in [Queue -> Seq(Slot)] /\ Linked(qs1, qu1)
  BY <1>1, <1>2, InsertLinked DEF Core
<1>6. qu1 \in [Slot -> Queue \cup {NoQueue}]
  BY <1>1 DEF Core
<1>7. \A u \in Slot : IF u \notin Living(us1, ex) \/ u = cu THEN qu1[u] = NoQueue
                      ELSE qu1[u] \in ReadyQueue <=> pa[u] = 0
  BY <1>2, <1>3 DEF Core
<1>8. \A u \in Slot : ex[u] => us1[u]
  BY DEF Core
<1>9. /\ Asleep(pa) \subseteq Living(us1, ex) \ {cu}
      /\ cu \in Living(us1, ex) \cup {NoTask}
  BY <1>3 DEF Core
<1> HIDE DEF us1, qu1, qs1
<1>10. Core(us1, ex, pa, qu1, qs1, cu, tc + 1, tp)
  BY <1>3, <1>4, <1>5, <1>6, <1>7, <1>8, <1>9 DEF Core
<1>11. QED
  BY <1>2, <1>10 DEF us1, qu1, qs1

\* The running task dies: the end of task_exit.
LEMMA DieCore ==
    ASSUME NEW us, NEW ex, NEW pa, NEW qu, NEW qs, NEW cu \in Slot, NEW tc, NEW tp,
           Core(us, ex, pa, qu, qs, cu, tc, tp)
    PROVE  Core(us, [ex EXCEPT ![cu] = TRUE], pa, qu, qs, NoTask, tc - 1, tp)
<1> DEFINE ex1 == [ex EXCEPT ![cu] = TRUE]
<1>1. /\ cu \in Living(us, ex) /\ qu[cu] = NoQueue /\ us[cu]
      /\ Living(us, ex) \in SUBSET Slot /\ tc = Cardinality(Living(us, ex))
  BY QueueFacts DEF Core, Living
<1>2. ex1 \in [Slot -> BOOLEAN] /\ Living(us, ex1) = Living(us, ex) \ {cu}
  BY DEF Core, Living
<1>3. Cardinality(Living(us, ex1)) = tc - 1
  BY <1>1, <1>2, CountSlots
<1>4. \A u \in Slot : IF u \notin Living(us, ex1) \/ u = NoTask THEN qu[u] = NoQueue
                      ELSE qu[u] \in ReadyQueue <=> pa[u] = 0
  BY <1>1, <1>2, QueueFacts DEF Core
<1>5. \A u \in Slot : ex1[u] => us[u]
  BY <1>1 DEF Core
<1>6. Asleep(pa) \subseteq Living(us, ex1) \ {NoTask}
  BY <1>1, <1>2, QueueFacts DEF Core
<1> HIDE DEF ex1
<1>7. Core(us, ex1, pa, qu, qs, NoTask, tc - 1, tp)
  BY <1>2, <1>3, <1>4, <1>5, <1>6 DEF Core
<1>8. QED
  BY <1>7 DEF ex1

\* A dead task's slot is freed: task_putslot.
LEMMA ReapCore ==
    ASSUME NEW us, NEW ex, NEW pa, NEW qu, NEW qs, NEW cu, NEW tc, NEW tp,
           Core(us, ex, pa, qu, qs, cu, tc, tp), NEW z \in Slot, ex[z]
    PROVE  Core([us EXCEPT ![z] = FALSE], [ex EXCEPT ![z] = FALSE], pa, qu, qs, cu, tc, tp)
<1> DEFINE us1 == [us EXCEPT ![z] = FALSE]
           ex1 == [ex EXCEPT ![z] = FALSE]
<1>1. /\ us1 \in [Slot -> BOOLEAN] /\ ex1 \in [Slot -> BOOLEAN]
      /\ Living(us1, ex1) = Living(us, ex)
      /\ \A u \in Slot : ex1[u] => us1[u]
  BY DEF Core, Living
<1> HIDE DEF us1, ex1
<1>2. Core(us1, ex1, pa, qu, qs, cu, tc, tp)
  BY <1>1 DEF Core
<1>3. QED
  BY <1>2 DEF us1, ex1

\* When the counters differ somebody is ready: the dispatcher finds a task.
LEMMA ReadyExists ==
    ASSUME NEW us, NEW ex, NEW pa, NEW qu, NEW qs, NEW tc, NEW tp,
           Core(us, ex, pa, qu, qs, NoTask, tc, tp), tc # tp
    PROVE  \E p \in ReadyQueue : qs[p] # <<>>
<1>1. Asleep(pa) # Living(us, ex)
  BY DEF Core
<1>2. PICK t \in Living(us, ex) : t \notin Asleep(pa)
  BY <1>1 DEF Core
<1>3. t \in Slot /\ pa[t] = 0 /\ t # NoTask
  BY <1>2, QueueFacts DEF Living, Asleep
<1>4. qu[t] \in ReadyQueue
  BY <1>2, <1>3 DEF Core
<1>5. \E i \in 1..Len(qs[qu[t]]) : qs[qu[t]][i] = t
  <2>1. Linked(qs, qu) /\ qu[t] \in Queue
    BY <1>4, QueueFacts DEF Core
  <2>2. QED
    BY <1>3, <2>1 DEF Linked
<1>6. qs[qu[t]] # <<>>
  BY <1>5
<1>7. QED
  BY <1>4, <1>6
-----------------------------------------------------------------------------
(* The invariants.                                                         *)

CoreInv == Core(used, exited, paused, queue, q, curr, task_count, task_pcount)

\* The processor is in the dispatcher exactly when no task runs; a wake loop knows
\* its queue; nobody sends SIGALRM with kill().
ModeInv ==
    /\ curr = NoTask <=> mode = "pick"
    /\ mode = "wake" => wakeq \in WaitQueue
    /\ killsig # SIGALRM

TInv == TypeOK /\ CoreInv /\ ModeInv

\* What the operators below change, while the table of tasks stays.
RunCore == Core(used, exited, paused', queue', q', curr', task_count, task_pcount')
StayCore == Core(used, exited, paused', queue', q', curr, task_count, task_pcount')
RunType == slice' \in [Slot -> Int] /\ resched' \in BOOLEAN /\ panic' \in BOOLEAN

-----------------------------------------------------------------------------
(* The operators the actions are made of.                                  *)

\* task_resume keeps the queues and the counters in order and panics only on a
\* dead task.
LEMMA TaskResumeInv ==
    ASSUME TypeOK, CoreInv, NEW t \in Slot, TaskResume(t)
    PROVE  StayCore /\ RunType /\ (panic' => panic \/ exited[t])
<1>1. prio[t] \in ReadyQueue /\ panic \in BOOLEAN
  BY DEF TypeOK
<1>2. CASE paused[t] # 0
  <2>1. /\ t # curr /\ ~exited[t] /\ task_pcount > 0
        /\ LET qs1 == IF queue[t] = NoQueue THEN q
                      ELSE [q EXCEPT ![queue[t]] = Without(@, t)]
           IN Core(used, exited, [paused EXCEPT ![t] = 0], [queue EXCEPT ![t] = prio[t]],
                   Inserted(qs1, prio[t], t), curr, task_count, task_pcount - 1)
    BY <1>1, <1>2, ResumeCore DEF CoreInv
  <2>2. StayCore
    BY <1>2, <2>1 DEF TaskResume, Removed, StayCore
  <2>3. RunType
    BY <1>2, TaskAssumption DEF TaskResume, RunType, TypeOK
  <2>4. panic' => panic \/ exited[t]
    <3>1. task_pcount \in Int
      BY DEF TypeOK
    <3>2. ~(task_pcount < 1)
      BY <2>1, <3>1
    <3>3. QED
      BY <1>2, <3>2 DEF TaskResume
  <2>5. QED
    BY <2>2, <2>3, <2>4
<1>3. CASE paused[t] = 0
  BY <1>3 DEF TaskResume, StayCore, RunType, CoreInv, TypeOK, runvars
<1>4. QED
  BY <1>2, <1>3

\* signal_send_k never panics: it passes over dead tasks.
LEMMA SignalSendInv ==
    ASSUME TypeOK, CoreInv, NEW t \in Slot, NEW s \in Sig, SignalSend(t, s)
    PROVE  /\ StayCore /\ RunType /\ (panic' => panic)
           /\ received' \in [Slot -> SUBSET Sig] /\ pending' \in [Slot -> BOOLEAN]
           /\ stopped' \in [Slot -> BOOLEAN]
<1>1. CASE exited[t] \/ handler[t][s] = "IGN"
  BY <1>1 DEF SignalSend, StayCore, RunType, CoreInv, TypeOK, runvars
<1>2. CASE ~(exited[t] \/ handler[t][s] = "IGN")
  <2>1. received' \in [Slot -> SUBSET Sig]
    <3>1. received' = [received EXCEPT ![t] = @ \cup {s}]
      BY <1>2 DEF SignalSend
    <3>2. received \in [Slot -> SUBSET Sig]
      BY DEF TypeOK
    <3>3. QED
      BY <3>1, <3>2
  <2>2. pending' \in [Slot -> BOOLEAN] /\ stopped' \in [Slot -> BOOLEAN]
    BY <1>2 DEF SignalSend, TypeOK
  <2>3. CASE SignalWakes(t)
    <3>1. TaskResume(t)
      BY <1>2, <2>3 DEF SignalSend
    <3>2. StayCore /\ RunType /\ (panic' => panic \/ exited[t])
      BY <3>1, TaskResumeInv
    <3>3. QED
      BY <1>2, <2>1, <2>2, <3>2
  <2>4. CASE ~SignalWakes(t)
    <3>1. UNCHANGED <<runvars, panic>>
      BY <1>2, <2>4 DEF SignalSend
    <3>2. StayCore /\ RunType /\ (panic' => panic)
      BY <3>1 DEF StayCore, RunType, CoreInv, TypeOK, runvars
    <3>3. QED
      BY <2>1, <2>2, <3>2
  <2>5. QED
    BY <2>3, <2>4
<1>3. QED
  BY <1>1, <1>2

\* sched() called by a runnable task.
LEMMA SchedRunnableInv ==
    ASSUME TypeOK, CoreInv, curr \in Slot, NEW c \in Cont, SchedRunnable(c)
    PROVE  /\ RunCore /\ RunType /\ (panic' => panic)
           /\ cont' \in [Slot -> Cont] /\ curr' \in {curr, NoTask}
           /\ mode' = IF curr' = NoTask THEN "pick" ELSE c
           /\ \A t \in Slot : cont'[t] \in {cont[t], c}
           /\ \A t \in Slot \ {curr} : cont'[t] = cont[t]
<1>1. prio[curr] \in ReadyQueue /\ panic \in BOOLEAN /\ curr # NoTask
  BY QueueFacts DEF TypeOK
<1>2. /\ queue[curr] = NoQueue
      /\ Core(used, exited, paused, [queue EXCEPT ![curr] = prio[curr]],
              Inserted(q, prio[curr], curr), NoTask, task_count, task_pcount)
  BY <1>1, YieldCore DEF CoreInv
<1>3. CASE task_pcount + 1 = task_count
  <2>1. RunCore
    BY <1>3 DEF SchedRunnable, RunCore, CoreInv
  <2>2. RunType
    <3>1. /\ slice' = [slice EXCEPT ![curr] = TimeSlice]
          /\ resched' = FALSE /\ panic' = panic
      BY <1>3 DEF SchedRunnable
    <3>2. slice \in [Slot -> Int] /\ TimeSlice \in Int
      BY TaskAssumption DEF TypeOK
    <3>3. QED
      BY <1>1, <3>1, <3>2 DEF RunType
  <2>3. QED
    BY <1>1, <1>3, <2>1, <2>2 DEF SchedRunnable, TypeOK
<1>4. CASE task_pcount + 1 # task_count
  <2>1. RunCore
    BY <1>2, <1>4 DEF SchedRunnable, RunCore
  <2>2. RunType
    BY <1>4 DEF SchedRunnable, RunType, TypeOK
  <2>3. panic' => panic
    BY <1>2, <1>4 DEF SchedRunnable, InsertPanics
  <2>4. QED
    BY <1>4, <2>1, <2>2, <2>3 DEF SchedRunnable, TypeOK
<1>5. QED
  BY <1>3, <1>4

\* task_suspend, whether it sleeps or fails with EINTR.
LEMMA TaskSuspendInv ==
    ASSUME TypeOK, CoreInv, curr \in Slot, NEW tq \in SleepPlace,
           NEW ty \in SleepType, NEW c \in Cont, NEW e,
           TaskSuspend(tq, ty, c, e)
    PROVE  /\ RunCore /\ RunType /\ (panic' => panic)
           /\ cont' \in [Slot -> Cont] /\ curr' \in {curr, NoTask}
           /\ mode' = IF curr' = NoTask THEN "pick" ELSE e
           /\ \A t \in Slot : cont'[t] \in {cont[t], c}
           /\ \A t \in Slot \ {curr} : cont'[t] = cont[t]
<1>1. panic \in BOOLEAN /\ curr # NoTask
  BY QueueFacts DEF TypeOK
<1>2. /\ queue[curr] = NoQueue /\ paused[curr] = 0
      /\ Core(used, exited, [paused EXCEPT ![curr] = ty],
              IF tq = NoQueue THEN queue ELSE [queue EXCEPT ![curr] = tq],
              IF tq = NoQueue THEN q ELSE Inserted(q, tq, curr), NoTask,
              task_count, task_pcount + 1)
  BY SleepCore DEF CoreInv
<1>3. CASE Interrupted(ty)
  <2>1. UNCHANGED <<paused, slice, queue, q, task_pcount, resched, cont, curr>>
    BY <1>3 DEF TaskSuspend, runvars
  <2>2. panic' = panic /\ mode' = e
    BY <1>1, <1>2, <1>3 DEF TaskSuspend
  <2>3. QED
    BY <1>1, <2>1, <2>2 DEF RunCore, RunType, CoreInv, TypeOK
<1>4. CASE ~Interrupted(ty)
  <2>1. /\ paused' = [paused EXCEPT ![curr] = ty] /\ task_pcount' = task_pcount + 1
        /\ cont' = [cont EXCEPT ![curr] = c] /\ curr' = NoTask /\ mode' = "pick"
        /\ slice' = slice /\ resched' = FALSE
    BY <1>4 DEF TaskSuspend
  <2>2. panic' = panic
    BY <1>1, <1>2, <1>4 DEF TaskSuspend, InsertPanics
  <2>3. RunCore
    <3>1. CASE tq = NoQueue
      BY <1>2, <1>4, <2>1, <3>1 DEF TaskSuspend, RunCore
    <3>2. CASE tq # NoQueue
      BY <1>2, <1>4, <2>1, <3>2 DEF TaskSuspend, RunCore
    <3>3. QED
      BY <3>1, <3>2
  <2>4. QED
    BY <1>1, <2>1, <2>2, <2>3 DEF RunType, TypeOK
<1>5. QED
  BY <1>3, <1>4

-----------------------------------------------------------------------------
(* TInv is inductive: one step per action.                                 *)

\* A task runs everywhere but in the dispatcher.
LEMMA Running ==
    ASSUME TInv, mode # "pick"
    PROVE  curr \in Slot /\ curr # NoTask /\ curr \in Living(used, exited)
BY QueueFacts DEF TInv, TypeOK, ModeInv, CoreInv, Core

\* CoreInv speaks only of the values RunCore is about and of the task table.
LEMMA CoreAgain ==
    ASSUME RunCore, UNCHANGED <<used, exited, task_count>>
    PROVE  CoreInv'
BY DEF RunCore, CoreInv

(* A step after which the core holds for the unchanged table and current task (StayCore) keeps CoreInv. *)
LEMMA CoreStay ==
    ASSUME StayCore, UNCHANGED <<used, exited, curr, task_count>>
    PROVE  CoreInv'
BY DEF StayCore, CoreInv

(* A step that leaves the table, the queues and the counters alone keeps CoreInv. *)
LEMMA CoreSame ==
    ASSUME CoreInv, UNCHANGED <<used, exited, paused, queue, q, curr, task_count, task_pcount>>
    PROVE  CoreInv'
BY DEF CoreInv

\* The part of TypeOK that Core does not say.
TypeRest ==
    /\ stopped \in [Slot -> BOOLEAN]
    /\ prio \in [Slot -> ReadyQueue] /\ slice \in [Slot -> Int]
    /\ parent \in [Slot -> Slot]
    /\ exec \in [Slot -> BOOLEAN] /\ armed \in [Slot -> BOOLEAN]
    /\ handler \in [Slot -> [Sig -> Disposition]]
    /\ received \in [Slot -> SUBSET Sig] /\ pending \in [Slot -> BOOLEAN]
    /\ cont \in [Slot -> Cont]
    /\ bq \in [Slot -> WaitQueue \cup {NoQueue}]
    /\ wpid \in [Slot -> Slot \cup {NoTask}]
    /\ resched \in BOOLEAN /\ mode \in Mode
    /\ sigpos \in Nat /\ sigret \in {"leave", "forked"}
    /\ wakeq \in WaitQueue \cup {NoQueue} /\ irq \in WaitQueue \cup {NoQueue}
    /\ targets \in SUBSET Slot /\ killsig \in Sig
    /\ panic \in BOOLEAN

(* The part of TypeOK that Core does not already contain. *)
LEMMA TypeParts == TypeOK => TypeRest
BY DEF TypeOK, TypeRest

(* TypeOK after a step, put together from that part and CoreInv. *)
LEMMA TypeWhole == TypeRest' /\ CoreInv' => TypeOK'
<1> SUFFICES ASSUME TypeRest', CoreInv' PROVE TypeOK'
  OBVIOUS
<1>1. /\ used' \in [Slot -> BOOLEAN] /\ exited' \in [Slot -> BOOLEAN]
      /\ paused' \in [Slot -> {0, WAIT_NOINTR, WAIT_INTR}]
      /\ queue' \in [Slot -> Queue \cup {NoQueue}]
      /\ q' \in [Queue -> Seq(Slot)]
      /\ curr' \in Slot \cup {NoTask}
  BY DEF CoreInv, Core, Living
<1>2. task_count' \in Int /\ task_pcount' \in Int
  <2>1. /\ task_count' = Cardinality(Living(used', exited'))
        /\ task_pcount' = Cardinality(Asleep(paused'))
    BY DEF CoreInv, Core
  <2>2. Living(used', exited') \in SUBSET Slot /\ Asleep(paused') \in SUBSET Slot
    BY DEF Living, Asleep
  <2>3. QED
    <3>1. IsFiniteSet(Living(used', exited')) /\ IsFiniteSet(Asleep(paused'))
      BY <2>2, SlotFinite
    <3>2. task_count' \in Nat /\ task_pcount' \in Nat
      BY <2>1, <3>1, FS_CardinalityType
    <3>3. QED
      BY <3>2
<1>3. QED
  BY <1>1, <1>2 DEF TypeRest, TypeOK

\* intr_leave and signal_handle.
LEMMA ReturnInv == ASSUME TInv, Return PROVE TInv'
<1> USE DEF At
<1>0. mode # "pick" /\ TypeRest /\ TypeOK /\ CoreInv /\ ModeInv
  BY TypeParts DEF TInv, Return, LeaveSignal, LeaveStop, StopOver, LeaveSched, LeaveUser,
     LeaveExec, ScanDone, ScanSignal
<1>00. curr \in Slot /\ curr # NoTask
  BY <1>0, Running
<1>1. CASE LeaveSignal
  <2>1. CoreInv'
    BY <1>0, <1>1, CoreSame DEF LeaveSignal, runvars, tabvars
  <2>2. TypeRest'
    BY <1>0, <1>1 DEF LeaveSignal, TypeRest, tabvars, runvars, Mode
  <2>3. ModeInv'
    BY <1>0, <1>00, <1>1 DEF LeaveSignal, ModeInv
  <2>4. QED
    BY <2>1, <2>2, <2>3, TypeWhole DEF TInv
<1>2. CASE LeaveStop
  <2>1. /\ RunCore /\ RunType /\ cont' \in [Slot -> Cont]
        /\ mode' = IF curr' = NoTask THEN "pick" ELSE "stop"
    BY <1>0, <1>00, <1>2, TaskSuspendInv DEF LeaveStop, SleepPlace, SleepType, Cont
  <2>2. CoreInv'
    BY <1>2, <2>1, CoreAgain DEF LeaveStop
  <2>3. TypeRest'
    BY <1>0, <1>2, <2>1 DEF LeaveStop, TypeRest, RunType, sigvars, loopvars, Mode
  <2>4. ModeInv'
    BY <1>0, <1>2, <2>1 DEF LeaveStop, ModeInv, loopvars
  <2>5. QED
    BY <2>2, <2>3, <2>4, TypeWhole DEF TInv
<1>3. CASE StopOver
  <2>1. CoreInv'
    BY <1>0, <1>3, CoreSame DEF StopOver, runvars, tabvars
  <2>2. TypeRest'
    BY <1>0, <1>3 DEF StopOver, TypeRest, tabvars, runvars, sigvars, loopvars, Mode
  <2>3. ModeInv'
    BY <1>0, <1>00, <1>3 DEF StopOver, ModeInv, loopvars
  <2>4. QED
    BY <2>1, <2>2, <2>3, TypeWhole DEF TInv
<1>4. CASE LeaveSched
  <2>1. /\ RunCore /\ RunType /\ cont' \in [Slot -> Cont]
        /\ mode' = IF curr' = NoTask THEN "pick" ELSE "leave"
    BY <1>0, <1>00, <1>4, SchedRunnableInv DEF LeaveSched, Cont
  <2>2. CoreInv'
    BY <1>4, <2>1, CoreAgain DEF LeaveSched
  <2>3. TypeRest'
    BY <1>0, <1>4, <2>1 DEF LeaveSched, TypeRest, RunType, sigvars, loopvars, Mode
  <2>4. ModeInv'
    BY <1>0, <1>4, <2>1 DEF LeaveSched, ModeInv, loopvars
  <2>5. QED
    BY <2>2, <2>3, <2>4, TypeWhole DEF TInv
<1>5. CASE LeaveUser
  <2>1. CoreInv'
    BY <1>0, <1>5, CoreSame DEF LeaveUser, runvars, tabvars
  <2>2. TypeRest'
    BY <1>0, <1>5 DEF LeaveUser, TypeRest, tabvars, runvars, sigvars, loopvars, Mode
  <2>3. ModeInv'
    BY <1>0, <1>00, <1>5 DEF LeaveUser, ModeInv, loopvars
  <2>4. QED
    BY <2>1, <2>2, <2>3, TypeWhole DEF TInv
<1>6. ASSUME NEW ok \in BOOLEAN, LeaveExec(ok) PROVE TInv'
  <2>1. CoreInv'
    BY <1>0, <1>6, CoreSame DEF LeaveExec, runvars
  <2>2. handler' \in [Slot -> [Sig -> Disposition]]
    BY <1>0, <1>6, <1>00 DEF LeaveExec, TypeRest, DoExec, Disposition, Sig
  <2>3. received' \in [Slot -> SUBSET Sig]
    BY <1>0, <1>6, <1>00 DEF LeaveExec, TypeRest, Sig
  <2>4. TypeRest'
    BY <1>0, <1>6, <2>2, <2>3 DEF LeaveExec, TypeRest, runvars, loopvars
  <2>5. ModeInv'
    BY <1>0, <1>00, <1>6 DEF LeaveExec, ModeInv, loopvars
  <2>6. QED
    BY <2>1, <2>4, <2>5, TypeWhole DEF TInv
<1>7. CASE ScanDone
  <2>1. CoreInv'
    BY <1>0, <1>7, CoreSame DEF ScanDone, runvars, tabvars
  <2>2. pending' \in [Slot -> BOOLEAN]
    BY <1>0, <1>7 DEF ScanDone, TypeRest
  <2>3. mode' \in Mode /\ sigpos' \in Nat
    BY <1>0, <1>7 DEF ScanDone, TypeRest, Mode
  <2>4. TypeRest'
    BY <1>0, <1>7, <2>2, <2>3 DEF ScanDone, TypeRest, tabvars, runvars
  <2>5. ModeInv'
    BY <1>0, <1>00, <1>7 DEF ScanDone, ModeInv, TypeRest
  <2>6. QED
    BY <2>1, <2>4, <2>5, TypeWhole DEF TInv
<1>8. CASE ScanSignal
  <2>1. CoreInv'
    BY <1>0, <1>8, CoreSame DEF ScanSignal, runvars, tabvars
  <2>2. PICK s \in DueSigs :
          /\ received' = [received EXCEPT ![curr] = @ \ {s}]
          /\ handler' = IF handler[curr][s] = "FN"
                        THEN [handler EXCEPT ![curr][s] = "DFL"] ELSE handler
          /\ IF handler[curr][s] = "DFL" /\ s \notin HarmlessSig
             THEN mode' = "exit" /\ sigpos' = 0
             ELSE UNCHANGED mode /\ sigpos' = s + 1
    BY <1>8 DEF ScanSignal
  <2>3. s \in Sig /\ s \in Nat
    BY <1>0, <1>00 DEF DueSigs, TypeRest, Sig, SIGKILL, SIGSTOP, SIGCONT, SIGALRM, SIGCHLD,
       SIGEXEC, SIGOOM
  <2>4. handler' \in [Slot -> [Sig -> Disposition]] /\ received' \in [Slot -> SUBSET Sig]
    BY <1>0, <1>00, <2>2, <2>3 DEF TypeRest, Disposition
  <2>5. mode' \in Mode /\ sigpos' \in Nat
    BY <1>0, <2>2, <2>3 DEF TypeRest, Mode
  <2>6. TypeRest'
    BY <1>0, <1>8, <2>4, <2>5 DEF ScanSignal, TypeRest, tabvars, runvars
  <2>7. ModeInv'
    BY <1>0, <1>00, <1>8, <2>2 DEF ScanSignal, ModeInv
  <2>8. QED
    BY <2>1, <2>6, <2>7, TypeWhole DEF TInv
<1>9. QED
  BY <1>1, <1>2, <1>3, <1>4, <1>5, <1>6, <1>7, <1>8 DEF Return, Outcome

\* task_exit.
LEMMA ExitInv == ASSUME TInv, ExitChildren \/ ExitNotify PROVE TInv'
<1> USE DEF At
<1>0. mode # "pick" /\ TypeRest /\ TypeOK /\ CoreInv /\ ModeInv
  BY TypeParts DEF TInv, ExitChildren, ExitNotify
<1>00. curr \in Slot /\ curr # NoTask /\ init \in Slot /\ SIGCHLD \in Sig
  BY <1>0, Running, QueueFacts DEF Sig
<1>1. CASE ExitChildren
  <2>1. /\ StayCore /\ RunType
        /\ received' \in [Slot -> SUBSET Sig] /\ pending' \in [Slot -> BOOLEAN]
        /\ stopped' \in [Slot -> BOOLEAN]
    <3>1. CASE curr # init /\ Zombies(curr) # {}
      BY <1>0, <1>00, <1>1, <3>1, SignalSendInv DEF ExitChildren
    <3>2. CASE ~(curr # init /\ Zombies(curr) # {})
      <4>1. UNCHANGED <<paused, slice, queue, q, task_pcount, resched, received, pending,
                        stopped, curr>> /\ panic' \in {TRUE, panic}
        BY <1>1, <3>2 DEF ExitChildren, runvars
      <4>2. QED
        BY <1>0, <4>1 DEF StayCore, RunType, CoreInv, TypeRest
    <3>3. QED
      BY <3>1, <3>2
  <2>2. CoreInv'
    BY <1>1, <2>1, CoreStay DEF ExitChildren
  <2>3. parent' \in [Slot -> Slot] /\ mode' \in {"exit", "notify"}
    BY <1>0, <1>00, <1>1 DEF ExitChildren, TypeRest
  <2>4. TypeRest'
    BY <1>0, <1>1, <2>1, <2>3 DEF ExitChildren, TypeRest, RunType, loopvars, Mode
  <2>5. ModeInv'
    BY <1>0, <1>00, <1>1, <2>3 DEF ExitChildren, ModeInv, loopvars
  <2>6. QED
    BY <2>2, <2>4, <2>5, TypeWhole DEF TInv
<1>2. CASE ExitNotify
  <2>1. Heir \in Slot
    BY <1>0, <1>00 DEF Heir, TypeRest
  <2>2. /\ StayCore /\ RunType
        /\ received' \in [Slot -> SUBSET Sig] /\ pending' \in [Slot -> BOOLEAN]
        /\ stopped' \in [Slot -> BOOLEAN]
    BY <1>0, <1>00, <1>2, <2>1, SignalSendInv DEF ExitNotify
  <2>3. CoreInv'
    BY <1>00, <1>2, <2>2, DieCore DEF ExitNotify, CoreInv, StayCore
  <2>4. parent' \in [Slot -> Slot]
    BY <1>0, <1>2, <2>1 DEF ExitNotify, TypeRest
  <2>5. TypeRest'
    BY <1>0, <1>2, <2>2, <2>4 DEF ExitNotify, TypeRest, RunType, loopvars, Mode
  <2>6. ModeInv'
    BY <1>0, <1>2 DEF ExitNotify, ModeInv, loopvars
  <2>7. QED
    BY <2>3, <2>5, <2>6, TypeWhole DEF TInv
<1>3. QED
  BY <1>1, <1>2

\* The dispatcher.
LEMMA PickInv == ASSUME TInv, Pick PROVE TInv' /\ (panic' => panic)
<1> USE DEF At
<1>0. mode = "pick" /\ TypeRest /\ TypeOK /\ CoreInv /\ ModeInv /\ curr = NoTask
  BY TypeParts DEF TInv, Pick, ModeInv
<1>1. Core(used, exited, paused, queue, q, NoTask, task_count, task_pcount)
  BY <1>0 DEF CoreInv
<1>2. task_count # task_pcount
  BY DEF Pick
<1>3. PICK r \in ReadyQueue : q[r] # <<>>
  BY <1>1, <1>2, ReadyExists
<1>4. r \in NonEmpty
  BY <1>3 DEF NonEmpty
<1>5. PICK p \in NonEmpty : Dispatch(p)
  BY <1>4 DEF Pick
<1>6. p \in ReadyQueue /\ q[p] # <<>>
  BY <1>5 DEF NonEmpty
<1> DEFINE t  == Head(q[p])
           s  == IF slice[t] + TimeSlice > SliceMax THEN SliceMax ELSE slice[t] + TimeSlice
           q1 == [q EXCEPT ![p] = Tail(@)]
           u1 == [queue EXCEPT ![t] = NoQueue]
<1>7. /\ t \in Living(used, exited) /\ paused[t] = 0
      /\ Core(used, exited, paused, u1, q1, t, task_count, task_pcount)
  BY <1>1, <1>6, DispatchCore
<1>8. t \in Slot /\ ~exited[t] /\ t # NoTask
  BY <1>7, QueueFacts DEF Living
<1>9. /\ slice' = [slice EXCEPT ![t] = s]
      /\ IF s < 0
         THEN /\ q' = Inserted(q1, prio[t], t)
              /\ queue' = [queue EXCEPT ![t] = prio[t]]
              /\ UNCHANGED <<curr, mode, cont, wpid, panic>>
         ELSE /\ q' = q1
              /\ queue' = u1
              /\ curr' = t
              /\ mode' = cont[t]
              /\ cont' = [cont EXCEPT ![t] = "leave"]
              /\ wpid' = [wpid EXCEPT ![t] = NoTask]
              /\ panic' = (panic \/ exited[t] \/ paused[t] # 0)
  BY <1>5 DEF Dispatch
<1>10. s \in Int /\ prio[t] \in ReadyQueue /\ cont[t] \in Cont
  BY <1>0, <1>8, TaskAssumption DEF TypeRest
<1>11. UNCHANGED <<used, exited, parent, exec, armed, prio, bq, paused, task_pcount,
                   sigvars, loopvars, task_count, irq>> /\ resched' = FALSE
  BY DEF Pick
<1> HIDE DEF t, s
<1>12. CoreInv'
  <2>1. CASE s < 0
    <3>1. Core(used, exited, paused, [u1 EXCEPT ![t] = prio[t]], Inserted(q1, prio[t], t),
               NoTask, task_count, task_pcount)
      <4> HIDE DEF u1, q1
      <4>1. QED
        BY <1>7, <1>8, <1>10, YieldCore
    <3>2. [u1 EXCEPT ![t] = prio[t]] = [queue EXCEPT ![t] = prio[t]]
      BY <1>8, <1>0 DEF TypeOK
    <3>3. QED
      BY <1>0, <1>9, <1>11, <2>1, <3>1, <3>2 DEF CoreInv
  <2>2. CASE ~(s < 0)
    BY <1>7, <1>9, <1>11, <2>2 DEF CoreInv
  <2>3. QED
    BY <2>1, <2>2
<1>13. slice' \in [Slot -> Int] /\ cont' \in [Slot -> Cont]
       /\ wpid' \in [Slot -> Slot \cup {NoTask}] /\ mode' \in Cont \cup {"pick"}
  BY <1>0, <1>8, <1>9, <1>10 DEF TypeRest, Cont
<1>14. panic' = panic
  BY <1>0, <1>7, <1>8, <1>9 DEF TypeRest
<1>15. TypeRest'
  BY <1>0, <1>11, <1>13, <1>14 DEF TypeRest, sigvars, loopvars, Mode, Cont
<1>16. ModeInv'
  <2>1. CASE s < 0
    BY <1>0, <1>9, <1>11, <2>1 DEF ModeInv, loopvars
  <2>2. CASE ~(s < 0)
    <3>1. curr' # NoTask /\ mode' \in Cont
      BY <1>8, <1>9, <1>10, <2>2
    <3>2. QED
      BY <1>0, <1>11, <3>1 DEF ModeInv, loopvars, Cont
  <2>3. QED
    BY <2>1, <2>2
<1>17. QED
  BY <1>12, <1>14, <1>15, <1>16, TypeWhole DEF TInv

\* The first steps of a new task: after_fork and new_task_entry.
LEMMA EntryInv ==
    ASSUME TInv, AfterFork \/ AfterForkSched \/ AfterForkUser
                 \/ \E ok \in BOOLEAN : NewTaskEntry(ok)
    PROVE  TInv'
<1> USE DEF At
<1>0. mode # "pick" /\ TypeRest /\ TypeOK /\ CoreInv /\ ModeInv
  BY TypeParts DEF TInv, AfterFork, AfterForkSched, AfterForkUser, NewTaskEntry
<1>00. curr \in Slot /\ curr # NoTask
  BY <1>0, Running
<1>1. CASE AfterFork
  <2>1. CoreInv'
    BY <1>0, <1>1, CoreSame DEF AfterFork, runvars, tabvars
  <2>2. /\ pending' \in [Slot -> BOOLEAN] /\ mode' \in {"scan", "forked"}
        /\ sigpos' \in Nat /\ sigret' \in {"leave", "forked"}
    <3>1. /\ pending \in [Slot -> BOOLEAN]
          /\ sigpos \in Nat /\ sigret \in {"leave", "forked"}
      BY <1>0 DEF TypeRest
    <3>2. CASE pending[curr]
      <4>1. /\ pending' = [pending EXCEPT ![curr] = FALSE]
            /\ mode' = "scan" /\ sigpos' = 1 /\ sigret' = "forked"
        BY <1>1, <3>2 DEF AfterFork
      <4>2. QED
        BY <3>1, <4>1
    <3>3. CASE ~pending[curr]
      BY <1>1, <3>1, <3>3 DEF AfterFork
    <3>4. QED
      BY <3>2, <3>3
  <2>3. TypeRest'
    BY <1>0, <1>1, <2>2 DEF AfterFork, TypeRest, tabvars, runvars, Mode
  <2>4. ModeInv'
    BY <1>0, <1>00, <1>1, <2>2 DEF AfterFork, ModeInv
  <2>5. QED
    BY <2>1, <2>3, <2>4, TypeWhole DEF TInv
<1>2. CASE AfterForkSched
  <2>1. /\ RunCore /\ RunType /\ cont' \in [Slot -> Cont]
        /\ mode' = IF curr' = NoTask THEN "pick" ELSE "fork"
    BY <1>0, <1>00, <1>2, SchedRunnableInv DEF AfterForkSched, Cont
  <2>2. CoreInv'
    BY <1>2, <2>1, CoreAgain DEF AfterForkSched
  <2>3. TypeRest'
    BY <1>0, <1>2, <2>1 DEF AfterForkSched, TypeRest, RunType, sigvars, loopvars, Mode
  <2>4. ModeInv'
    BY <1>0, <1>2, <2>1 DEF AfterForkSched, ModeInv, loopvars
  <2>5. QED
    BY <2>2, <2>3, <2>4, TypeWhole DEF TInv
<1>3. CASE AfterForkUser
  <2>1. CoreInv'
    BY <1>0, <1>3, CoreSame DEF AfterForkUser, runvars, tabvars
  <2>2. TypeRest'
    BY <1>0, <1>3 DEF AfterForkUser, TypeRest, tabvars, runvars, sigvars, loopvars, Mode
  <2>3. ModeInv'
    BY <1>0, <1>00, <1>3 DEF AfterForkUser, ModeInv, loopvars
  <2>4. QED
    BY <2>1, <2>2, <2>3, TypeWhole DEF TInv
<1>4. ASSUME NEW ok \in BOOLEAN, NewTaskEntry(ok) PROVE TInv'
  <2>1. CoreInv'
    BY <1>0, <1>4, CoreSame DEF NewTaskEntry, runvars
  <2>2. handler' \in [Slot -> [Sig -> Disposition]] /\ mode' \in {"user", "exit"}
    BY <1>0, <1>4, <1>00 DEF NewTaskEntry, TypeRest, DoExec, Disposition
  <2>3. TypeRest'
    BY <1>0, <1>4, <2>2 DEF NewTaskEntry, TypeRest, runvars, loopvars, Mode
  <2>4. ModeInv'
    BY <1>0, <1>00, <1>4, <2>2 DEF NewTaskEntry, ModeInv, loopvars
  <2>5. QED
    BY <2>1, <2>3, <2>4, TypeWhole DEF TInv
<1>5. QED
  BY <1>1, <1>2, <1>3, <1>4

\* The first task of a queue is a task that lives and is not running.
LEMMA HeadOfQueue ==
    ASSUME TInv, NEW c \in Queue, q[c] # <<>>
    PROVE  Head(q[c]) \in Slot /\ ~exited[Head(q[c])]
<1>1. q[c] \in Seq(Slot) /\ queue \in [Slot -> Queue \cup {NoQueue}] /\ Linked(q, queue)
  BY DEF TInv, CoreInv, Core
<1>2. Head(q[c]) = q[c][1] /\ 1 \in 1..Len(q[c]) /\ Head(q[c]) \in Slot
  BY <1>1, HeadTailProperties, ElementOfSeq
<1>3. queue[Head(q[c])] = c
  BY <1>1, <1>2 DEF Linked
<1>4. queue[Head(q[c])] # NoQueue
  BY <1>3, QueueFacts
<1>5. Head(q[c]) \in Living(used, exited)
  BY <1>2, <1>4 DEF TInv, CoreInv, Core
<1>6. QED
  BY <1>2, <1>5 DEF Living

\* The loops that wake, signal and wait.
LEMMA LoopInv ==
    ASSUME TInv, KillNext \/ BlockAgain \/ BlockOver \/ WakeNext
    PROVE  TInv' /\ (panic' => panic)
<1> USE DEF At
<1>0. mode # "pick" /\ TypeRest /\ TypeOK /\ CoreInv /\ ModeInv
  BY TypeParts DEF TInv, KillNext, BlockAgain, BlockOver, WakeNext
<1>00. curr \in Slot /\ curr # NoTask
  BY <1>0, Running
<1>1. CASE KillNext
  <2>1. PICK t \in targets :
          /\ SignalSend(t, killsig)
          /\ targets' = targets \ {t}
          /\ IF targets = {t} THEN mode' = "leave" /\ killsig' = SIGCONT
                              ELSE UNCHANGED <<mode, killsig>>
    BY <1>1 DEF KillNext
  <2>2. t \in Slot /\ killsig \in Sig
    BY <1>0 DEF TypeRest
  <2>3. /\ StayCore /\ RunType /\ (panic' => panic)
        /\ received' \in [Slot -> SUBSET Sig] /\ pending' \in [Slot -> BOOLEAN]
        /\ stopped' \in [Slot -> BOOLEAN]
    BY <1>0, <2>1, <2>2, SignalSendInv
  <2>4. CoreInv'
    BY <1>1, <2>3, CoreStay DEF KillNext, tabvars
  <2>5. mode' \in {"leave", "kill"} /\ killsig' \in {SIGCONT, killsig} /\ targets' \in SUBSET Slot
    BY <1>0, <1>1, <2>1 DEF KillNext, TypeRest
  <2>6. TypeRest'
    BY <1>0, <1>1, <2>3, <2>5 DEF KillNext, TypeRest, RunType, tabvars, Mode, Sig
  <2>7. ModeInv'
    BY <1>0, <1>00, <1>1, <2>5 DEF KillNext, ModeInv, SIGCONT, SIGALRM
  <2>8. QED
    BY <2>3, <2>4, <2>6, <2>7, TypeWhole DEF TInv
<1>2. CASE BlockAgain
  <2>1. bq[curr] \in SleepPlace /\ WaitType(bq[curr]) \in SleepType
    BY <1>0, <1>00 DEF TypeRest, SleepPlace, SleepType, WaitType
  <2>2. /\ RunCore /\ RunType /\ (panic' => panic) /\ cont' \in [Slot -> Cont]
        /\ mode' = IF curr' = NoTask THEN "pick" ELSE "leave"
    BY <1>0, <1>00, <1>2, <2>1, TaskSuspendInv DEF BlockAgain, Cont
  <2>3. CoreInv'
    BY <1>2, <2>2, CoreAgain DEF BlockAgain
  <2>4. TypeRest'
    BY <1>0, <1>2, <2>2 DEF BlockAgain, TypeRest, RunType, sigvars, loopvars, Mode
  <2>5. ModeInv'
    BY <1>0, <1>2, <2>2 DEF BlockAgain, ModeInv, loopvars
  <2>6. QED
    BY <2>2, <2>3, <2>4, <2>5, TypeWhole DEF TInv
<1>3. CASE BlockOver
  <2>1. CoreInv'
    BY <1>0, <1>3, CoreSame DEF BlockOver, runvars
  <2>2. TypeRest'
    BY <1>0, <1>3 DEF BlockOver, TypeRest, runvars, sigvars, loopvars, Mode
  <2>3. ModeInv'
    BY <1>0, <1>00, <1>3 DEF BlockOver, ModeInv, loopvars
  <2>4. panic' = panic
    BY <1>3 DEF BlockOver
  <2>5. QED
    BY <2>1, <2>2, <2>3, <2>4, TypeWhole DEF TInv
<1>4. CASE WakeNext
  <2>1. wakeq \in Queue
    BY <1>0, <1>4, QueueFacts DEF WakeNext, ModeInv
  <2>2. StayCore /\ RunType /\ (panic' => panic)
    <3>1. CASE q[wakeq] = <<>>
      BY <1>0, <1>4, <3>1 DEF WakeNext, StayCore, RunType, CoreInv, TypeRest, runvars
    <3>2. CASE q[wakeq] # <<>>
      BY <1>0, <1>4, <2>1, <3>2, HeadOfQueue, TaskResumeInv DEF WakeNext
    <3>3. QED
      BY <3>1, <3>2
  <2>3. CoreInv'
    BY <1>4, <2>2, CoreStay DEF WakeNext, tabvars
  <2>4. (mode' = "leave" /\ wakeq' = NoQueue) \/ UNCHANGED <<mode, wakeq>>
    BY <1>4 DEF WakeNext
  <2>5. TypeRest'
    BY <1>0, <1>4, <2>2, <2>4 DEF WakeNext, TypeRest, RunType, tabvars, sigvars, Mode
  <2>6. ModeInv'
    BY <1>0, <1>00, <1>4, <2>4 DEF WakeNext, ModeInv
  <2>7. QED
    BY <2>2, <2>3, <2>5, <2>6, TypeWhole DEF TInv
<1>5. QED
  BY <1>1, <1>2, <1>3, <1>4

\* fork and newtask.
LEMMA CreateInv ==
    ASSUME TInv, NEW t \in Slot,
           SysNewtask(t) \/ \E ok \in BOOLEAN : SysFork(t, ok)
    PROVE  TInv' /\ (panic' => panic)
<1> USE DEF At
<1>0. mode # "pick" /\ TypeRest /\ TypeOK /\ CoreInv /\ ModeInv
  BY TypeParts DEF TInv, SysNewtask, SysFork
<1>00. curr \in Slot /\ curr # NoTask /\ ~used[t]
  BY <1>0, Running DEF SysNewtask, SysFork, FreeSlot
<1>000. queue[curr] = NoQueue /\ prio[curr] \in ReadyQueue
  BY <1>0, <1>00 DEF CoreInv, Core, TypeRest
<1>1. ASSUME NEW ok \in BOOLEAN, SysFork(t, ok) PROVE TInv' /\ (panic' => panic)
  <2>1. /\ queue[t] = NoQueue
        /\ Core([used EXCEPT ![t] = TRUE], exited, paused, [queue EXCEPT ![t] = 0],
                Inserted(q, 0, t), curr, task_count + 1, task_pcount)
    BY <1>0, <1>00, QueueFacts, CreateCore DEF CoreInv
  <2>2. CoreInv'
    BY <1>1, <2>1 DEF SysFork, CoreInv
  <2>3. panic' \in BOOLEAN /\ (panic' => panic)
    BY <1>1, <2>1 DEF SysFork, InsertPanics
  <2>4. handler' \in [Slot -> [Sig -> Disposition]]
    <3>1. handler \in [Slot -> [Sig -> Disposition]]
      BY <1>0 DEF TypeRest
    <3> DEFINE h == [s \in Sig |-> IF ~ok /\ s = SIGOOM /\ handler[curr][s] = "IGN"
                                   THEN "DFL" ELSE handler[curr][s]]
    <3>2. h \in [Sig -> Disposition]
      BY <1>00, <3>1 DEF Disposition
    <3>3. handler' = [handler EXCEPT ![t] = h]
      BY <1>1 DEF SysFork
    <3> HIDE DEF h
    <3>4. QED
      BY <3>1, <3>2, <3>3
  <2>5. received' \in [Slot -> SUBSET Sig]
    <3>1. received \in [Slot -> SUBSET Sig] /\ SIGOOM \in Sig
      BY <1>0 DEF TypeRest, Sig
    <3>2. received' = [received EXCEPT ![t] = IF ok THEN received[curr]
                                              ELSE received[curr] \cup {SIGOOM}]
      BY <1>1 DEF SysFork
    <3>3. QED
      BY <1>00, <3>1, <3>2
  <2>6. pending' \in [Slot -> BOOLEAN] /\ slice' \in [Slot -> Int]
    BY <1>0, <1>1 DEF SysFork, TypeRest
  <2>7. parent' \in [Slot -> Slot] /\ prio' \in [Slot -> ReadyQueue] /\ cont' \in [Slot -> Cont]
    BY <1>0, <1>00, <1>000, <1>1 DEF SysFork, TypeRest, Cont
  <2>8. TypeRest'
    BY <1>0, <1>1, <2>3, <2>4, <2>5, <2>6, <2>7 DEF SysFork, TypeRest, loopvars, Mode
  <2>9. ModeInv'
    BY <1>0, <1>00, <1>1 DEF SysFork, ModeInv, loopvars
  <2>10. QED
    BY <2>2, <2>3, <2>8, <2>9, TypeWhole DEF TInv
<1>2. CASE SysNewtask(t)
  <2>1. Core([used EXCEPT ![t] = TRUE], exited, paused, [queue EXCEPT ![t] = prio[curr]],
             Inserted(q, prio[curr], t), curr, task_count + 1, task_pcount)
    BY <1>0, <1>00, <1>000, CreateCore DEF CoreInv
  <2>2. CoreInv'
    BY <1>2, <2>1 DEF SysNewtask, CoreInv
  <2>3. panic' \in BOOLEAN /\ (panic' => panic)
    BY <1>2, <1>000 DEF SysNewtask, InsertPanics
  <2>4. handler' \in [Slot -> [Sig -> Disposition]]
    <3>1. handler \in [Slot -> [Sig -> Disposition]]
      BY <1>0 DEF TypeRest
    <3> DEFINE h == [s \in Sig |-> IF handler[curr][s] = "IGN" THEN "IGN" ELSE "DFL"]
    <3>2. h \in [Sig -> Disposition]
      BY DEF Disposition
    <3>3. handler' = [handler EXCEPT ![t] = h]
      BY <1>2 DEF SysNewtask
    <3> HIDE DEF h
    <3>4. QED
      BY <3>1, <3>2, <3>3
  <2>5. received' \in [Slot -> SUBSET Sig]
    <3>1. received \in [Slot -> SUBSET Sig]
      BY <1>0 DEF TypeRest
    <3>2. received' = [received EXCEPT ![t] = {s \in received[curr] : handler[curr][s] = "IGN"}]
      BY <1>2 DEF SysNewtask
    <3>3. QED
      BY <1>00, <3>1, <3>2
  <2>6. stopped' \in [Slot -> BOOLEAN] /\ exec' \in [Slot -> BOOLEAN] /\ slice' \in [Slot -> Int]
    BY <1>0, <1>00, <1>2 DEF SysNewtask, TypeRest
  <2>7. parent' \in [Slot -> Slot] /\ prio' \in [Slot -> ReadyQueue] /\ cont' \in [Slot -> Cont]
    BY <1>0, <1>00, <1>000, <1>2 DEF SysNewtask, TypeRest, Cont
  <2>8. TypeRest'
    BY <1>0, <1>2, <2>3, <2>4, <2>5, <2>6, <2>7 DEF SysNewtask, TypeRest, loopvars, Mode
  <2>9. ModeInv'
    BY <1>0, <1>00, <1>2 DEF SysNewtask, ModeInv, loopvars
  <2>10. QED
    BY <2>2, <2>3, <2>8, <2>9, TypeWhole DEF TInv
<1>3. QED
  BY <1>1, <1>2

\* The calls that put curr to sleep.
LEMMA SleepInv ==
    ASSUME TInv,
           \/ SysPause
           \/ \E w \in Slot \cup {NoTask} : SysWaitSleep(w)
           \/ \E c \in WaitQueue : SysBlock(c)
    PROVE  TInv' /\ (panic' => panic)
<1> USE DEF At
<1>0. mode # "pick" /\ TypeRest /\ TypeOK /\ CoreInv /\ ModeInv
  BY TypeParts DEF TInv, SysPause, SysWaitSleep, SysBlock
<1>00. /\ curr \in Slot /\ curr # NoTask
       /\ NoQueue \in SleepPlace /\ WAIT_INTR \in SleepType
       /\ XWaitQ \in SleepPlace /\ "leave" \in Cont /\ "block" \in Cont
       /\ \A c \in WaitQueue : c \in SleepPlace /\ WaitType(c) \in SleepType
  BY <1>0, Running, QueueFacts DEF SleepPlace, SleepType, Cont, WaitType
<1>1. CASE SysPause
  <2>1. /\ RunCore /\ RunType /\ (panic' => panic) /\ cont' \in [Slot -> Cont]
        /\ mode' = IF curr' = NoTask THEN "pick" ELSE "leave"
    BY <1>0, <1>00, <1>1, TaskSuspendInv DEF SysPause
  <2>2. CoreInv'
    BY <1>1, <2>1, CoreAgain DEF SysPause
  <2>3. TypeRest'
    BY <1>0, <1>1, <2>1 DEF SysPause, TypeRest, RunType, sigvars, loopvars, Mode
  <2>4. ModeInv'
    BY <1>0, <1>1, <2>1 DEF SysPause, ModeInv, loopvars
  <2>5. QED
    BY <2>1, <2>2, <2>3, <2>4, TypeWhole DEF TInv
<1>2. ASSUME NEW w \in Slot \cup {NoTask}, SysWaitSleep(w) PROVE TInv' /\ (panic' => panic)
  <2>1. /\ RunCore /\ RunType /\ (panic' => panic) /\ cont' \in [Slot -> Cont]
        /\ mode' = IF curr' = NoTask THEN "pick" ELSE "leave"
    BY <1>0, <1>00, <1>2, TaskSuspendInv DEF SysWaitSleep
  <2>2. CoreInv'
    BY <1>2, <2>1, CoreAgain DEF SysWaitSleep
  <2>3. wpid' \in [Slot -> Slot \cup {NoTask}]
    BY <1>0, <1>2 DEF SysWaitSleep, TypeRest
  <2>4. TypeRest'
    BY <1>0, <1>2, <2>1, <2>3 DEF SysWaitSleep, TypeRest, RunType, sigvars, loopvars, Mode
  <2>5. ModeInv'
    BY <1>0, <1>2, <2>1 DEF SysWaitSleep, ModeInv, loopvars
  <2>6. QED
    BY <2>1, <2>2, <2>4, <2>5, TypeWhole DEF TInv
<1>3. ASSUME NEW c \in WaitQueue, SysBlock(c) PROVE TInv' /\ (panic' => panic)
  <2>1. /\ RunCore /\ RunType /\ (panic' => panic) /\ cont' \in [Slot -> Cont]
        /\ mode' = IF curr' = NoTask THEN "pick" ELSE "leave"
    BY <1>0, <1>00, <1>3, TaskSuspendInv DEF SysBlock
  <2>2. CoreInv'
    BY <1>3, <2>1, CoreAgain DEF SysBlock
  <2>3. TypeRest'
    BY <1>0, <1>3, <2>1 DEF SysBlock, TypeRest, RunType, sigvars, loopvars, Mode
  <2>4. ModeInv'
    BY <1>0, <1>3, <2>1 DEF SysBlock, ModeInv, loopvars
  <2>5. QED
    BY <2>1, <2>2, <2>3, <2>4, TypeWhole DEF TInv
<1>4. QED
  BY <1>1, <1>2, <1>3

\* The calls that return at once.
LEMMA CallInv ==
    ASSUME TInv,
           \/ SysExit \/ SysExec
           \/ \E inc \in NiceInc : SysNice(inc)
           \/ \E on \in BOOLEAN : SysAlarm(on)
           \/ \E ts \in KillTargets, s \in KillSig : SysKill(ts, s)
           \/ \E c \in WaitQueue : SysWake(c)
    PROVE  TInv' /\ (panic' => panic)
<1> USE DEF At
<1>0. mode # "pick" /\ TypeRest /\ TypeOK /\ CoreInv /\ ModeInv
  BY TypeParts DEF TInv, SysExit, SysExec, SysNice, SysAlarm, SysKill, SysWake
<1>00. curr \in Slot /\ curr # NoTask
  BY <1>0, Running
<1>1. CASE SysExit
  <2>1. CoreInv'
    BY <1>0, <1>1, CoreSame DEF SysExit, runvars, tabvars
  <2>2. TypeRest'
    BY <1>0, <1>1 DEF SysExit, TypeRest, tabvars, runvars, sigvars, loopvars, Mode
  <2>3. ModeInv' /\ panic' = panic
    BY <1>0, <1>00, <1>1 DEF SysExit, ModeInv, loopvars
  <2>4. QED
    BY <2>1, <2>2, <2>3, TypeWhole DEF TInv
<1>2. CASE SysExec
  <2>1. CoreInv'
    BY <1>0, <1>2, CoreSame DEF SysExec, runvars
  <2>2. TypeRest'
    BY <1>0, <1>2 DEF SysExec, TypeRest, runvars, sigvars, loopvars, Mode
  <2>3. ModeInv' /\ panic' = panic
    BY <1>0, <1>00, <1>2 DEF SysExec, ModeInv, loopvars
  <2>4. QED
    BY <2>1, <2>2, <2>3, TypeWhole DEF TInv
<1>3. ASSUME NEW inc \in NiceInc, SysNice(inc) PROVE TInv' /\ (panic' => panic)
  <2>1. CoreInv'
    BY <1>0, <1>3, CoreSame DEF SysNice, runvars
  <2>2. prio' \in [Slot -> ReadyQueue]
    <3>1. prio \in [Slot -> ReadyQueue] /\ inc \in Int /\ PrioLow \in Nat
      BY <1>0, TaskAssumption DEF TypeRest
    <3>2. prio[curr] \in Int
      BY <1>00, <3>1 DEF ReadyQueue
    <3>3. NicePrio(prio[curr], inc) \in ReadyQueue
      BY <3>1, <3>2 DEF NicePrio, ReadyQueue
    <3>4. prio' = [prio EXCEPT ![curr] = NicePrio(prio[curr], inc)]
      BY <1>3 DEF SysNice
    <3>5. QED
      BY <3>1, <3>3, <3>4
  <2>3. TypeRest'
    BY <1>0, <1>3, <2>2 DEF SysNice, TypeRest, runvars, sigvars, loopvars, Mode
  <2>4. ModeInv' /\ panic' = panic
    BY <1>0, <1>00, <1>3 DEF SysNice, ModeInv, loopvars
  <2>5. QED
    BY <2>1, <2>3, <2>4, TypeWhole DEF TInv
<1>4. ASSUME NEW on \in BOOLEAN, SysAlarm(on) PROVE TInv' /\ (panic' => panic)
  <2>1. CoreInv'
    BY <1>0, <1>4, CoreSame DEF SysAlarm, runvars
  <2>2. TypeRest'
    BY <1>0, <1>4 DEF SysAlarm, TypeRest, runvars, sigvars, loopvars, Mode
  <2>3. ModeInv' /\ panic' = panic
    BY <1>0, <1>00, <1>4 DEF SysAlarm, ModeInv, loopvars
  <2>4. QED
    BY <2>1, <2>2, <2>3, TypeWhole DEF TInv
<1>5. ASSUME NEW ts \in KillTargets, NEW s \in KillSig, SysKill(ts, s)
      PROVE  TInv' /\ (panic' => panic)
  <2>1. CoreInv'
    BY <1>0, <1>5, CoreSame DEF SysKill, runvars, tabvars
  <2>2. ts \in SUBSET Slot /\ s \in Sig /\ s # SIGALRM
    BY TaskAssumption DEF KillTargets
  <2>3. TypeRest'
    BY <1>0, <1>5, <2>2 DEF SysKill, TypeRest, tabvars, runvars, sigvars, Mode
  <2>4. ModeInv' /\ panic' = panic
    BY <1>0, <1>00, <1>5, <2>2 DEF SysKill, ModeInv
  <2>5. QED
    BY <2>1, <2>3, <2>4, TypeWhole DEF TInv
<1>6. ASSUME NEW c \in WaitQueue, SysWake(c) PROVE TInv' /\ (panic' => panic)
  <2>1. CoreInv'
    BY <1>0, <1>6, CoreSame DEF SysWake, runvars, tabvars
  <2>2. TypeRest'
    BY <1>0, <1>6 DEF SysWake, TypeRest, tabvars, runvars, sigvars, Mode
  <2>3. ModeInv' /\ panic' = panic
    BY <1>0, <1>00, <1>6 DEF SysWake, ModeInv
  <2>4. QED
    BY <2>1, <2>2, <2>3, TypeWhole DEF TInv
<1>7. QED
  BY <1>1, <1>2, <1>3, <1>4, <1>5, <1>6

\* wait() that finds a dead child, and signal().
LEMMA ReapInv ==
    ASSUME TInv, NEW w, NEW z \in Slot, SysWaitReap(w, z)
    PROVE  TInv' /\ (panic' => panic)
<1> USE DEF At
<1>0. mode # "pick" /\ TypeRest /\ TypeOK /\ CoreInv /\ ModeInv /\ init \in Slot
  BY TypeParts, QueueFacts DEF TInv, SysWaitReap
<1>1. curr \in Slot /\ curr # NoTask
  BY <1>0, Running
<1>2. exited[z]
  BY DEF SysWaitReap, Zombies
<1>3. Core([used EXCEPT ![z] = FALSE], [exited EXCEPT ![z] = FALSE], paused, queue, q, curr,
           task_count, task_pcount)
  BY <1>0, <1>2, ReapCore DEF CoreInv
<1>4. CoreInv'
  BY <1>3 DEF SysWaitReap, CoreInv
<1>5. /\ stopped' \in [Slot -> BOOLEAN] /\ exec' \in [Slot -> BOOLEAN]
      /\ armed' \in [Slot -> BOOLEAN] /\ pending' \in [Slot -> BOOLEAN]
  BY <1>0 DEF SysWaitReap, TypeRest
<1>6. /\ prio' \in [Slot -> ReadyQueue] /\ slice' \in [Slot -> Int]
      /\ parent' \in [Slot -> Slot] /\ cont' \in [Slot -> Cont]
  BY <1>0, QueueFacts DEF SysWaitReap, TypeRest, Cont
<1>7. /\ bq' \in [Slot -> WaitQueue \cup {NoQueue}]
      /\ wpid' \in [Slot -> Slot \cup {NoTask}]
      /\ received' \in [Slot -> SUBSET Sig]
  BY <1>0 DEF SysWaitReap, TypeRest
<1>8. handler' \in [Slot -> [Sig -> Disposition]]
  <2>1. [s \in Sig |-> "DFL"] \in [Sig -> Disposition]
    BY DEF Disposition
  <2>2. QED
    BY <1>0, <2>1 DEF SysWaitReap, TypeRest
<1>9. TypeRest'
  BY <1>0, <1>5, <1>6, <1>7, <1>8 DEF SysWaitReap, TypeRest, loopvars, Mode
<1>10. ModeInv' /\ panic' = panic
  BY <1>0, <1>1 DEF SysWaitReap, ModeInv, loopvars
<1>11. QED
  BY <1>4, <1>9, <1>10, TypeWhole DEF TInv

(* signal(), which may hand the caller's dead children to init, keeps TInv and does not panic. *)
LEMMA SysSignalInv ==
    ASSUME TInv, NEW s \in Sig, NEW d \in Disposition, SysSignal(s, d)
    PROVE  TInv' /\ (panic' => panic)
<1> USE DEF At
<1>0. mode # "pick" /\ TypeRest /\ TypeOK /\ CoreInv /\ ModeInv /\ init \in Slot
  BY TypeParts, QueueFacts DEF TInv, SysSignal
<1>1. curr \in Slot /\ curr # NoTask /\ SIGCHLD \in Sig
  BY <1>0, Running DEF Sig
<1> DEFINE h == IF s = SIGCONT /\ d = "IGN" THEN "DFL" ELSE d
           give == s = SIGCHLD /\ h = "IGN" /\ Zombies(curr) # {}
<1>2. h \in Disposition
  BY DEF Disposition
<1>3. /\ handler' = [handler EXCEPT ![curr][s] = h]
      /\ mode' = "leave"
      /\ IF give
         THEN /\ parent' = [c \in Slot |-> IF c \in Zombies(curr) THEN init ELSE parent[c]]
              /\ SignalSend(init, SIGCHLD)
         ELSE /\ IF s = SIGCHLD /\ h = "FN" /\ Zombies(curr) # {}
                 THEN /\ received' = [received EXCEPT ![curr] = @ \cup {SIGCHLD}]
                      /\ pending' = [pending EXCEPT ![curr] = TRUE]
                 ELSE UNCHANGED <<received, pending>>
              /\ UNCHANGED <<parent, runvars, stopped, panic>>
      /\ UNCHANGED <<used, exited, exec, armed, prio, cont, bq, wpid, loopvars, curr,
                     task_count, irq>>
  BY DEF SysSignal
<1> HIDE DEF h, give
<1>4. handler' \in [Slot -> [Sig -> Disposition]]
  BY <1>0, <1>1, <1>2, <1>3 DEF TypeRest
<1>5. /\ StayCore /\ RunType /\ (panic' => panic)
      /\ received' \in [Slot -> SUBSET Sig] /\ pending' \in [Slot -> BOOLEAN]
      /\ stopped' \in [Slot -> BOOLEAN] /\ parent' \in [Slot -> Slot]
  <2>1. CASE give
    <3>1. /\ StayCore /\ RunType /\ (panic' => panic)
          /\ received' \in [Slot -> SUBSET Sig] /\ pending' \in [Slot -> BOOLEAN]
          /\ stopped' \in [Slot -> BOOLEAN]
      BY <1>0, <1>1, <1>3, <2>1, SignalSendInv
    <3>2. parent' \in [Slot -> Slot]
      BY <1>0, <1>3, <2>1 DEF TypeRest
    <3>3. QED
      BY <3>1, <3>2
  <2>2. CASE ~give
    <3>1. UNCHANGED <<parent, paused, slice, queue, q, task_pcount, resched, stopped, panic>>
      BY <1>3, <2>2 DEF runvars
    <3>2. received \in [Slot -> SUBSET Sig] /\ pending \in [Slot -> BOOLEAN]
      BY <1>0 DEF TypeRest
    <3>3. received' \in [Slot -> SUBSET Sig]
      BY <1>1, <1>3, <2>2, <3>2
    <3>4. pending' \in [Slot -> BOOLEAN]
      BY <1>1, <1>3, <2>2, <3>2
    <3>5. QED
      BY <1>0, <3>1, <3>3, <3>4 DEF StayCore, RunType, CoreInv, TypeRest
  <2>3. QED
    BY <2>1, <2>2
<1>6. CoreInv'
  BY <1>3, <1>5, CoreStay
<1>7. TypeRest'
  BY <1>0, <1>3, <1>4, <1>5 DEF TypeRest, RunType, loopvars, Mode
<1>8. ModeInv'
  BY <1>0, <1>1, <1>3 DEF ModeInv, loopvars
<1>9. QED
  BY <1>5, <1>6, <1>7, <1>8, TypeWhole DEF TInv

\* Interrupt handlers.
LEMMA InterruptInv == ASSUME TInv, Interrupt PROVE TInv' /\ (panic' => panic)
<1>0. TypeRest /\ TypeOK /\ CoreInv /\ ModeInv
  BY TypeParts DEF TInv
<1>00. /\ AfterIntr \in Mode /\ (AfterIntr = "pick" <=> mode = "pick")
       /\ (AfterIntr = "wake" => mode = "wake")
  BY <1>0 DEF AfterIntr, TypeRest, Mode
<1>1. CASE ClockTick
  <2>1. CoreInv'
    BY <1>0, <1>1, CoreSame DEF ClockTick, tabvars
  <2>2. slice' \in [Slot -> Int] /\ resched' \in BOOLEAN
    <3>1. slice \in [Slot -> Int] /\ curr \in Slot
      BY <1>0, <1>1 DEF ClockTick, TypeRest, TypeOK
    <3>2. slice' = [slice EXCEPT ![curr] = slice[curr] - 1]
      BY <1>1 DEF ClockTick
    <3>3. resched' \in BOOLEAN
      BY <1>1 DEF ClockTick
    <3>4. QED
      BY <3>1, <3>2, <3>3
  <2>3. TypeRest'
    BY <1>0, <1>00, <1>1, <2>2 DEF ClockTick, TypeRest, tabvars, sigvars, loopvars
  <2>4. ModeInv' /\ panic' = panic
    BY <1>0, <1>00, <1>1 DEF ClockTick, ModeInv, loopvars
  <2>5. QED
    BY <2>1, <2>3, <2>4, TypeWhole DEF TInv
<1>2. ASSUME NEW t \in Slot, NEW repeat \in BOOLEAN, ClockAlarm(t, repeat)
      PROVE  TInv' /\ (panic' => panic)
  <2>1. /\ StayCore /\ RunType /\ (panic' => panic)
        /\ received' \in [Slot -> SUBSET Sig] /\ pending' \in [Slot -> BOOLEAN]
        /\ stopped' \in [Slot -> BOOLEAN]
    BY <1>0, <1>2, SignalSendInv DEF ClockAlarm, Sig
  <2>2. CoreInv'
    BY <1>2, <2>1, CoreStay DEF ClockAlarm
  <2>3. armed' \in [Slot -> BOOLEAN]
    BY <1>0, <1>2 DEF ClockAlarm, TypeRest
  <2>4. TypeRest'
    BY <1>0, <1>00, <1>2, <2>1, <2>3 DEF ClockAlarm, TypeRest, RunType, loopvars
  <2>5. ModeInv'
    BY <1>0, <1>00, <1>2 DEF ClockAlarm, ModeInv, loopvars
  <2>6. QED
    BY <2>1, <2>2, <2>4, <2>5, TypeWhole DEF TInv
<1>3. ASSUME NEW c \in WaitQueue, IntrBegin(c) PROVE TInv' /\ (panic' => panic)
  <2>1. CoreInv'
    BY <1>0, <1>3, CoreSame DEF IntrBegin, runvars, tabvars
  <2>2. TypeRest'
    BY <1>0, <1>3 DEF IntrBegin, TypeRest, tabvars, runvars, sigvars, loopvars
  <2>3. ModeInv' /\ panic' = panic
    BY <1>0, <1>3 DEF IntrBegin, ModeInv, loopvars
  <2>4. QED
    BY <2>1, <2>2, <2>3, TypeWhole DEF TInv
<1>4. CASE IntrWake
  <2>1. irq \in Queue
    BY <1>0, <1>4, QueueFacts DEF IntrWake, TypeRest
  <2>2. StayCore /\ RunType /\ (panic' => panic)
    <3>1. CASE q[irq] = <<>>
      BY <1>0, <1>4, <3>1 DEF IntrWake, StayCore, RunType, CoreInv, TypeRest, runvars
    <3>2. CASE q[irq] # <<>>
      BY <1>0, <1>4, <2>1, <3>2, HeadOfQueue, TaskResumeInv DEF IntrWake
    <3>3. QED
      BY <3>1, <3>2
  <2>3. CoreInv'
    BY <1>4, <2>2, CoreStay DEF IntrWake, tabvars
  <2>4. (irq' = NoQueue /\ mode' = AfterIntr) \/ UNCHANGED <<irq, mode>>
    BY <1>4 DEF IntrWake
  <2>5. TypeRest'
    BY <1>0, <1>00, <1>4, <2>2, <2>4 DEF IntrWake, TypeRest, RunType, tabvars, sigvars, loopvars
  <2>6. ModeInv'
    BY <1>0, <1>00, <1>4, <2>4 DEF IntrWake, ModeInv, loopvars
  <2>7. QED
    BY <2>2, <2>3, <2>5, <2>6, TypeWhole DEF TInv
<1>5. QED
  BY <1>1, <1>2, <1>3, <1>4 DEF Interrupt

-----------------------------------------------------------------------------
(* The theorems of this part.                                              *)

(* The state after boot satisfies the inductive invariant. *)
LEMMA InitTInv == ASSUME Init PROVE TInv
<1>1. /\ init \in Slot /\ NoTask \notin Slot /\ init # NoTask
      /\ NoQueue \notin Queue /\ NoQueue \notin ReadyQueue
      /\ PrioUser \in ReadyQueue
  BY QueueFacts
<1>2. Living(used, exited) = {init} /\ Asleep(paused) = {}
  BY <1>1 DEF Init, Living, Asleep
<1>3. Cardinality({init}) = 1 /\ Cardinality({}) = 0
  BY FS_Singleton, FS_EmptySet
<1>4. Linked(q, queue)
  BY <1>1 DEF Init, Linked
<1>5. q \in [Queue -> Seq(Slot)]
  BY DEF Init
<1>6. CoreInv
  BY <1>1, <1>2, <1>3, <1>4, <1>5 DEF Init, CoreInv, Core
<1>7. handler \in [Slot -> [Sig -> Disposition]]
  BY DEF Init, Disposition
<1>8. /\ task_count \in Int /\ task_pcount \in Int
      /\ SIGCONT \in Sig /\ SIGCONT # SIGALRM
  BY DEF Init, Sig, SIGCONT, SIGALRM
<1>9. TypeOK
  BY <1>1, <1>5, <1>7, <1>8 DEF Init, TypeOK, Mode, Cont
<1>10. ModeInv
  BY <1>1, <1>8 DEF Init, ModeInv
<1>11. QED
  BY <1>6, <1>9, <1>10 DEF TInv

(* Every step of the kernel keeps the inductive invariant, one case per action. *)
LEMMA NextTInv == ASSUME TInv, [Next]_vars PROVE TInv'
<1>1. CASE Kernel
  <2>1. /\ Outcome("newtask") \subseteq BOOLEAN
    BY DEF Outcome
  <2>2. QED
    BY <1>1, <2>1, ReturnInv, ExitInv, PickInv, EntryInv, LoopInv DEF Kernel
<1>2. CASE Syscall
  <2>1. Outcome("fork") \subseteq BOOLEAN /\ TrapSig \subseteq Sig
    BY TaskAssumption DEF Outcome
  <2>2. QED
    BY <1>2, <2>1, CreateInv, SleepInv, CallInv, ReapInv, SysSignalInv DEF Syscall
<1>3. CASE Interrupt
  BY <1>3, InterruptInv
<1>4. CASE UNCHANGED vars
  <2>1. CoreInv'
    BY <1>4, CoreSame DEF TInv, vars, tabvars, runvars
  <2>2. TypeRest'
    BY <1>4, TypeParts DEF TInv, TypeRest, vars, tabvars, runvars, sigvars, loopvars
  <2>3. ModeInv'
    BY <1>4 DEF TInv, ModeInv, vars, loopvars
  <2>4. QED
    BY <2>1, <2>2, <2>3, TypeWhole DEF TInv
<1>5. QED
  BY <1>1, <1>2, <1>3, <1>4 DEF Next

\* Core says what RunQueues and Counters say.
LEMMA CoreMeaning == ASSUME TInv PROVE RunQueues /\ Counters
<1>1. /\ {t \in Slot : Alive(t)} = Living(used, exited)
      /\ {t \in Slot : Sleeping(t)} = Asleep(paused)
  BY DEF Alive, Living, Sleeping, Asleep
<1>2. RunQueues
  BY <1>1 DEF TInv, CoreInv, Core, RunQueues, Alive, Sleeping, Living
<1>3. Counters
  <2>1. \A t \in Slot : Sleeping(t) => Alive(t) /\ t # curr
    BY DEF TInv, CoreInv, Core, Living, Asleep, Sleeping, Alive
  <2>2. QED
    BY <1>1, <2>1 DEF TInv, CoreInv, Core, Counters
<1>4. QED
  BY <1>2, <1>3

(* The inductive invariant always holds. *)
LEMMA TInvAlways == Spec => []TInv
BY InitTInv, NextTInv, PTL DEF Spec

\* Every variable of the process core keeps its type, for every table size.
THEOREM TypeCorrect == Spec => []TypeOK
<1>1. TInv => TypeOK
  BY DEF TInv
<1>2. QED
  BY <1>1, TInvAlways, PTL

\* Queues, back pointers and task states agree after every call, signal and
\* interrupt: task_insert, task_dequeue, task_remove, task_suspend, task_resume,
\* task_exit, fork and the dispatcher never leave a task on two queues, on a queue
\* it does not know of, or runnable on none.
THEOREM RunQueuesCorrect == Spec => []RunQueues
<1>1. TInv => RunQueues
  BY CoreMeaning
<1>2. QED
  BY <1>1, TInvAlways, PTL

\* The two counters the dispatcher halts by are right after every step.
THEOREM CountersCorrect == Spec => []Counters
<1>1. TInv => Counters
  BY CoreMeaning
<1>2. QED
  BY <1>1, TInvAlways, PTL

\* The tables of the process core agree as a whole: the queues with the back pointers
\* and states of the tasks, and the counters with both, for every table size.
THEOREM TablesCorrect == Spec => []QueuesAndCounts
<1>1. TInv => QueuesAndCounts
  BY CoreMeaning DEF QueuesAndCounts
<1>2. QED
  BY <1>1, TInvAlways, PTL
=============================================================================
