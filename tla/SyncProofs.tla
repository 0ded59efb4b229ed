----------------------------- MODULE SyncProofs -----------------------------
(***************************************************************************)
(* A mutex excludes, a message queue is a queue, poll() counts who polls   *)
(* what, a pseudo terminal lives as long as an end is open, and all four   *)
(* wake whom they have to: for every set of tasks, every capacity and      *)
(* every bound, with signals and interrupts at any moment.                 *)
(*                                                                         *)
(* MutexRight is inductive as it stands, because it says where each task   *)
(* counts (held, lockcnt, owner) and where each one sleeps (tq, mtx_at).   *)
(* QueueRight is once the reference queue has a type: the proof has one    *)
(* lemma for an item that is put, one for an item that is taken, and one   *)
(* for each action.  PollRight is once the polls of an object are known to *)
(* be finitely many.  Polls(f), the set of polls not yet undone, carries   *)
(* the proof: poll1 and unpoll1 add and take one, no other step changes    *)
(* it, and whoever sleeps is in it, so that the poller an object remembers *)
(* is all that fs_state has to wake.                                       *)
(*                                                                         *)
(* PtyRight speaks of the moments at which no task runs in the kernel.     *)
(* PtyInv says what holds inside a call: what a write has put into a       *)
(* buffer without telling anybody yet, it tells at its end or before it    *)
(* sleeps (PtyBusy), and a task in a call has the end open it works on.    *)
(* PtyStirred is what the proof needs of the woken: that in any step tasks *)
(* only leave queues, and all of those leave that the step resumes.        *)
(***************************************************************************)
EXTENDS MsgQueue, Mutex, Poll, Pty, FiniteSetTheorems, SequenceTheorems, TLAPS

-----------------------------------------------------------------------------
(* The mutex.                                                              *)

\* A mutex that mtx_init made is free and has no sleepers.
LEMMA MutexStarts == ASSUME MutexAssumption, MutexInit PROVE MutexRight
BY DEF MutexAssumption, MutexInit, MutexRight, MutexTypes, Exclusive, SleepersQueued, WaitKinds

\* Entering, going on after a sleep, leaving, and signals in between keep it right.
LEMMA MutexKept == ASSUME MutexAssumption, MutexRight, [MutexNext]_mutexVars PROVE MutexRight'
<1> USE DEF MutexRight, MutexAssumption
<1>1. ASSUME NEW t \in Locker, NEW w \in WaitKinds, mtx_enter(t, w) PROVE MutexRight'
  BY <1>1 DEF mtx_enter, Takes, Loop, GivesUp, MutexTypes, Exclusive, SleepersQueued, WaitKinds
<1>2. ASSUME NEW t \in Locker, LoopAgain(t) PROVE MutexRight'
  BY <1>2 DEF LoopAgain, Takes, Loop, GivesUp, MutexTypes, Exclusive, SleepersQueued, WaitKinds
<1>3. ASSUME NEW t \in Locker, mtx_leave(t) PROVE MutexRight'
  BY <1>3 DEF mtx_leave, Woken, MutexTypes, Exclusive, SleepersQueued
<1>4. ASSUME NEW t \in Locker, Signalled(t) PROVE MutexRight'
  BY <1>4 DEF Signalled, SignalEndsSleep, MutexTypes, Exclusive, SleepersQueued
<1>5. ASSUME NEW t \in Locker, SignalTaken(t) PROVE MutexRight'
  BY <1>5 DEF SignalTaken, MutexTypes, Exclusive, SleepersQueued
<1>6. CASE UNCHANGED mutexVars
  BY <1>6 DEF mutexVars, MutexTypes, Exclusive, SleepersQueued
<1>7. QED
  BY <1>1, <1>2, <1>3, <1>4, <1>5, <1>6 DEF MutexNext

\* mtx_enter and mtx_leave exclude, count entries of the owner right, and leave
\* nobody asleep on a free mutex, whoever overtakes whom after a wake-up and
\* whenever signals come.
THEOREM MutexCorrect == ASSUME MutexAssumption PROVE MutexSpec => []MutexRight
<1>1. MutexInit => MutexRight
  BY MutexStarts
<1>2. MutexRight /\ [MutexNext]_mutexVars => MutexRight'
  BY MutexKept
<1>3. QED
  BY <1>1, <1>2, PTL DEF MutexSpec

-----------------------------------------------------------------------------
(* The message queue.                                                      *)

Items == Item \cup {0}

\* The inductive invariant.
QueueInv == QueueRight /\ queue \in Seq(Items)

\* A number below twice the capacity, taken round the buffer.
LEMMA Round ==
  ASSUME MsgQueueAssumption, NEW x \in 0..(2 * maxcnt - 1)
  PROVE  /\ x % maxcnt = IF x < maxcnt THEN x ELSE x - maxcnt
         /\ x % maxcnt \in 0..(maxcnt - 1)
<1>1. maxcnt \in Nat \ {0}
  BY DEF MsgQueueAssumption
<1>2. x % maxcnt = IF x < maxcnt THEN x ELSE x - maxcnt
  BY <1>1
<1>3. (IF x < maxcnt THEN x ELSE x - maxcnt) \in 0..(maxcnt - 1)
  BY <1>1
<1> QED BY <1>2, <1>3

\* Where the i-th of the items is.
LEMMA PlaceOf ==
  ASSUME MsgQueueAssumption, NEW f \in 0..(maxcnt - 1), NEW i \in 1..(maxcnt + 1)
  PROVE  /\ (f + i - 1) % maxcnt \in 0..(maxcnt - 1)
         /\ (f + i - 1) % maxcnt = IF f + i - 1 < maxcnt THEN f + i - 1 ELSE f + i - 1 - maxcnt
<1> DEFINE x == f + i - 1
<1>1. x \in 0..(2 * maxcnt - 1)
  BY DEF MsgQueueAssumption
<1> HIDE DEF x
<1>2. /\ x % maxcnt = IF x < maxcnt THEN x ELSE x - maxcnt
      /\ x % maxcnt \in 0..(maxcnt - 1)
  BY <1>1, Round, Zenon
<1>3. x \in Int /\ f \in Int /\ i \in Int /\ maxcnt \in Int
  BY <1>1 DEF MsgQueueAssumption
<1> QED BY <1>2, <1>3 DEF x

\* An item put into a queue with room is the last of the items, and the others stay
\* where they are.
LEMMA InsertRight ==
  ASSUME MsgQueueAssumption, QueueInv, ~Full, NEW d \in Items, Insert(d)
  PROVE  /\ buf' \in [0..(maxcnt - 1) -> Items]
         /\ first' \in 0..(maxcnt - 1) /\ curcnt' \in 0..maxcnt /\ curcnt' > 0
         /\ queue' \in Seq(Items)
         /\ Fifo'
<1> USE DEF QueueInv, QueueRight
<1>0. /\ maxcnt \in Nat \ {0} /\ first \in 0..(maxcnt - 1) /\ curcnt \in 0..(maxcnt - 1)
      /\ buf \in [0..(maxcnt - 1) -> Items] /\ queue \in Seq(Items) /\ Len(queue) = curcnt
  <2>1. Len(queue) = curcnt
    BY Zenon DEF Fifo
  <2>2. buf \in [0..(maxcnt - 1) -> Items] /\ first \in 0..(maxcnt - 1) /\ curcnt \in 0..maxcnt
    BY Zenon DEF TypeOK, Items
  <2>3. maxcnt \in Nat \ {0} /\ curcnt \in 0..(maxcnt - 1)
    BY <2>2 DEF MsgQueueAssumption, Full
  <2> QED BY <2>1, <2>2, <2>3, Zenon
<1>1. Place \in 0..(maxcnt - 1) /\ Place = (first + (curcnt + 1) - 1) % maxcnt
  <2>1. curcnt + 1 \in 1..(maxcnt + 1) /\ first + (curcnt + 1) - 1 = first + curcnt
    BY <1>0
  <2>2. (first + (curcnt + 1) - 1) % maxcnt \in 0..(maxcnt - 1)
    BY <1>0, <2>1, PlaceOf, Zenon
  <2> QED BY <2>1, <2>2, Zenon DEF Place
<1>2. /\ buf' = [buf EXCEPT ![Place] = d] /\ curcnt' = curcnt + 1 /\ first' = first
      /\ queue' = Append(queue, d) /\ got' = Same
  BY DEF Insert
<1>3. /\ queue' \in Seq(Items) /\ Len(queue') = curcnt + 1
      /\ queue'[curcnt + 1] = d
      /\ \A i \in 1..curcnt : queue'[i] = queue[i]
  BY <1>0, <1>2
<1>4. buf' \in [0..(maxcnt - 1) -> Items] /\ buf'[Place] = d
  BY <1>0, <1>1, <1>2
<1>5. ASSUME NEW i \in 1..curcnt
      PROVE  buf'[(first + i - 1) % maxcnt] = queue[i]
  <2> DEFINE j == (first + i - 1) % maxcnt
  <2>0. i \in 1..(maxcnt + 1) /\ curcnt + 1 \in 1..(maxcnt + 1)
    BY <1>0
  <2>1. j \in 0..(maxcnt - 1) /\ j = IF first + i - 1 < maxcnt THEN first + i - 1 ELSE first + i - 1 - maxcnt
    BY <1>0, <2>0, PlaceOf, Zenon
  <2>2. Place = IF first + (curcnt + 1) - 1 < maxcnt THEN first + (curcnt + 1) - 1
                ELSE first + (curcnt + 1) - 1 - maxcnt
    BY <1>0, <1>1, <2>0, PlaceOf, Zenon
  <2>3. buf[j] = queue[i]
    BY <1>0 DEF Fifo
  <2> HIDE DEF j
  <2>4. j # Place
    BY <1>0, <2>1, <2>2
  <2>5. buf'[j] = buf[j]
    BY <1>0, <1>2, <2>1, <2>4
  <2> QED BY <2>3, <2>5 DEF j
<1>6. \A i \in 1..(curcnt + 1) : i \in 1..curcnt \/ i = curcnt + 1
  BY <1>0
<1>7. \A i \in 1..(curcnt + 1) : buf'[(first + i - 1) % maxcnt] = queue'[i]
  BY <1>1, <1>3, <1>4, <1>5, <1>6, Zenon
<1>8. Fifo'
  BY <1>2, <1>3, <1>7 DEF Fifo, Same
<1> QED BY <1>0, <1>2, <1>3, <1>4, <1>8

\* The item taken out of a queue is the first of the items, and the others move up.
LEMMA RemoveRight ==
  ASSUME MsgQueueAssumption, QueueInv, curcnt # 0, Remove
  PROVE  /\ buf' \in [0..(maxcnt - 1) -> Items]
         /\ first' \in 0..(maxcnt - 1) /\ curcnt' \in 0..maxcnt /\ ~Full'
         /\ queue' \in Seq(Items)
         /\ Fifo'
<1> USE DEF QueueInv, QueueRight
<1>0. /\ maxcnt \in Nat \ {0} /\ first \in 0..(maxcnt - 1) /\ curcnt \in 1..maxcnt
      /\ buf \in [0..(maxcnt - 1) -> Items] /\ queue \in Seq(Items) /\ Len(queue) = curcnt
  <2>1. Len(queue) = curcnt
    BY Zenon DEF Fifo
  <2>2. buf \in [0..(maxcnt - 1) -> Items] /\ first \in 0..(maxcnt - 1) /\ curcnt \in 0..maxcnt
    BY Zenon DEF TypeOK, Items
  <2>3. maxcnt \in Nat \ {0} /\ curcnt \in 1..maxcnt
    BY <2>2 DEF MsgQueueAssumption
  <2> QED BY <2>1, <2>2, <2>3, Zenon
<1>1. /\ got' = [is |-> buf[first % maxcnt], due |-> Head(queue)] /\ curcnt' = curcnt - 1
      /\ first' = (first + 1) % maxcnt /\ queue' = Tail(queue) /\ buf' = buf
  BY DEF Remove
<1>2. /\ queue' \in Seq(Items) /\ Len(queue') = curcnt - 1
      /\ \A i \in 1..(curcnt - 1) : queue'[i] = queue[i + 1]
      /\ Head(queue) = queue[1]
  BY <1>0, <1>1
<1>3. got'.is = got'.due
  <2>1. buf[(first + 1 - 1) % maxcnt] = queue[1]
    BY <1>0 DEF Fifo
  <2>2. first + 1 - 1 = first
    BY <1>0
  <2>3. buf[first % maxcnt] = queue[1]
    BY <2>1, <2>2, Zenon
  <2> QED BY <1>1, <1>2, <2>3
<1>4. first' \in 0..(maxcnt - 1) /\ first' = IF first + 1 < maxcnt THEN first + 1 ELSE first + 1 - maxcnt
  <2>1. 2 \in 1..(maxcnt + 1) /\ first + 2 - 1 = first + 1
    BY <1>0
  <2>2. /\ (first + 2 - 1) % maxcnt \in 0..(maxcnt - 1)
        /\ (first + 2 - 1) % maxcnt = IF first + 2 - 1 < maxcnt THEN first + 2 - 1 ELSE first + 2 - 1 - maxcnt
    BY <1>0, <2>1, PlaceOf, Zenon
  <2>3. first' = (first + 2 - 1) % maxcnt
    BY <1>1, <2>1, Zenon
  <2>4. /\ first' \in 0..(maxcnt - 1)
        /\ first' = IF first + 2 - 1 < maxcnt THEN first + 2 - 1 ELSE first + 2 - 1 - maxcnt
    BY <2>2, <2>3, Zenon
  <2> QED BY <1>0, <2>4
<1>5. ASSUME NEW i \in 1..(curcnt - 1)
      PROVE  buf'[(first' + i - 1) % maxcnt] = queue'[i]
  <2>1. i \in 1..(maxcnt + 1) /\ i + 1 \in 1..(maxcnt + 1) /\ i + 1 \in 1..curcnt
    BY <1>0
  <2> DEFINE j == (first' + i - 1) % maxcnt
             k == (first + (i + 1) - 1) % maxcnt
  <2>2. j = IF first' + i - 1 < maxcnt THEN first' + i - 1 ELSE first' + i - 1 - maxcnt
    BY <1>4, <2>1, PlaceOf, Zenon
  <2>3. k = IF first + (i + 1) - 1 < maxcnt THEN first + (i + 1) - 1 ELSE first + (i + 1) - 1 - maxcnt
    BY <1>0, <2>1, PlaceOf, Zenon
  <2>4. buf[k] = queue[i + 1]
    BY <2>1 DEF Fifo
  <2> HIDE DEF j, k
  <2>5. j = k
    BY <1>0, <1>4, <2>1, <2>2, <2>3
  <2>6. buf[j] = queue[i + 1]
    BY <2>4, <2>5
  <2> QED BY <1>1, <1>2, <2>6 DEF j
<1>6. Fifo'
  BY <1>1, <1>2, <1>3, <1>5 DEF Fifo
<1> QED BY <1>0, <1>1, <1>2, <1>4, <1>6 DEF Full
\* The parts of the invariant that the tasks' places do not touch.
QueuePart ==
    /\ buf \in [0..(maxcnt - 1) -> Items]
    /\ first \in 0..(maxcnt - 1) /\ curcnt \in 0..maxcnt
    /\ queue \in Seq(Items)
    /\ Fifo

\* The places of the tasks have their types.
TaskPart ==
    /\ putq \in SUBSET Task /\ getq \in SUBSET Task
    /\ at \in [Task -> {"out", "put", "get"}]
    /\ item \in [Task -> Items]
    /\ wait \in [Task -> Waits]
    /\ sig \in SUBSET Task
    /\ waking \in {"none", "put", "get"}
    /\ puts \in 0..MaxPut

\* The invariant in its three parts.
LEMMA Parts == QueueInv <=> QueuePart /\ TaskPart /\ NoLostWakeup
  BY Zenon DEF QueueInv, QueueRight, TypeOK, QueuePart, TaskPart, Items

\* A task that gives up or goes to sleep.
LEMMA BlocksRight ==
  ASSUME MsgQueueAssumption, QueueInv, waking = "none", NEW t \in Task, NEW w, NEW side \in {"put", "get"},
         side = "put" => Full, side = "get" => curcnt = 0, Blocks(t, w, side)
  PROVE  /\ QueuePart' /\ NoLostWakeup'
         /\ putq' \in SUBSET Task /\ getq' \in SUBSET Task
         /\ at' \in [Task -> {"out", "put", "get"}] /\ waking' = waking
<1>1. QueuePart /\ TaskPart /\ NoLostWakeup
  BY Parts, Zenon
<1>2. /\ buf' = buf /\ first' = first /\ curcnt' = curcnt /\ queue' = queue /\ got' = got
      /\ waking' = waking
  BY DEF Blocks, Queue
<1>3. QueuePart'
  BY <1>1, <1>2, Zenon DEF QueuePart, Fifo
<1>4. /\ putq' \in SUBSET Task /\ getq' \in SUBSET Task
      /\ at' \in [Task -> {"out", "put", "get"}]
  BY <1>1 DEF Blocks, TaskPart
<1>5. NoLostWakeup'
  <2>1. curcnt \in 0..maxcnt /\ maxcnt \in Nat \ {0}
    BY <1>1, Zenon DEF QueuePart, MsgQueueAssumption
  <2>2. CASE side = "put"
    <3>1. curcnt > 0 /\ Full /\ Full'
      BY <1>2, <2>1, <2>2 DEF Full
    <3>2. getq' = {}
      BY <1>1, <2>2, <3>1 DEF Blocks, NoLostWakeup
    <3> QED BY <3>1, <3>2 DEF NoLostWakeup
  <2>3. CASE side = "get"
    <3>1. ~(curcnt' > 0) /\ ~Full
      BY <1>2, <2>1, <2>3 DEF Full
    <3>2. putq' = {}
      BY <1>1, <2>3, <3>1 DEF Blocks, NoLostWakeup
    <3> QED BY <3>1, <3>2 DEF NoLostWakeup
  <2> QED BY <2>2, <2>3
<1> QED BY <1>2, <1>3, <1>4, <1>5

\* A task that has put an item, or taken one.
LEMMA PutDone ==
  ASSUME MsgQueueAssumption, QueueInv, waking = "none", ~Full, NEW t \in Task, NEW d \in Items,
         Insert(d), Done(t, "put")
  PROVE  /\ QueuePart' /\ NoLostWakeup'
         /\ putq' \in SUBSET Task /\ getq' \in SUBSET Task
         /\ at' \in [Task -> {"out", "put", "get"}] /\ waking' = "put"
<1>1. QueuePart /\ TaskPart /\ NoLostWakeup
  BY Parts, Zenon
<1>2. QueuePart'
  BY InsertRight, Zenon DEF QueuePart
<1>3. putq = {}
  BY <1>1 DEF NoLostWakeup
<1> QED BY <1>1, <1>2, <1>3 DEF Done, TaskPart, NoLostWakeup

\* Taking an item and waking the writers is right.
LEMMA GetDone ==
  ASSUME MsgQueueAssumption, QueueInv, waking = "none", curcnt # 0, NEW t \in Task,
         Remove, Done(t, "get")
  PROVE  /\ QueuePart' /\ NoLostWakeup'
         /\ putq' \in SUBSET Task /\ getq' \in SUBSET Task
         /\ at' \in [Task -> {"out", "put", "get"}] /\ waking' = "get"
<1>1. QueuePart /\ TaskPart /\ NoLostWakeup
  BY Parts, Zenon
<1>2. QueuePart'
  BY RemoveRight, Zenon DEF QueuePart
<1>3. getq = {}
  <2>0. curcnt \in 0..maxcnt /\ maxcnt \in Nat \ {0}
    BY <1>1, Zenon DEF QueuePart, MsgQueueAssumption
  <2>1. curcnt > 0
    BY <2>0
  <2> QED BY <1>1, <2>1 DEF NoLostWakeup
<1> QED BY <1>1, <1>2, <1>3 DEF Done, TaskPart, NoLostWakeup

\* The loops of mq_put and mq_get.
LEMMA PutLoopRight ==
  ASSUME MsgQueueAssumption, QueueInv, waking = "none", NEW t \in Task, NEW d \in Items, NEW w,
         PutLoop(t, d, w)
  PROVE  /\ QueuePart' /\ NoLostWakeup'
         /\ putq' \in SUBSET Task /\ getq' \in SUBSET Task
         /\ at' \in [Task -> {"out", "put", "get"}] /\ waking' \in {"none", "put", "get"}
<1>1. CASE Full
  <2>1. Blocks(t, w, "put")
    BY <1>1 DEF PutLoop
  <2> QED BY <1>1, <2>1, BlocksRight
<1>2. CASE ~Full
  <2>1. Insert(d) /\ Done(t, "put")
    BY <1>2 DEF PutLoop
  <2> QED BY <1>2, <2>1, PutDone
<1> QED BY <1>1, <1>2

\* So is the loop of mq_get.
LEMMA GetLoopRight ==
  ASSUME MsgQueueAssumption, QueueInv, waking = "none", NEW t \in Task, NEW w, GetLoop(t, w)
  PROVE  /\ QueuePart' /\ NoLostWakeup'
         /\ putq' \in SUBSET Task /\ getq' \in SUBSET Task
         /\ at' \in [Task -> {"out", "put", "get"}] /\ waking' \in {"none", "put", "get"}
<1>1. CASE curcnt = 0
  <2>1. Blocks(t, w, "get")
    BY <1>1 DEF GetLoop
  <2> QED BY <1>1, <2>1, BlocksRight
<1>2. CASE curcnt # 0
  <2>1. Remove /\ Done(t, "get")
    BY <1>2 DEF GetLoop
  <2> QED BY <1>2, <2>1, GetDone
<1> QED BY <1>1, <1>2

\* mq_init.
LEMMA QueueInit == ASSUME MsgQueueAssumption, Init PROVE QueueInv
<1>1. TypeOK /\ queue \in Seq(Items)
  <2>1. first \in 0..(maxcnt - 1) /\ curcnt \in 0..maxcnt /\ puts \in 0..MaxPut
    BY DEF MsgQueueAssumption, Init
  <2>2. buf \in [0..(maxcnt - 1) -> Item \cup {0}]
    BY DEF Init
  <2>3. queue \in Seq(Items)
    BY DEF Init
  <2>4. /\ putq \in SUBSET Task /\ getq \in SUBSET Task /\ sig \in SUBSET Task
        /\ at \in [Task -> {"out", "put", "get"}]
        /\ item \in [Task -> Item \cup {0}] /\ wait \in [Task -> Waits]
        /\ waking \in {"none", "put", "get"}
    BY DEF Init, Waits
  <2> QED BY <2>1, <2>2, <2>3, <2>4, Zenon DEF TypeOK
<1>2. Fifo
  <2>1. queue = <<>> /\ curcnt = 0 /\ got = Same
    BY DEF Init
  <2>2. Len(queue) = curcnt /\ 1..curcnt = {} /\ got.is = got.due
    BY <2>1 DEF Same
  <2> QED BY <2>2, Zenon DEF Fifo
<1>3. NoLostWakeup
  BY DEF Init, NoLostWakeup
<1> QED BY <1>1, <1>2, <1>3 DEF QueueInv, QueueRight

\* Every step keeps the invariant.
LEMMA QueueStep == ASSUME MsgQueueAssumption, QueueInv, [Next]_vars PROVE QueueInv'
<1>0. QueuePart /\ TaskPart /\ NoLostWakeup
  BY Parts, Zenon
<1>00. MaxPut \in Nat /\ 0 \in 0..MaxPut
  BY DEF MsgQueueAssumption
<1>p. QueuePart' /\ TaskPart' /\ NoLostWakeup' => QueueInv'
  BY Zenon DEF QueueInv, QueueRight, TypeOK, QueuePart, TaskPart, Items
<1>1. ASSUME NEW t \in Task, NEW d \in Item, NEW w \in Waits, mq_put(t, d, w) PROVE QueueInv'
  <2>1. waking = "none" /\ PutLoop(t, d, w) /\ d \in Items /\ puts' = 0
    BY <1>1 DEF mq_put, Runs, Items
  <2>2. /\ QueuePart' /\ NoLostWakeup'
        /\ putq' \in SUBSET Task /\ getq' \in SUBSET Task
        /\ at' \in [Task -> {"out", "put", "get"}] /\ waking' \in {"none", "put", "get"}
    BY <2>1, PutLoopRight
  <2>3. item' \in [Task -> Items] /\ wait' \in [Task -> Waits] /\ sig' \in SUBSET Task
    BY <1>0, <1>1, <2>1 DEF mq_put, TaskPart
  <2> QED BY <1>00, <1>p, <2>1, <2>2, <2>3 DEF TaskPart
<1>2. ASSUME NEW t \in Task, NEW w \in Waits, mq_get(t, w) PROVE QueueInv'
  <2>1. waking = "none" /\ GetLoop(t, w) /\ puts' = 0
    BY <1>2 DEF mq_get, Runs
  <2>2. /\ QueuePart' /\ NoLostWakeup'
        /\ putq' \in SUBSET Task /\ getq' \in SUBSET Task
        /\ at' \in [Task -> {"out", "put", "get"}] /\ waking' \in {"none", "put", "get"}
    BY <2>1, GetLoopRight
  <2>3. item' \in [Task -> Items] /\ wait' \in [Task -> Waits] /\ sig' \in SUBSET Task
    BY <1>0, <1>2 DEF mq_get, TaskPart
  <2> QED BY <1>00, <1>p, <2>1, <2>2, <2>3 DEF TaskPart
<1>3. ASSUME NEW t \in Task, Resume(t) PROVE QueueInv'
  <2>1. waking = "none" /\ puts' = 0
    BY <1>3 DEF Resume, Runs
  <2>2. PutLoop(t, item[t], wait[t]) \/ GetLoop(t, wait[t])
    BY <1>3 DEF Resume
  <2>3. item[t] \in Items
    BY <1>0 DEF TaskPart
  <2>4. /\ QueuePart' /\ NoLostWakeup'
        /\ putq' \in SUBSET Task /\ getq' \in SUBSET Task
        /\ at' \in [Task -> {"out", "put", "get"}] /\ waking' \in {"none", "put", "get"}
    BY <2>1, <2>2, <2>3, PutLoopRight, GetLoopRight
  <2>5. item' \in [Task -> Items] /\ wait' \in [Task -> Waits] /\ sig' \in SUBSET Task
    BY <1>0, <1>3 DEF Resume, TaskPart
  <2> QED BY <1>00, <1>p, <2>1, <2>4, <2>5 DEF TaskPart
<1>4. ASSUME NEW t \in Task, Signal(t) PROVE QueueInv'
  <2>1. QueuePart'
    BY <1>0, <1>4, Zenon DEF Signal, Queue, QueuePart, Fifo
  <2>2. TaskPart'
    BY <1>0, <1>4 DEF Signal, TaskPart
  <2>3. NoLostWakeup'
    BY <1>0, <1>4 DEF Signal, Queue, NoLostWakeup, Full
  <2> QED BY <1>p, <2>1, <2>2, <2>3
<1>5. ASSUME NEW t \in Task, Handled(t) PROVE QueueInv'
  <2>1. QueuePart'
    BY <1>0, <1>5, Zenon DEF Handled, Queue, QueuePart, Fifo
  <2>2. TaskPart'
    BY <1>0, <1>00, <1>5 DEF Handled, Runs, TaskPart
  <2>3. NoLostWakeup'
    BY <1>0, <1>5 DEF Handled, Queue, NoLostWakeup, Full
  <2> QED BY <1>p, <2>1, <2>2, <2>3
<1>6. ASSUME Wakes PROVE QueueInv'
  <2>1. QueuePart'
    BY <1>0, <1>6, Zenon DEF Wakes, Queue, QueuePart, Fifo
  <2>2. TaskPart'
    BY <1>0, <1>6 DEF Wakes, WokenUp, TaskPart
  <2>3. NoLostWakeup'
    BY <1>0, <1>6 DEF Wakes, WokenUp, Queue, NoLostWakeup, Full, TaskPart
  <2> QED BY <1>p, <2>1, <2>2, <2>3
<1>7. ASSUME NEW d \in Item, Interrupt(d) PROVE QueueInv'
  <2>1. ~Full /\ Insert(d) /\ d \in Items
    BY <1>7 DEF Interrupt, Items
  <2>2. QueuePart'
    BY <2>1, InsertRight, Zenon DEF QueuePart
  <2>3. TaskPart'
    <3>1. puts' \in 0..MaxPut
      BY <1>0, <1>00, <1>7 DEF Interrupt, TaskPart
    <3>2. /\ putq' = putq /\ at' = at /\ item' = item /\ wait' = wait /\ sig' = sig
          /\ waking' = waking /\ getq' \in SUBSET Task
      BY <1>0, <1>7 DEF Interrupt, WokenUp, TaskPart
    <3> QED BY <1>0, <3>1, <3>2 DEF TaskPart
  <2>4. NoLostWakeup'
    <3>1. getq' = {} /\ putq' = putq /\ waking' = waking
      BY <1>7 DEF Interrupt, WokenUp
    <3> QED BY <1>0, <2>1, <3>1 DEF NoLostWakeup
  <2> QED BY <1>p, <2>2, <2>3, <2>4
<1>8. CASE UNCHANGED vars
  BY <1>8, Zenon DEF vars, QueueInv, QueueRight, TypeOK, Fifo, NoLostWakeup, Full
<1> QED BY <1>1, <1>2, <1>3, <1>4, <1>5, <1>6, <1>7, <1>8, Zenon DEF Next

\* Items come out of a message queue in the order they were put, each once, whoever
\* puts them, and nobody sleeps for room or for an item that is there (mq_put, mq_get).
THEOREM QueueCorrect == ASSUME MsgQueueAssumption PROVE Spec => []QueueRight
<1>1. Init => QueueInv
  BY QueueInit
<1>2. QueueInv /\ [Next]_vars => QueueInv'
  BY QueueStep
<1>3. QueueInv => QueueRight
  BY DEF QueueInv
<1> QED BY <1>1, <1>2, <1>3, PTL DEF Spec

-----------------------------------------------------------------------------
(* poll().                                                                 *)

\* The items of a poll are as many as its length says, and each has an object.
LEMMA RequestIs ==
    ASSUME PollAssumption, NEW r \in Request
    PROVE  /\ Len(r) \in 0..MaxFds
           /\ \A i \in 1..Len(r) : r[i].obj \in Obj
<1>1. PICK n \in 0..MaxFds : r \in [1..n -> PollFd]
  BY DEF Request
<1>2. n \in Nat
  BY <1>1 DEF PollAssumption
<1>3. r \in Seq(PollFd) /\ Len(r) = n
  BY <1>1, <1>2, IsASeq, LenProperties
<1>4. \A i \in 1..n : r[i] \in PollFd
  BY <1>1
<1>5. \A i \in 1..n : r[i].obj \in Obj
  BY <1>4 DEF PollFd
<1>6. QED
  BY <1>3, <1>5

\* A request of no items.
LEMMA NoRequest == ASSUME PollAssumption PROVE << >> \in Request
<1>1. 0 \in 0..MaxFds
  BY DEF PollAssumption
<1>2. << >> \in [1..0 -> PollFd]
  OBVIOUS
<1>3. QED
  BY <1>1, <1>2 DEF Request

\* What polls an object.
LEMMA PollsIs ==
    ASSUME NEW f, NEW t \in Poller, NEW i \in 1..MaxFds
    PROVE  <<t, i>> \in Polls(f) <=> i <= Len(req[t]) /\ req[t][i].obj = f /\ Pending(t, i)
BY DEF Polls

\* Sets of the same polls.
LEMMA SamePairs ==
    ASSUME NEW S, NEW T, S \subseteq Poller \X (1..MaxFds), T \subseteq Poller \X (1..MaxFds),
           \A t \in Poller, i \in 1..MaxFds : <<t, i>> \in S <=> <<t, i>> \in T
    PROVE  S = T
<1>1. ASSUME NEW x \in Poller \X (1..MaxFds) PROVE x \in S <=> x \in T
  <2>1. x = <<x[1], x[2]>> /\ x[1] \in Poller /\ x[2] \in 1..MaxFds
    OBVIOUS
  <2>2. QED
    BY <2>1
<1>2. QED
  BY <1>1

\* Counts, and pollers that are alone.
Counted ==
    /\ PollcntRight
    /\ PollerRight
    /\ \A f \in Obj : IsFiniteSet(Polls(f))

PollInv == PollTypes /\ Counted /\ NoMissedPoll

\* A step that begins and undoes no poll of an object.
LEMMA CountsStay ==
    ASSUME Counted, UNCHANGED <<polling, pollcnt>>,
           \A t \in Poller, i \in 1..MaxFds :
               /\ i <= Len(req'[t]) /\ Pending(t, i)' <=> i <= Len(req[t]) /\ Pending(t, i)
               /\ i <= Len(req[t]) /\ Pending(t, i) => req'[t][i].obj = req[t][i].obj
    PROVE  Counted'
<1>1. \A f \in Obj : Polls(f)' = Polls(f)
  <2>1. SUFFICES ASSUME NEW f \in Obj PROVE Polls(f)' = Polls(f)
    OBVIOUS
  <2>2. ASSUME NEW t \in Poller, NEW i \in 1..MaxFds
        PROVE  i <= Len(req'[t]) /\ req'[t][i].obj = f /\ Pending(t, i)'
               <=> i <= Len(req[t]) /\ req[t][i].obj = f /\ Pending(t, i)
    OBVIOUS
  <2>3. QED
    BY <2>2 DEF Polls
<1>2. QED
  BY <1>1 DEF Counted, PollcntRight, PollerRight

\* poll1: one more poll of f.
LEMMA CountsGrow ==
    ASSUME PollAssumption, PollTypes, Counted,
           NEW f \in Obj, NEW t \in Poller, NEW k \in 1..MaxFds, <<t, k>> \notin Polls(f),
           poll1(t, f), Polls(f)' = Polls(f) \cup {<<t, k>>},
           \A g \in Obj : g # f => Polls(g)' = Polls(g)
    PROVE  Counted'
<1>1. IsFiniteSet(Polls(f)) /\ pollcnt[f] = Cardinality(Polls(f))
  BY DEF Counted, PollcntRight
<1>2. IsFiniteSet(Polls(f)') /\ Cardinality(Polls(f)') = pollcnt[f] + 1
  BY <1>1, FS_AddElement
<1>3. pollcnt[f] \in Nat /\ pollcnt'[f] = pollcnt[f] + 1
  BY DEF PollTypes, poll1
<1>4. \A g \in Obj : g # f => polling'[g] = polling[g] /\ pollcnt'[g] = pollcnt[g]
  BY DEF PollTypes, poll1
<1>5. polling'[f] # NoPoller => Polls(f)' = {<<polling'[f], k>>}
  <2>1. SUFFICES ASSUME polling'[f] # NoPoller PROVE Polls(f)' = {<<polling'[f], k>>}
    OBVIOUS
  <2>2. polling'[f] = t /\ pollcnt[f] = 0
    BY <1>3, <2>1 DEF PollTypes, poll1
  <2>3. Polls(f) = {}
    BY <1>1, <2>2, FS_EmptySet
  <2>4. QED
    BY <2>2, <2>3
<1>6. PollcntRight'
  BY <1>2, <1>3, <1>4 DEF Counted, PollcntRight
<1>7. PollerRight'
  <2>1. ASSUME NEW g \in Obj, polling'[g] # NoPoller
        PROVE  \E i \in 1..MaxFds : Polls(g)' = {<<polling'[g], i>>}
    <3>1. CASE g = f
      BY <1>5, <2>1, <3>1
    <3>2. CASE g # f
      BY <1>4, <2>1, <3>2 DEF Counted, PollerRight
    <3>3. QED
      BY <3>1, <3>2
  <2>2. QED
    BY <2>1 DEF PollerRight
<1>8. \A g \in Obj : IsFiniteSet(Polls(g)')
  BY <1>2 DEF Counted
<1>9. QED
  BY <1>6, <1>7, <1>8 DEF Counted

\* unpoll1: one poll of f less. If f remembers another poller, that one is alone,
\* so t was not there.
LEMMA CountsShrink ==
    ASSUME PollAssumption, PollTypes, Counted,
           NEW f \in Obj, NEW t \in Poller, NEW k \in 1..MaxFds, <<t, k>> \in Polls(f),
           unpoll1(t, f), Polls(f)' = Polls(f) \ {<<t, k>>},
           \A g \in Obj : g # f => Polls(g)' = Polls(g)
    PROVE  Counted' /\ pollcnt' \in [Obj -> Nat]
<1>1. IsFiniteSet(Polls(f)) /\ pollcnt[f] = Cardinality(Polls(f))
  BY DEF Counted, PollcntRight
<1>2. IsFiniteSet(Polls(f)') /\ Cardinality(Polls(f)') = pollcnt[f] - 1
  BY <1>1, FS_RemoveElement
<1>3. Cardinality(Polls(f)') \in Nat
  BY <1>2, FS_CardinalityType
<1>4. pollcnt[f] \in Nat /\ pollcnt'[f] = pollcnt[f] - 1
  BY DEF PollTypes, unpoll1
<1>5. \A g \in Obj : g # f => polling'[g] = polling[g] /\ pollcnt'[g] = pollcnt[g]
  BY DEF PollTypes, unpoll1
<1>6. polling'[f] = NoPoller
  <2>1. CASE polling[f] = t
    BY <2>1 DEF PollTypes, unpoll1
  <2>2. CASE polling[f] = NoPoller
    BY <2>2 DEF PollTypes, unpoll1, PollAssumption
  <2>3. CASE polling[f] # t /\ polling[f] # NoPoller
    <3>1. PICK i \in 1..MaxFds : Polls(f) = {<<polling[f], i>>}
      BY <2>3 DEF Counted, PollerRight
    <3>2. <<t, k>> = <<polling[f], i>>
      BY <3>1
    <3>3. QED
      BY <2>3, <3>2
  <2>4. QED
    BY <2>1, <2>2, <2>3
<1>7. PollcntRight'
  BY <1>2, <1>4, <1>5 DEF Counted, PollcntRight
<1>8. PollerRight'
  BY <1>5, <1>6 DEF Counted, PollerRight
<1>9. \A g \in Obj : IsFiniteSet(Polls(g)')
  BY <1>2 DEF Counted
<1>10. pollcnt' \in [Obj -> Nat]
  <2>1. pollcnt' = [pollcnt EXCEPT ![f] = @ - 1]
    BY DEF unpoll1
  <2>2. pollcnt[f] - 1 \in Nat
    BY <1>2, <1>3
  <2>3. QED
    BY <2>1, <2>2 DEF PollTypes
<1>11. QED
  BY <1>7, <1>8, <1>9, <1>10 DEF Counted

\* What fs_state wakes includes everybody who sleeps on the object.
LEMMA SleepersReached ==
    ASSUME PollAssumption, PollInv, NEW t \in Poller, poll_pc[t] = "asleep",
           NEW i \in 1..Len(req[t])
    PROVE  t \in PollersOf(req[t][i].obj)
<1> DEFINE f == req[t][i].obj
<1>1. Len(req[t]) \in 0..MaxFds /\ f \in Obj
  BY RequestIs DEF PollInv, PollTypes
<1>2. i \in 1..MaxFds /\ i <= Len(req[t])
  BY <1>1 DEF PollAssumption
<1>3. Pending(t, i)
  BY DEF Pending
<1>4. <<t, i>> \in Polls(f)
  BY <1>2, <1>3, PollsIs
<1> HIDE DEF f
<1>5. CASE polling[f] # NoPoller
  <2>1. PICK j \in 1..MaxFds : Polls(f) = {<<polling[f], j>>}
    BY <1>1, <1>5 DEF PollInv, Counted, PollerRight
  <2>2. t = polling[f]
    BY <1>4, <2>1
  <2>3. QED
    BY <1>5, <2>2 DEF PollersOf, f
<1>6. CASE polling[f] = NoPoller
  <2>1. IsFiniteSet(Polls(f)) /\ pollcnt[f] = Cardinality(Polls(f)) /\ pollcnt[f] \in Nat
    BY <1>1 DEF PollInv, Counted, PollcntRight, PollTypes
  <2>2. pollcnt[f] # 0
    BY <1>4, <2>1, FS_EmptySet
  <2>3. pollcnt[f] > 0
    BY <2>1, <2>2
  <2>4. PollersOf(f) = Poller
    BY <1>6, <2>3 DEF PollersOf
  <2>5. QED
    BY <2>4 DEF f
<1>7. QED
  BY <1>5, <1>6

\* Waking changes where sleepers are, and nothing else of anybody.
LEMMA ResumedIs ==
    ASSUME PollTypes, NEW f
    PROVE  /\ Resumed(poll_pc, f) \in [Poller -> {"user", "reg", "scan", "asleep", "ready", "unreg", "wake"}]
           /\ \A t \in Poller :
                 /\ poll_pc[t] # "asleep" => Resumed(poll_pc, f)[t] = poll_pc[t]
                 /\ poll_pc[t] = "asleep" =>
                       Resumed(poll_pc, f)[t] = IF t \in PollersOf(f) THEN "ready" ELSE "asleep"
BY DEF PollTypes, Resumed

\* Such a step moves no item.
LEMMA CountsWhenWoken ==
    ASSUME Counted, UNCHANGED <<polling, pollcnt, req, poll_at>>,
           \A t \in Poller : \/ poll_pc'[t] = poll_pc[t]
                             \/ poll_pc[t] \in {"asleep", "scan", "ready"}
                                /\ poll_pc'[t] \in {"asleep", "scan", "ready"}
                             \/ {poll_pc[t], poll_pc'[t]} \subseteq {"user", "wake"}
    PROVE  Counted'
<1>1. ASSUME NEW t \in Poller, NEW i \in 1..MaxFds
      PROVE  Pending(t, i)' <=> Pending(t, i)
  <2>1. CASE poll_pc'[t] = poll_pc[t]
    BY <2>1 DEF Pending
  <2>2. CASE poll_pc[t] \in {"asleep", "scan", "ready"} /\ poll_pc'[t] \in {"asleep", "scan", "ready"}
    BY <2>2 DEF Pending
  <2>3. CASE {poll_pc[t], poll_pc'[t]} \subseteq {"user", "wake"}
    <3>1. poll_pc[t] \in {"user", "wake"} /\ poll_pc'[t] \in {"user", "wake"}
      BY <2>3
    <3>2. QED
      BY <3>1 DEF Pending
  <2>4. QED
    BY <2>1, <2>2, <2>3
<1>2. QED
  BY <1>1, CountsStay

\* poll() starts with nobody waiting.
LEMMA PollStarts == ASSUME PollAssumption, PollInit PROVE PollInv
<1>1. PollTypes
  <2>1. 1 \in 1..(MaxFds + 1) /\ << >> \in Request
    BY NoRequest DEF PollAssumption
  <2>2. QED
    BY <2>1 DEF PollInit, PollTypes
<1>2. \A f \in Obj : Polls(f) = {}
  BY DEF PollInit, Polls, Pending
<1>3. Counted
  BY <1>2, FS_EmptySet DEF PollInit, Counted, PollcntRight, PollerRight
<1>4. NoMissedPoll
  BY DEF PollInit, NoMissedPoll
<1>5. QED
  BY <1>1, <1>3, <1>4 DEF PollInv

\* A driver changes a state: whoever sleeps on it is woken in the same step.
LEMMA StateIntrKept ==
    ASSUME PollAssumption, PollInv, NEW f \in Obj, StateIntr(f) PROVE PollInv'
<1>1. PICK st \in SUBSET Event : poll_state' = [poll_state EXCEPT ![f] = st]
  BY DEF StateIntr
<1>2. /\ poll_pc' = Resumed(poll_pc, f)
      /\ UNCHANGED <<polling, pollcnt, req, poll_at, target, poll_sig, poll_cpu, poll_panic>>
  BY DEF StateIntr
<1>3. PollTypes /\ Counted /\ NoMissedPoll
  BY DEF PollInv
<1>4. /\ poll_pc' \in [Poller -> {"user", "reg", "scan", "asleep", "ready", "unreg", "wake"}]
      /\ \A t \in Poller :
            /\ poll_pc[t] # "asleep" => poll_pc'[t] = poll_pc[t]
            /\ poll_pc[t] = "asleep" =>
                  poll_pc'[t] = IF t \in PollersOf(f) THEN "ready" ELSE "asleep"
  BY <1>2, <1>3, ResumedIs
<1>5. PollTypes'
  BY <1>1, <1>2, <1>3, <1>4 DEF PollTypes
<1>6. Counted'
  BY <1>2, <1>3, <1>4, CountsWhenWoken
<1>7. ASSUME NEW t \in Poller, poll_pc'[t] = "asleep", NEW i \in 1..Len(req[t]),
             poll_state'[req[t][i].obj] \cap req[t][i].events # {}
      PROVE  \E u \in Poller : poll_pc'[u] = "wake" /\ target[u] = req[t][i].obj
  <2>1. poll_pc[t] = "asleep" /\ t \notin PollersOf(f)
    BY <1>4, <1>7
  <2>2. req[t][i].obj # f
    BY <2>1, SleepersReached
  <2>3. req[t][i].obj \in Obj
    BY <1>3, RequestIs DEF PollTypes
  <2>4. poll_state[req[t][i].obj] \cap req[t][i].events # {}
    BY <1>1, <1>3, <1>7, <2>2, <2>3 DEF PollTypes
  <2>5. PICK u \in Poller : poll_pc[u] = "wake" /\ target[u] = req[t][i].obj
    BY <1>3, <2>1, <2>4 DEF NoMissedPoll
  <2>6. QED
    BY <1>4, <2>5
<1>8. NoMissedPoll'
  BY <1>2, <1>7 DEF NoMissedPoll
<1>9. QED
  BY <1>5, <1>6, <1>8 DEF PollInv

\* A task changes a state, and has the wake-up before it.
LEMMA StateSetKept ==
    ASSUME PollAssumption, PollInv, NEW t \in Poller, StateSet(t) PROVE PollInv'
<1>1. PICK f \in Obj, st \in SUBSET Event :
          poll_state' = [poll_state EXCEPT ![f] = st] /\ target' = [target EXCEPT ![t] = f]
  BY DEF StateSet
<1>2. /\ poll_pc[t] = "user" /\ poll_pc' = [poll_pc EXCEPT ![t] = "wake"] /\ poll_cpu' = t
      /\ UNCHANGED <<polling, pollcnt, req, poll_at, poll_sig, poll_panic>>
  BY DEF StateSet
<1>3. PollTypes /\ Counted /\ NoMissedPoll
  BY DEF PollInv
<1>4. PollTypes'
  BY <1>1, <1>2, <1>3 DEF PollTypes
<1>5. poll_pc'[t] = "wake" /\ \A u \in Poller : u # t => poll_pc'[u] = poll_pc[u]
  BY <1>2, <1>3 DEF PollTypes
<1>6. Counted'
  <2>1. \A u \in Poller : poll_pc'[u] = poll_pc[u] \/ {poll_pc[u], poll_pc'[u]} \subseteq {"user", "wake"}
    BY <1>2, <1>5
  <2>2. QED
    BY <1>2, <1>3, <2>1, CountsWhenWoken
<1>7. target'[t] = f /\ \A u \in Poller : u # t => target'[u] = target[u]
  BY <1>1, <1>3 DEF PollTypes
<1>8. ASSUME NEW s \in Poller, poll_pc'[s] = "asleep", NEW i \in 1..Len(req[s]),
             poll_state'[req[s][i].obj] \cap req[s][i].events # {}
      PROVE  \E u \in Poller : poll_pc'[u] = "wake" /\ target'[u] = req[s][i].obj
  <2>1. CASE req[s][i].obj = f
    BY <1>5, <1>7, <2>1
  <2>2. CASE req[s][i].obj # f
    <3>1. req[s][i].obj \in Obj /\ poll_pc[s] = "asleep"
      BY <1>3, <1>5, <1>8, RequestIs DEF PollTypes
    <3>2. poll_state[req[s][i].obj] \cap req[s][i].events # {}
      BY <1>1, <1>3, <1>8, <2>2, <3>1 DEF PollTypes
    <3>3. PICK u \in Poller : poll_pc[u] = "wake" /\ target[u] = req[s][i].obj
      BY <1>3, <3>1, <3>2 DEF NoMissedPoll
    <3>4. QED
      BY <1>2, <1>5, <1>7, <3>3
  <2>3. QED
    BY <2>1, <2>2
<1>9. NoMissedPoll'
  BY <1>2, <1>8 DEF NoMissedPoll
<1>10. QED
  BY <1>4, <1>6, <1>9 DEF PollInv

\* The wake-up of fs_state: what nobody has to wake any more, is awake.
LEMMA StateWakeKept ==
    ASSUME PollAssumption, PollInv, NEW t \in Poller, StateWake(t) PROVE PollInv'
<1> DEFINE p == Resumed(poll_pc, target[t])
<1>1. /\ poll_pc[t] = "wake" /\ poll_pc' = [p EXCEPT ![t] = "user"] /\ poll_cpu' = NoPoller
      /\ target' = [target EXCEPT ![t] = NoPoller]
      /\ UNCHANGED <<poll_state, polling, pollcnt, req, poll_at, poll_sig, poll_panic>>
  BY DEF StateWake
<1>2. PollTypes /\ Counted /\ NoMissedPoll
  BY DEF PollInv
<1>3. /\ p \in [Poller -> {"user", "reg", "scan", "asleep", "ready", "unreg", "wake"}]
      /\ \A u \in Poller :
            /\ poll_pc[u] # "asleep" => p[u] = poll_pc[u]
            /\ poll_pc[u] = "asleep" =>
                  p[u] = IF u \in PollersOf(target[t]) THEN "ready" ELSE "asleep"
  BY <1>2, ResumedIs
<1> HIDE DEF p
<1>4. poll_pc'[t] = "user" /\ \A u \in Poller : u # t => poll_pc'[u] = p[u]
  BY <1>1, <1>3
<1>5. PollTypes'
  BY <1>1, <1>2, <1>3 DEF PollTypes
<1>6. Counted'
  <2>1. ASSUME NEW u \in Poller
        PROVE  \/ poll_pc'[u] = poll_pc[u]
               \/ poll_pc[u] \in {"asleep", "scan", "ready"}
                  /\ poll_pc'[u] \in {"asleep", "scan", "ready"}
               \/ {poll_pc[u], poll_pc'[u]} \subseteq {"user", "wake"}
    <3>1. CASE u = t
      BY <1>1, <1>4, <3>1
    <3>2. CASE u # t
      BY <1>3, <1>4, <3>2
    <3>3. QED
      BY <3>1, <3>2
  <2>2. QED
    BY <1>1, <1>2, <2>1, CountsWhenWoken
<1>7. \A u \in Poller : u # t => target'[u] = target[u]
  BY <1>1, <1>2 DEF PollTypes
<1>8. ASSUME NEW s \in Poller, poll_pc'[s] = "asleep", NEW i \in 1..Len(req[s]),
             poll_state[req[s][i].obj] \cap req[s][i].events # {}
      PROVE  \E u \in Poller : poll_pc'[u] = "wake" /\ target'[u] = req[s][i].obj
  <2>1. s # t /\ poll_pc[s] = "asleep" /\ s \notin PollersOf(target[t])
    BY <1>3, <1>4, <1>8
  <2>2. req[s][i].obj # target[t]
    BY <2>1, SleepersReached
  <2>3. PICK u \in Poller : poll_pc[u] = "wake" /\ target[u] = req[s][i].obj
    BY <1>2, <1>8, <2>1 DEF NoMissedPoll
  <2>4. u # t
    BY <2>2, <2>3
  <2>5. QED
    BY <1>3, <1>4, <1>7, <2>3, <2>4
<1>9. NoMissedPoll'
  BY <1>1, <1>8 DEF NoMissedPoll
<1>10. QED
  BY <1>5, <1>6, <1>9 DEF PollInv

\* Where a step of one task, t, leaves the others where they are and changes no
\* state, sleepers besides t are as right as before.
LEMMA SleepersStay ==
    ASSUME NoMissedPoll, NEW t \in Poller, UNCHANGED <<poll_state, target>>,
           \A u \in Poller : u # t => poll_pc'[u] = poll_pc[u] /\ req'[u] = req[u],
           poll_pc[t] # "wake", poll_pc'[t] # "asleep" \/ ~Ready(t)', poll_pc'[t] = "asleep" => req'[t] = req[t]
    PROVE  NoMissedPoll'
<1>1. ASSUME NEW s \in Poller, poll_pc'[s] = "asleep", NEW i \in 1..Len(req'[s]),
             poll_state'[req'[s][i].obj] \cap req'[s][i].events # {}
      PROVE  \E u \in Poller : poll_pc'[u] = "wake" /\ target'[u] = req'[s][i].obj
  <2>1. s # t
    BY <1>1 DEF Ready
  <2>2. poll_pc[s] = "asleep" /\ req'[s] = req[s]
    BY <1>1, <2>1
  <2>3. PICK u \in Poller : poll_pc[u] = "wake" /\ target[u] = req[s][i].obj
    BY <1>1, <2>2 DEF NoMissedPoll
  <2>4. u # t
    BY <2>3
  <2>5. QED
    BY <2>2, <2>3, <2>4
<1>2. QED
  BY <1>1 DEF NoMissedPoll

\* A poll begins with no item registered.
LEMMA PollStartKept ==
    ASSUME PollAssumption, PollInv, NEW t \in Poller, NEW r \in Request, PollStart(t, r)
    PROVE  PollInv'
<1>1. /\ poll_pc[t] = "user" /\ poll_pc' = [poll_pc EXCEPT ![t] = "reg"]
      /\ req' = [req EXCEPT ![t] = r] /\ poll_at' = [poll_at EXCEPT ![t] = 1] /\ poll_cpu' = t
      /\ UNCHANGED <<poll_state, polling, pollcnt, target, poll_sig, poll_panic>>
  BY DEF PollStart
<1>2. PollTypes /\ Counted /\ NoMissedPoll
  BY DEF PollInv
<1>3. 1 \in 1..(MaxFds + 1)
  BY DEF PollAssumption
<1>4. PollTypes'
  BY <1>1, <1>2, <1>3 DEF PollTypes
<1>5. /\ poll_pc'[t] = "reg" /\ poll_at'[t] = 1
      /\ \A u \in Poller : u # t => /\ poll_pc'[u] = poll_pc[u] /\ req'[u] = req[u]
                                    /\ poll_at'[u] = poll_at[u]
  BY <1>1, <1>2 DEF PollTypes
<1>6. Counted'
  <2>1. \A i \in 1..MaxFds : ~Pending(t, i) /\ ~Pending(t, i)'
    BY <1>1, <1>5 DEF Pending
  <2>2. \A u \in Poller, i \in 1..MaxFds : u # t => (Pending(u, i)' <=> Pending(u, i))
    BY <1>5 DEF Pending
  <2>3. QED
    BY <1>1, <1>2, <1>5, <2>1, <2>2, CountsStay
<1>7. NoMissedPoll'
  BY <1>1, <1>2, <1>5, SleepersStay
<1>8. QED
  BY <1>4, <1>6, <1>7 DEF PollInv

\* The next item is registered.
LEMMA ItemRegistered ==
    ASSUME PollAssumption, PollInv, NEW t \in Poller, poll_pc[t] = "reg",
           poll_at[t] <= Len(req[t]), poll1(t, req[t][poll_at[t]].obj),
           poll_at' = [poll_at EXCEPT ![t] = @ + 1],
           UNCHANGED <<poll_pc, poll_panic, poll_state, req, target, poll_sig, poll_cpu>>
    PROVE  PollInv'
<1>0. PICK k, f : k = poll_at[t] /\ f = req[t][k].obj
  OBVIOUS
<1>1. PollTypes /\ Counted /\ NoMissedPoll
  BY DEF PollInv
<1>2. Len(req[t]) \in 0..MaxFds /\ MaxFds \in Nat /\ k \in 1..(MaxFds + 1)
  BY <1>0, <1>1, RequestIs DEF PollTypes, PollAssumption
<1>3. k \in 1..MaxFds /\ k \in 1..Len(req[t]) /\ k + 1 \in 1..(MaxFds + 1)
  BY <1>0, <1>2
<1>4. f \in Obj
  BY <1>0, <1>1, <1>3, RequestIs DEF PollTypes
<1>5. poll_at'[t] = k + 1 /\ \A u \in Poller : u # t => poll_at'[u] = poll_at[u]
  BY <1>0, <1>1 DEF PollTypes
<1>6. poll1(t, f)
  BY <1>0
<1>7. PollTypes'
  <2>1. polling' \in [Obj -> Poller \cup {NoPoller}] /\ pollcnt' \in [Obj -> Nat]
    BY <1>1, <1>4, <1>6 DEF PollTypes, poll1
  <2>2. poll_at' \in [Poller -> 1..(MaxFds + 1)]
    BY <1>0, <1>1, <1>3 DEF PollTypes
  <2>3. QED
    BY <1>1, <2>1, <2>2 DEF PollTypes
<1>8. \A i \in 1..MaxFds : Pending(t, i)' <=> Pending(t, i) \/ i = k
  <2>1. \A i \in 1..MaxFds : i < k + 1 <=> i < k \/ i = k
    BY <1>3
  <2>2. \A i \in 1..MaxFds : Pending(t, i) <=> i < k
    BY <1>0 DEF Pending
  <2>3. \A i \in 1..MaxFds : Pending(t, i)' <=> i < k + 1
    BY <1>5 DEF Pending
  <2>4. QED
    BY <2>1, <2>2, <2>3
<1>9. ~Pending(t, k)
  BY <1>0, <1>3 DEF Pending
<1>10. \A u \in Poller, i \in 1..MaxFds : u # t => (Pending(u, i)' <=> Pending(u, i))
  BY <1>5 DEF Pending
<1>11. <<t, k>> \notin Polls(f)
  BY <1>0, <1>3, <1>9, PollsIs
<1>12. ASSUME NEW g, NEW u \in Poller, NEW i \in 1..MaxFds
       PROVE  <<u, i>> \in Polls(g)' <=> <<u, i>> \in Polls(g) \/ (u = t /\ i = k /\ g = f)
  <2>1. <<u, i>> \in Polls(g)' <=> i <= Len(req[u]) /\ req[u][i].obj = g /\ Pending(u, i)'
    BY DEF Polls
  <2>2. <<u, i>> \in Polls(g) <=> i <= Len(req[u]) /\ req[u][i].obj = g /\ Pending(u, i)
    BY PollsIs
  <2>3. Pending(u, i)' <=> Pending(u, i) \/ (u = t /\ i = k)
    BY <1>8, <1>10
  <2>4. k <= Len(req[t])
    BY <1>3, <1>2
  <2>5. QED
    BY <1>0, <2>1, <2>2, <2>3, <2>4
<1>13. \A g : Polls(g) \subseteq Poller \X (1..MaxFds) /\ Polls(g)' \subseteq Poller \X (1..MaxFds)
  BY DEF Polls
<1>14. Polls(f)' = Polls(f) \cup {<<t, k>>}
  <2>1. Polls(f) \cup {<<t, k>>} \subseteq Poller \X (1..MaxFds)
    BY <1>3, <1>13
  <2>2. ASSUME NEW u \in Poller, NEW i \in 1..MaxFds
        PROVE  <<u, i>> \in Polls(f)' <=> <<u, i>> \in Polls(f) \cup {<<t, k>>}
    BY <1>12
  <2>3. Polls(f)' \subseteq Poller \X (1..MaxFds)
    BY <1>13
  <2>4. QED
    BY <2>1, <2>2, <2>3, SamePairs
<1>15. ASSUME NEW g \in Obj, g # f PROVE Polls(g)' = Polls(g)
  <2>1. ASSUME NEW u \in Poller, NEW i \in 1..MaxFds
        PROVE  <<u, i>> \in Polls(g)' <=> <<u, i>> \in Polls(g)
    BY <1>12, <1>15
  <2>2. Polls(g) \subseteq Poller \X (1..MaxFds)
    BY <1>13
  <2>3. Polls(g)' \subseteq Poller \X (1..MaxFds)
    BY <1>13
  <2>4. QED
    BY <2>1, <2>2, <2>3, SamePairs
<1>16. Counted'
  BY <1>1, <1>3, <1>4, <1>6, <1>11, <1>14, <1>15, CountsGrow
<1>17. NoMissedPoll'
  BY <1>1, SleepersStay
<1>18. QED
  BY <1>7, <1>16, <1>17 DEF PollInv

\* The last loop: the next item is unregistered.
LEMMA ItemUnregistered ==
    ASSUME PollAssumption, PollInv, NEW t \in Poller, poll_pc[t] = "unreg",
           poll_at[t] <= Len(req[t]), unpoll1(t, req[t][poll_at[t]].obj),
           poll_at' = [poll_at EXCEPT ![t] = @ + 1],
           UNCHANGED <<poll_pc, req, poll_cpu, poll_sig, poll_state, target>>
    PROVE  PollInv'
<1>0. PICK k, f : k = poll_at[t] /\ f = req[t][k].obj
  OBVIOUS
<1>1. PollTypes /\ Counted /\ NoMissedPoll
  BY DEF PollInv
<1>2. Len(req[t]) \in 0..MaxFds /\ MaxFds \in Nat /\ k \in 1..(MaxFds + 1)
  BY <1>0, <1>1, RequestIs DEF PollTypes, PollAssumption
<1>3. k \in 1..MaxFds /\ k \in 1..Len(req[t]) /\ k + 1 \in 1..(MaxFds + 1)
  BY <1>0, <1>2
<1>4. f \in Obj
  BY <1>0, <1>1, <1>3, RequestIs DEF PollTypes
<1>5. poll_at'[t] = k + 1 /\ \A u \in Poller : u # t => poll_at'[u] = poll_at[u]
  BY <1>0, <1>1 DEF PollTypes
<1>6. unpoll1(t, f)
  BY <1>0
<1>8. \A i \in 1..MaxFds : Pending(t, i)' <=> Pending(t, i) /\ i # k
  <2>1. \A i \in 1..MaxFds : i >= k + 1 <=> i >= k /\ i # k
    BY <1>3
  <2>2. \A i \in 1..MaxFds : Pending(t, i) <=> i >= k
    BY <1>0 DEF Pending
  <2>3. \A i \in 1..MaxFds : Pending(t, i)' <=> i >= k + 1
    BY <1>5 DEF Pending
  <2>4. QED
    BY <2>1, <2>2, <2>3
<1>9. Pending(t, k)
  BY <1>0, <1>3 DEF Pending
<1>10. \A u \in Poller, i \in 1..MaxFds : u # t => (Pending(u, i)' <=> Pending(u, i))
  BY <1>5 DEF Pending
<1>11. <<t, k>> \in Polls(f)
  BY <1>0, <1>2, <1>3, <1>9, PollsIs
<1>12. ASSUME NEW g, NEW u \in Poller, NEW i \in 1..MaxFds
       PROVE  <<u, i>> \in Polls(g)' <=> <<u, i>> \in Polls(g) /\ ~(u = t /\ i = k)
  <2>1. <<u, i>> \in Polls(g)' <=> i <= Len(req[u]) /\ req[u][i].obj = g /\ Pending(u, i)'
    BY DEF Polls
  <2>2. <<u, i>> \in Polls(g) <=> i <= Len(req[u]) /\ req[u][i].obj = g /\ Pending(u, i)
    BY PollsIs
  <2>3. Pending(u, i)' <=> Pending(u, i) /\ ~(u = t /\ i = k)
    BY <1>8, <1>10
  <2>4. QED
    BY <2>1, <2>2, <2>3
<1>13. \A g : Polls(g) \subseteq Poller \X (1..MaxFds) /\ Polls(g)' \subseteq Poller \X (1..MaxFds)
  BY DEF Polls
<1>14. \A g : <<t, k>> \in Polls(g) => g = f
  BY <1>0, <1>3, PollsIs
<1>15. Polls(f)' = Polls(f) \ {<<t, k>>}
  <2>1. ASSUME NEW u \in Poller, NEW i \in 1..MaxFds
        PROVE  <<u, i>> \in Polls(f)' <=> <<u, i>> \in Polls(f) \ {<<t, k>>}
    BY <1>12
  <2>2. Polls(f) \ {<<t, k>>} \subseteq Poller \X (1..MaxFds)
    BY <1>13
  <2>3. Polls(f)' \subseteq Poller \X (1..MaxFds)
    BY <1>13
  <2>4. QED
    BY <2>1, <2>2, <2>3, SamePairs
<1>16. ASSUME NEW g \in Obj, g # f PROVE Polls(g)' = Polls(g)
  <2>1. ASSUME NEW u \in Poller, NEW i \in 1..MaxFds
        PROVE  <<u, i>> \in Polls(g)' <=> <<u, i>> \in Polls(g)
    BY <1>12, <1>14, <1>16
  <2>2. Polls(g) \subseteq Poller \X (1..MaxFds)
    BY <1>13
  <2>3. Polls(g)' \subseteq Poller \X (1..MaxFds)
    BY <1>13
  <2>4. QED
    BY <2>1, <2>2, <2>3, SamePairs
<1>17. Counted' /\ pollcnt' \in [Obj -> Nat]
  BY <1>1, <1>3, <1>4, <1>6, <1>11, <1>15, <1>16, CountsShrink
<1>18. PollTypes'
  <2>1. polling' \in [Obj -> Poller \cup {NoPoller}] /\ poll_panic' \in BOOLEAN
    BY <1>1, <1>4, <1>6 DEF PollTypes, unpoll1
  <2>2. poll_at' \in [Poller -> 1..(MaxFds + 1)]
    BY <1>0, <1>1, <1>3 DEF PollTypes
  <2>3. QED
    BY <1>1, <1>17, <2>1, <2>2 DEF PollTypes
<1>19. NoMissedPoll'
  BY <1>1, SleepersStay
<1>20. QED
  BY <1>17, <1>18, <1>19 DEF PollInv

\* The second loop of sys__poll.
LEMMA RegisterKept ==
    ASSUME PollAssumption, PollInv, NEW t \in Poller, Register(t) PROVE PollInv'
<1>1. PollTypes /\ Counted /\ NoMissedPoll /\ poll_pc[t] = "reg"
  BY DEF PollInv, Register
<1>2. Len(req[t]) \in 0..MaxFds /\ poll_at[t] \in 1..(MaxFds + 1) /\ MaxFds \in Nat
  BY <1>1, RequestIs DEF PollTypes, PollAssumption
<1>3. CASE /\ poll_at[t] > Len(req[t]) /\ poll_pc' = [poll_pc EXCEPT ![t] = "scan"]
           /\ UNCHANGED <<polling, pollcnt, poll_at, poll_panic, poll_state, req, target,
                          poll_sig, poll_cpu>>
  <2>1. poll_pc'[t] = "scan" /\ \A u \in Poller : u # t => poll_pc'[u] = poll_pc[u]
    BY <1>1, <1>3 DEF PollTypes
  <2>2. PollTypes'
    BY <1>1, <1>3 DEF PollTypes
  <2>3. ASSUME NEW u \in Poller, NEW i \in 1..MaxFds
        PROVE  i <= Len(req[u]) /\ Pending(u, i)' <=> i <= Len(req[u]) /\ Pending(u, i)
    <3>1. CASE u # t
      BY <1>3, <2>1, <3>1 DEF Pending
    <3>2. CASE u = t
      <4>1. i <= Len(req[t]) => i < poll_at[t]
        BY <1>2, <1>3
      <4>2. Pending(t, i)'
        BY <2>1 DEF Pending
      <4>3. Pending(t, i) <=> i < poll_at[t]
        BY <1>1 DEF Pending
      <4>4. QED
        BY <3>2, <4>1, <4>2, <4>3
    <3>3. QED
      BY <3>1, <3>2
  <2>4. Counted'
    BY <1>1, <1>3, <2>3, CountsStay
  <2>5. NoMissedPoll'
    BY <1>1, <1>3, <2>1, SleepersStay
  <2>6. QED
    BY <2>2, <2>4, <2>5 DEF PollInv
<1>4. CASE /\ poll_at[t] <= Len(req[t]) /\ poll1(t, req[t][poll_at[t]].obj)
           /\ poll_at' = [poll_at EXCEPT ![t] = @ + 1]
           /\ UNCHANGED <<poll_pc, poll_panic, poll_state, req, target, poll_sig, poll_cpu>>
  BY <1>1, <1>4, ItemRegistered
<1>5. CASE /\ poll_panic' = TRUE
           /\ UNCHANGED <<polling, pollcnt, poll_pc, poll_at, poll_state, req, target,
                          poll_sig, poll_cpu>>
  <2>1. PollTypes'
    BY <1>1, <1>5 DEF PollTypes
  <2>2. Counted'
    BY <1>1, <1>5, CountsWhenWoken
  <2>3. NoMissedPoll'
    BY <1>1, <1>5 DEF NoMissedPoll
  <2>4. QED
    BY <2>1, <2>2, <2>3 DEF PollInv
<1>6. QED
  BY <1>3, <1>4, <1>5 DEF Register

\* The scan: a task sleeps only when nothing is ready.
LEMMA ScanKept ==
    ASSUME PollAssumption, PollInv, NEW t \in Poller, Scan(t) PROVE PollInv'
<1>1. /\ PollTypes /\ Counted /\ NoMissedPoll /\ poll_pc[t] = "scan"
      /\ UNCHANGED <<poll_state, polling, pollcnt, req, target, poll_sig, poll_panic>>
  BY DEF PollInv, Scan
<1>2. 1 \in 1..(MaxFds + 1)
  BY DEF PollAssumption
<1>3. CASE /\ poll_pc' = [poll_pc EXCEPT ![t] = "unreg"] /\ poll_at' = [poll_at EXCEPT ![t] = 1]
           /\ UNCHANGED poll_cpu
  <2>1. /\ poll_pc'[t] = "unreg" /\ poll_at'[t] = 1
        /\ \A u \in Poller : u # t => poll_pc'[u] = poll_pc[u] /\ poll_at'[u] = poll_at[u]
    BY <1>1, <1>3 DEF PollTypes
  <2>2. PollTypes'
    BY <1>1, <1>2, <1>3 DEF PollTypes
  <2>3. ASSUME NEW u \in Poller, NEW i \in 1..MaxFds PROVE Pending(u, i)' <=> Pending(u, i)
    <3>1. CASE u # t
      BY <2>1, <3>1 DEF Pending
    <3>2. CASE u = t
      BY <1>1, <2>1, <3>2 DEF Pending, PollAssumption
    <3>3. QED
      BY <3>1, <3>2
  <2>4. Counted'
    BY <1>1, <2>3, CountsStay
  <2>5. NoMissedPoll'
    BY <1>1, <2>1, SleepersStay
  <2>6. QED
    BY <2>2, <2>4, <2>5 DEF PollInv
<1>4. CASE /\ ~Ready(t) /\ poll_pc' = [poll_pc EXCEPT ![t] = "asleep"] /\ poll_cpu' = NoPoller
           /\ UNCHANGED poll_at
  <2>1. poll_pc'[t] = "asleep" /\ \A u \in Poller : u # t => poll_pc'[u] = poll_pc[u]
    BY <1>1, <1>4 DEF PollTypes
  <2>2. PollTypes'
    BY <1>1, <1>4 DEF PollTypes
  <2>3. Counted'
    BY <1>1, <1>4, <2>1, CountsWhenWoken
  <2>4. ~Ready(t)'
    BY <1>1, <1>4 DEF Ready
  <2>5. NoMissedPoll'
    BY <1>1, <2>1, <2>4, SleepersStay
  <2>6. QED
    BY <2>2, <2>3, <2>5 DEF PollInv
<1>5. QED
  BY <1>3, <1>4 DEF Scan

\* A woken task scans again.
LEMMA DispatchKept ==
    ASSUME PollAssumption, PollInv, NEW t \in Poller, Dispatch(t) PROVE PollInv'
<1>1. /\ PollTypes /\ Counted /\ NoMissedPoll
      /\ poll_pc[t] = "ready" /\ poll_cpu' = t /\ poll_pc' = [poll_pc EXCEPT ![t] = "scan"]
      /\ UNCHANGED <<poll_state, polling, pollcnt, req, poll_at, target, poll_sig, poll_panic>>
  BY DEF PollInv, Dispatch
<1>2. poll_pc'[t] = "scan" /\ \A u \in Poller : u # t => poll_pc'[u] = poll_pc[u]
  BY <1>1 DEF PollTypes
<1>3. PollTypes'
  BY <1>1 DEF PollTypes
<1>4. Counted'
  BY <1>1, <1>2, CountsWhenWoken
<1>5. NoMissedPoll'
  BY <1>1, <1>2, SleepersStay
<1>6. QED
  BY <1>3, <1>4, <1>5 DEF PollInv

\* The last loop, and the return with no item registered.
LEMMA UnregisterKept ==
    ASSUME PollAssumption, PollInv, NEW t \in Poller, Unregister(t) PROVE PollInv'
<1>1. /\ PollTypes /\ Counted /\ NoMissedPoll /\ poll_pc[t] = "unreg"
      /\ UNCHANGED <<poll_state, target>>
  BY DEF PollInv, Unregister
<1>2. Len(req[t]) \in 0..MaxFds /\ poll_at[t] \in 1..(MaxFds + 1) /\ MaxFds \in Nat
  BY <1>1, RequestIs DEF PollTypes, PollAssumption
<1>3. CASE /\ poll_at[t] <= Len(req[t]) /\ unpoll1(t, req[t][poll_at[t]].obj)
           /\ poll_at' = [poll_at EXCEPT ![t] = @ + 1]
           /\ UNCHANGED <<poll_pc, req, poll_cpu, poll_sig>>
  BY <1>1, <1>3, ItemUnregistered
<1>4. CASE /\ poll_at[t] > Len(req[t]) /\ poll_pc' = [poll_pc EXCEPT ![t] = "user"]
           /\ req' = [req EXCEPT ![t] = << >>] /\ poll_at' = [poll_at EXCEPT ![t] = 1]
           /\ poll_cpu' = NoPoller /\ poll_sig' = poll_sig \ {t}
           /\ UNCHANGED <<polling, pollcnt, poll_panic>>
  <2>1. /\ poll_pc'[t] = "user"
        /\ \A u \in Poller : u # t => /\ poll_pc'[u] = poll_pc[u] /\ req'[u] = req[u]
                                      /\ poll_at'[u] = poll_at[u]
    BY <1>1, <1>4 DEF PollTypes
  <2>2. 1 \in 1..(MaxFds + 1) /\ << >> \in Request
    BY <1>2, NoRequest
  <2>3. PollTypes'
    BY <1>1, <1>4, <2>2 DEF PollTypes
  <2>4. \A i \in 1..MaxFds : ~(i <= Len(req[t]) /\ Pending(t, i)) /\ ~Pending(t, i)'
    <3>1. \A i \in 1..MaxFds : i <= Len(req[t]) => ~(i >= poll_at[t])
      BY <1>2, <1>4
    <3>2. \A i \in 1..MaxFds : Pending(t, i) <=> i >= poll_at[t]
      BY <1>1 DEF Pending
    <3>3. \A i \in 1..MaxFds : ~Pending(t, i)'
      BY <2>1 DEF Pending
    <3>4. QED
      BY <3>1, <3>2, <3>3
  <2>5. \A u \in Poller, i \in 1..MaxFds : u # t => (Pending(u, i)' <=> Pending(u, i))
    BY <2>1 DEF Pending
  <2>6. Counted'
    BY <1>1, <1>4, <2>1, <2>4, <2>5, CountsStay
  <2>7. NoMissedPoll'
    BY <1>1, <2>1, SleepersStay
  <2>8. QED
    BY <2>3, <2>6, <2>7 DEF PollInv
<1>5. QED
  BY <1>3, <1>4 DEF Unregister

\* A signal resumes the sleeper.
LEMMA PollSignalKept ==
    ASSUME PollAssumption, PollInv, NEW t \in Poller, PollSignal(t) PROVE PollInv'
<1>1. /\ PollTypes /\ Counted /\ NoMissedPoll
      /\ poll_pc[t] \notin {"user", "wake"} /\ poll_sig' = poll_sig \cup {t}
      /\ poll_pc' = [poll_pc EXCEPT ![t] = IF @ = "asleep" THEN "ready" ELSE @]
      /\ UNCHANGED <<poll_state, polling, pollcnt, req, poll_at, target, poll_cpu, poll_panic>>
  BY DEF PollInv, PollSignal
<1>2. /\ poll_pc'[t] = IF poll_pc[t] = "asleep" THEN "ready" ELSE poll_pc[t]
      /\ \A u \in Poller : u # t => poll_pc'[u] = poll_pc[u]
  BY <1>1 DEF PollTypes
<1>3. PollTypes'
  BY <1>1 DEF PollTypes
<1>4. Counted'
  BY <1>1, <1>2, CountsWhenWoken
<1>5. poll_pc'[t] # "asleep" /\ poll_pc[t] # "wake"
  BY <1>1, <1>2
<1>6. NoMissedPoll'
  BY <1>1, <1>2, <1>5, SleepersStay
<1>7. QED
  BY <1>3, <1>4, <1>6 DEF PollInv

\* Every step keeps it.
LEMMA PollKept == ASSUME PollAssumption, PollInv, [PollNext]_pollVars PROVE PollInv'
<1>1. ASSUME NEW t \in Poller, PollStep(t) PROVE PollInv'
  BY <1>1, RegisterKept, ScanKept, DispatchKept, UnregisterKept, StateWakeKept DEF PollStep
<1>2. ASSUME NEW t \in Poller, StateSet(t) PROVE PollInv'
  BY <1>2, StateSetKept
<1>3. ASSUME NEW t \in Poller, PollSignal(t) PROVE PollInv'
  BY <1>3, PollSignalKept
<1>4. ASSUME NEW t \in Poller, NEW r \in Request, PollStart(t, r) PROVE PollInv'
  BY <1>4, PollStartKept
<1>5. ASSUME NEW f \in Obj, StateIntr(f) PROVE PollInv'
  BY <1>5, StateIntrKept
<1>6. CASE UNCHANGED pollVars
  <2>1. UNCHANGED <<poll_state, polling, pollcnt, poll_pc, req, poll_at, target, poll_sig,
                    poll_cpu, poll_panic>>
    BY <1>6 DEF pollVars
  <2>2. PollTypes' /\ NoMissedPoll'
    BY <2>1 DEF PollInv, PollTypes, NoMissedPoll
  <2>3. Counted'
    BY <2>1, CountsWhenWoken DEF PollInv
  <2>4. QED
    BY <2>2, <2>3 DEF PollInv
<1>7. QED
  BY <1>1, <1>2, <1>3, <1>4, <1>5, <1>6 DEF PollNext

\* poll() counts its polls right, remembers an object's poller only while he is
\* alone, and lets nobody sleep on an object that is ready, for every set of tasks
\* and objects and every number of descriptors, also the same one twice
\* (sys__poll, poll1, unpoll1, fs_state).
THEOREM PollCorrect == ASSUME PollAssumption PROVE PollSpec => []PollRight
<1>1. PollInit => PollInv
  BY PollStarts
<1>2. PollInv /\ [PollNext]_pollVars => PollInv'
  BY PollKept
<1>3. PollInv => PollRight
  BY DEF PollInv, Counted, PollRight
<1>4. QED
  BY <1>1, <1>2, <1>3, PTL DEF PollSpec

-----------------------------------------------------------------------------
(* The pseudo terminal.                                                    *)

\* A task in a call has the end open that it reads or writes.
PtyHolders ==
    \A t \in PtyTask : pty_pc[t] # PtyUser =>
        IF pty_pc[t][2] \in {"mr", "mw"} THEN t \in ptm ELSE t \in pts

\* A structure that is not there has no users; one that has none, or whose slave
\* could be opened without a master, was left over by a full object table.
PtyLife ==
    /\ ~alloc => ptm = {} /\ pts = {}
    /\ alloc /\ ptm = {} /\ pts = {} => leaked
    /\ fault => leaked

\* The one task that runs in the kernel.
PtyRuns ==
    /\ pty_cpu # NoPtyTask => \E p \in PtyPlace : pty_pc[pty_cpu] = PtyRunning(p)
    /\ \A t \in PtyTask, p \in PtyPlace : pty_pc[t] = PtyRunning(p) => pty_cpu = t

\* Somebody is in the middle of call p.
PtyBusy(p) == pty_cpu # NoPtyTask /\ pty_pc[pty_cpu] = PtyRunning(p)

\* What a task sleeps for is not there; a write that goes on will still wake its readers.
PtySleepers ==
    \A t \in PtyTask :
        /\ pty_pc[t] = PtyAsleep("mr") => out_count = 0 \/ PtyBusy("sw")
        /\ pty_pc[t] = PtyAsleep("sr") => /\ PtyBusy("mw") \/ (in_count = 0 /\ ~canon_eot)
                                          /\ ptm # {}
        /\ pty_pc[t] = PtyAsleep("mw") => in_count >= InMax
        /\ pty_pc[t] = PtyAsleep("sw") => out_count >= OutMax /\ ptm # {}
        /\ \A p \in PtyPlace : pty_pc[t] = PtyAsleep(p) => t \notin pty_sig

\* poll() is told; a write that goes on will still tell its readers' end.
PtyTold ==
    /\ ptm # {} /\ out_count > 0 => "R" \in mstate \/ PtyBusy("sw")
    /\ ptm # {} /\ in_count < InMax => "W" \in mstate
    /\ pts # {} /\ in_count > 0 => "R" \in sstate \/ PtyBusy("mw")
    /\ pts # {} /\ out_count < OutMax => "W" \in sstate

\* The inductive invariant of the terminal.
PtyInv == PtyTypes /\ PtyHolders /\ PtyLife /\ PtyRuns /\ PtySleepers /\ PtyTold

\* Places are told apart.
LEMMA PcFacts ==
    /\ \A p \in PtyPlace : /\ PtyAsleep(p) \in PtyPc /\ PtyWoken(p) \in PtyPc /\ PtyRunning(p) \in PtyPc
                           /\ PtyAsleep(p)[2] = p /\ PtyWoken(p)[2] = p /\ PtyRunning(p)[2] = p
                           /\ PtyAsleep(p) # PtyUser /\ PtyWoken(p) # PtyUser /\ PtyRunning(p) # PtyUser
    /\ \A p, q \in PtyPlace : /\ PtyAsleep(p) # PtyRunning(q) /\ PtyAsleep(p) # PtyWoken(q)
                              /\ PtyWoken(p) # PtyRunning(q)
                              /\ PtyAsleep(p) = PtyAsleep(q) => p = q
                              /\ PtyRunning(p) = PtyRunning(q) => p = q
    /\ PtyUser \in PtyPc
    /\ \A v \in PtyPc : v # PtyUser => v[2] \in PtyPlace
BY DEF PtyAsleep, PtyWoken, PtyRunning, PtyUser, PtyPc, PtyPlace

\* Where task t is after those of P that slept in Q were resumed.
PtyAfter(v, w, woken, Q) ==
    /\ w \in PtyPc /\ w[2] = v[2]
    /\ w = PtyUser <=> v = PtyUser
    /\ \A x \in PtyPlace : /\ w = PtyRunning(x) <=> v = PtyRunning(x)
                           /\ w = PtyAsleep(x) <=> v = PtyAsleep(x) /\ ~(woken /\ x \in Q)

\* Resuming.
LEMMA ResumedRight ==
    ASSUME NEW p \in [PtyTask -> PtyPc], NEW P \in SUBSET PtyTask, NEW Q \in SUBSET PtyPlace
    PROVE  /\ PtyResume(p, P, Q) \in [PtyTask -> PtyPc]
           /\ \A t \in PtyTask : PtyAfter(p[t], PtyResume(p, P, Q)[t], t \in P, Q)
<1>1. ASSUME NEW t \in PtyTask PROVE PtyAfter(p[t], PtyResume(p, P, Q)[t], t \in P, Q)
  <2>1. PtyResume(p, P, Q)[t] = IF t \in P /\ p[t] \in {PtyAsleep(q) : q \in Q}
                                THEN PtyWoken(p[t][2]) ELSE p[t]
    BY DEF PtyResume
  <2>2. CASE t \in P /\ p[t] \in {PtyAsleep(q) : q \in Q}
    <3>1. PICK q \in Q : p[t] = PtyAsleep(q)
      BY <2>2
    <3>2. PtyResume(p, P, Q)[t] = PtyWoken(q) /\ q \in PtyPlace
      BY <2>1, <2>2, <3>1, PcFacts
    <3>3. QED
      BY <2>2, <3>1, <3>2, PcFacts DEF PtyAfter
  <2>3. CASE ~(t \in P /\ p[t] \in {PtyAsleep(q) : q \in Q})
    <3>1. PtyResume(p, P, Q)[t] = p[t]
      BY <2>1, <2>3
    <3>2. QED
      BY <2>3, <3>1 DEF PtyAfter
  <2>4. QED
    BY <2>2, <2>3
<1>2. PtyResume(p, P, Q) = [t \in PtyTask |-> PtyResume(p, P, Q)[t]]
  BY DEF PtyResume
<1>3. \A t \in PtyTask : PtyResume(p, P, Q)[t] \in PtyPc
  BY <1>1 DEF PtyAfter
<1>4. QED
  BY <1>1, <1>2, <1>3

\* Nobody has a terminal that is not there.
LEMMA NobodyIn ==
    ASSUME PtyInv, ptm = {}, pts = {}
    PROVE  \A t \in PtyTask : pty_pc[t] = PtyUser
BY DEF PtyInv, PtyHolders

\* The constants.
LEMMA PtySizes ==
    ASSUME PtyAssumption
    PROVE  /\ InMax \in Nat /\ InMax > 0 /\ OutMax \in Nat /\ OutMax > 0
           /\ CanonMax \in Nat /\ CanonMax > 0 /\ MaxReq \in Nat /\ MaxReq > 0 /\ NoPtyTask \notin PtyTask
BY DEF PtyAssumption

\* A new terminal.
LEMMA OpenPtmxRight == ASSUME PtyAssumption, PtyInv, NEW t \in PtyTask, OpenPtmx(t) PROVE PtyInv'
<1>1. /\ alloc' = TRUE /\ locked' = TRUE /\ icanon' = TRUE /\ ptm' = {t} /\ canon_count' = 0
      /\ canon_eot' = FALSE /\ in_count' = 0 /\ out_count' = 0 /\ mstate' = {"W"}
      /\ UNCHANGED <<pts, sstate, pty_pc, pty_call, pty_sig, pty_cpu, fault, leaked>>
      /\ ~alloc /\ ~fault /\ pty_cpu = NoPtyTask
  BY DEF OpenPtmx, PtyIdle
<1>2. ptm = {} /\ pts = {}
  BY <1>1 DEF PtyInv, PtyLife
<1>3. \A u \in PtyTask : pty_pc[u] = PtyUser
  BY <1>2, NobodyIn
<1>4. PtyTypes'
  <2>1. {alloc', locked', icanon', canon_eot', fault', leaked'} \in SUBSET BOOLEAN
    BY <1>1 DEF PtyInv, PtyTypes
  <2>2. canon_count' \in 0..CanonMax /\ in_count' \in 0..InMax /\ out_count' \in 0..OutMax
    BY <1>1, PtySizes
  <2>3. ptm' \in SUBSET PtyTask /\ mstate' \in SUBSET {"R", "W"}
    BY <1>1 DEF PtyInv, PtyTypes
  <2>4. QED
    BY <1>1, <2>1, <2>2, <2>3 DEF PtyInv, PtyTypes
<1>5. PtyHolders' /\ PtyLife'
  BY <1>1, <1>3 DEF PtyInv, PtyHolders, PtyLife
<1>6. PtyRuns'
  BY <1>1 DEF PtyInv, PtyRuns
<1>7. PtySleepers'
  <2>1. \A p \in PtyPlace : PtyAsleep(p) # PtyUser
    BY PcFacts
  <2>2. \A u \in PtyTask, p \in PtyPlace : pty_pc'[u] # PtyAsleep(p)
    BY <1>1, <1>3, <2>1
  <2>3. QED
    BY <2>2 DEF PtySleepers, PtyPlace
<1>8. PtyTold'
  BY <1>1, <1>2 DEF PtyTold
<1>9. QED
  BY <1>4, <1>5, <1>6, <1>7, <1>8 DEF PtyInv

\* A terminal without an object.
LEMMA OpenPtmxFailsRight == ASSUME PtyAssumption, PtyInv, NEW t \in PtyTask, OpenPtmxFails(t) PROVE PtyInv'
<1>1. /\ alloc' = TRUE /\ locked' = FALSE /\ canon_count' = 0 /\ canon_eot' = FALSE /\ in_count' = 0
      /\ out_count' = 0 /\ leaked' = TRUE
      /\ UNCHANGED <<icanon, ptm, pts, mstate, sstate, pty_pc, pty_call, pty_sig, pty_cpu, fault>>
      /\ ~alloc
  BY DEF OpenPtmxFails
<1>2. ptm = {} /\ pts = {}
  BY <1>1 DEF PtyInv, PtyLife
<1>3. \A u \in PtyTask : pty_pc[u] = PtyUser
  BY <1>2, NobodyIn
<1>4. PtyTypes'
  <2>1. {alloc', locked', icanon', canon_eot', fault', leaked'} \in SUBSET BOOLEAN
    BY <1>1 DEF PtyInv, PtyTypes
  <2>2. canon_count' \in 0..CanonMax /\ in_count' \in 0..InMax /\ out_count' \in 0..OutMax
    BY <1>1, PtySizes
  <2>3. ptm' \in SUBSET PtyTask /\ mstate' \in SUBSET {"R", "W"}
    BY <1>1 DEF PtyInv, PtyTypes
  <2>4. QED
    BY <1>1, <2>1, <2>2, <2>3 DEF PtyInv, PtyTypes
<1>5. PtyHolders' /\ PtyLife'
  BY <1>1, <1>3 DEF PtyInv, PtyHolders, PtyLife
<1>6. PtyRuns'
  BY <1>1 DEF PtyInv, PtyRuns
<1>7. PtySleepers'
  <2>1. \A p \in PtyPlace : PtyAsleep(p) # PtyUser
    BY PcFacts
  <2>2. \A u \in PtyTask, p \in PtyPlace : pty_pc'[u] # PtyAsleep(p)
    BY <1>1, <1>3, <2>1
  <2>3. QED
    BY <2>2 DEF PtySleepers, PtyPlace
<1>8. PtyTold'
  BY <1>1, <1>2 DEF PtyTold
<1>9. QED
  BY <1>4, <1>5, <1>6, <1>7, <1>8 DEF PtyInv

\* Unlocking and the line discipline concern nobody else.
LEMMA SettingsRight ==
    ASSUME PtyInv, NEW t \in PtyTask, Unlock(t) \/ SetTio(t)
    PROVE  PtyInv'
<1>1. /\ UNCHANGED <<alloc, ptm, pts, canon_count, canon_eot, in_count, out_count, mstate, sstate,
                     pty_pc, pty_call, pty_sig, pty_cpu, fault, leaked>>
      /\ icanon' \in BOOLEAN /\ locked' \in BOOLEAN
  BY DEF Unlock, SetTio, Buffers, PtyInv, PtyTypes
<1>2. PtyTypes'
  BY <1>1 DEF PtyInv, PtyTypes
<1>3. PtyHolders' /\ PtyLife' /\ PtyRuns'
  BY <1>1 DEF PtyInv, PtyHolders, PtyLife, PtyRuns
<1>4. PtySleepers'
  BY <1>1 DEF PtyInv, PtySleepers, PtyBusy
<1>5. PtyTold'
  BY <1>1 DEF PtyInv, PtyTold, PtyBusy
<1>6. QED
  BY <1>2, <1>3, <1>4, <1>5 DEF PtyInv

\* The slave end.
LEMMA OpenPtsRight == ASSUME PtyAssumption, PtyInv, NEW t \in PtyTask, OpenPts(t) PROVE PtyInv'
<1>1. /\ UNCHANGED <<alloc, locked, icanon, ptm, canon_count, canon_eot, in_count, out_count, mstate,
                     pty_pc, pty_call, pty_sig, pty_cpu, leaked>>
      /\ pty_cpu = NoPtyTask /\ alloc /\ ~fault
  BY DEF OpenPts, PtyIdle, Buffers
<1>2. /\ pts' \in {pts, pts \cup {t}} /\ pts \in SUBSET pts'
      /\ fault' = fault \/ (fault' = TRUE /\ ptm = {} /\ pts = {})
      /\ (sstate' = sstate /\ (pts # {} \/ pts' = {})) \/ sstate' = OpenedState
  BY DEF OpenPts
<1>3. OpenedState \in SUBSET {"R", "W"} /\ (out_count < OutMax => "W" \in OpenedState)
      /\ (in_count > 0 => "R" \in OpenedState)
  BY DEF OpenedState
<1>4. PtyTypes'
  <2>1. /\ {alloc, locked, icanon, canon_eot, fault', leaked} \in SUBSET BOOLEAN
        /\ pts' \in SUBSET PtyTask /\ sstate' \in SUBSET {"R", "W"}
    BY <1>1, <1>2, <1>3 DEF PtyInv, PtyTypes
  <2>2. QED
    BY <1>1, <2>1 DEF PtyInv, PtyTypes
<1>5. PtyHolders'
  BY <1>1, <1>2 DEF PtyInv, PtyHolders
<1>6. PtyLife'
  BY <1>1, <1>2 DEF PtyInv, PtyLife
<1>7. PtyRuns'
  BY <1>1 DEF PtyInv, PtyRuns
<1>8. PtySleepers'
  BY <1>1 DEF PtyInv, PtySleepers, PtyBusy
<1>9. PtyTold'
  BY <1>1, <1>2, <1>3 DEF PtyInv, PtyTold, PtyBusy
<1>10. QED
  BY <1>4, <1>5, <1>6, <1>7, <1>8, <1>9 DEF PtyInv

\* A child has its parent's ends.
LEMMA PtyForkRight == ASSUME PtyInv, NEW t \in PtyTask, NEW u \in PtyTask, Fork(t, u) PROVE PtyInv'
<1>1. /\ UNCHANGED <<alloc, locked, icanon, canon_count, canon_eot, in_count, out_count, mstate, sstate,
                     pty_pc, pty_call, pty_sig, pty_cpu, fault, leaked>>
      /\ ptm' = (IF t \in ptm THEN ptm \cup {u} ELSE ptm)
      /\ pts' = (IF t \in pts THEN pts \cup {u} ELSE pts)
  BY DEF Fork, Buffers
<1>2. /\ ptm \in SUBSET ptm' /\ pts \in SUBSET pts' /\ (ptm' = {} <=> ptm = {}) /\ (pts' = {} <=> pts = {})
      /\ ptm' \in SUBSET PtyTask /\ pts' \in SUBSET PtyTask
  BY <1>1 DEF PtyInv, PtyTypes
<1>3. PtyTypes'
  BY <1>1, <1>2 DEF PtyInv, PtyTypes
<1>4. PtyHolders'
  BY <1>1, <1>2 DEF PtyInv, PtyHolders
<1>5. PtyLife' /\ PtyRuns'
  BY <1>1, <1>2 DEF PtyInv, PtyLife, PtyRuns
<1>6. PtySleepers'
  BY <1>1, <1>2 DEF PtyInv, PtySleepers, PtyBusy
<1>7. PtyTold'
  BY <1>1, <1>2 DEF PtyInv, PtyTold, PtyBusy
<1>8. QED
  BY <1>3, <1>4, <1>5, <1>6, <1>7 DEF PtyInv

\* Those of P that slept in Q are resumed, and nobody else moves.
PtyWakes(P, Q) ==
    /\ pty_pc' \in [PtyTask -> PtyPc]
    /\ \A u \in PtyTask : PtyAfter(pty_pc[u], pty_pc'[u], u \in P, Q)

\* One call of resume does that.
LEMMA ResumeWakes ==
    ASSUME PtyInv, NEW P \in SUBSET PtyTask, NEW Q \in SUBSET PtyPlace,
           pty_pc' = PtyResume(pty_pc, P, Q)
    PROVE  PtyWakes(P, Q)
<1>1. pty_pc \in [PtyTask -> PtyPc]
  BY DEF PtyInv, PtyTypes
<1>2. QED
  BY <1>1, ResumedRight DEF PtyWakes

\* So does no call at all, of nobody.
LEMMA StayWakes ==
    ASSUME PtyInv, pty_pc' = pty_pc
    PROVE  PtyWakes({}, {})
<1>1. pty_pc \in [PtyTask -> PtyPc]
  BY DEF PtyInv, PtyTypes
<1>2. QED
  BY <1>1 DEF PtyWakes, PtyAfter

\* What that means of each task.
LEMMA WakesMeans ==
    ASSUME NEW P, NEW Q, PtyWakes(P, Q)
    PROVE  \A u \in PtyTask :
               /\ pty_pc'[u] \in PtyPc /\ pty_pc'[u][2] = pty_pc[u][2]
               /\ pty_pc'[u] = PtyUser <=> pty_pc[u] = PtyUser
               /\ \A x \in PtyPlace : pty_pc'[u] = PtyRunning(x) <=> pty_pc[u] = PtyRunning(x)
               /\ \A x \in PtyPlace : pty_pc'[u] = PtyAsleep(x)
                                          <=> pty_pc[u] = PtyAsleep(x) /\ ~(u \in P /\ x \in Q)
BY DEF PtyWakes, PtyAfter

\* Waking leaves the processor alone.
LEMMA WakesRuns ==
    ASSUME PtyInv, NEW P, NEW Q, PtyWakes(P, Q), pty_cpu' = pty_cpu
    PROVE  PtyRuns' /\ \A p \in PtyPlace : PtyBusy(p)' <=> PtyBusy(p)
<1>1. \A u \in PtyTask, x \in PtyPlace : pty_pc'[u] = PtyRunning(x) <=> pty_pc[u] = PtyRunning(x)
  BY WakesMeans
<1>2. pty_cpu \in PtyTask \cup {NoPtyTask}
  BY DEF PtyInv, PtyTypes
<1>3. QED
  BY <1>1, <1>2 DEF PtyInv, PtyRuns, PtyBusy

\* Nobody is in the middle of a call while the processor is free.
LEMMA FreeIsQuiet == ASSUME pty_cpu = NoPtyTask PROVE ~PtyBusy("mw") /\ ~PtyBusy("sw")
BY DEF PtyBusy

\* The master end is closed: the last time, whoever waits at the slave end is told.
LEMMA ClosePtmRight == ASSUME PtyInv, NEW t \in PtyTask, ClosePtm(t) PROVE PtyInv'
<1>1. /\ UNCHANGED <<locked, icanon, pts, canon_count, canon_eot, in_count, out_count, mstate,
                     pty_call, pty_sig, pty_cpu, fault, leaked>>
      /\ pty_cpu = NoPtyTask /\ pty_pc[t] = PtyUser /\ t \in ptm /\ ptm' = ptm \ {t}
  BY DEF ClosePtm, PtyIdle, Buffers
<1>2. \/ ptm # {t} /\ UNCHANGED <<alloc, sstate, pty_pc>>
      \/ ptm = {t} /\ pts # {} /\ HungUp /\ alloc' = alloc
      \/ ptm = {t} /\ pts = {} /\ alloc' = FALSE /\ UNCHANGED <<sstate, pty_pc>>
  BY DEF ClosePtm
<1>3. \E P, Q : PtyWakes(P, Q)
  <2>1. {"sr", "sw"} \in SUBSET PtyPlace
    BY DEF PtyPlace
  <2>2. CASE HungUp
    <3>1. pty_pc' = PtyResume(pty_pc, PtyTask, {"sr", "sw"})
      BY <2>2 DEF HungUp
    <3>2. QED
      BY <2>1, <3>1, ResumeWakes
  <2>3. CASE pty_pc' = pty_pc
    BY <2>3, StayWakes
  <2>4. QED
    BY <1>2, <2>2, <2>3
<1>4. PICK P, Q : PtyWakes(P, Q)
  BY <1>3
<1>5. /\ pty_pc' \in [PtyTask -> PtyPc]
      /\ \A u \in PtyTask : pty_pc'[u][2] = pty_pc[u][2] /\ (pty_pc'[u] = PtyUser <=> pty_pc[u] = PtyUser)
      /\ \A u \in PtyTask, x \in PtyPlace : pty_pc'[u] = PtyAsleep(x) => pty_pc[u] = PtyAsleep(x)
  <2>1. pty_pc' \in [PtyTask -> PtyPc]
    BY <1>4 DEF PtyWakes
  <2>2. QED
    BY <1>4, <2>1, WakesMeans
<1>6. sstate' \in {sstate, sstate \cup {"R", "W"}}
  BY <1>2 DEF HungUp
<1>7. PtyTypes'
  <2>1. ptm' \in SUBSET PtyTask /\ sstate' \in SUBSET {"R", "W"}
        /\ {alloc', locked, icanon, canon_eot, fault, leaked} \in SUBSET BOOLEAN
    BY <1>1, <1>2, <1>6 DEF PtyInv, PtyTypes
  <2>2. QED
    BY <1>1, <1>5, <2>1 DEF PtyInv, PtyTypes
<1>8. PtyHolders'
  BY <1>1, <1>5 DEF PtyInv, PtyHolders
<1>9. PtyLife'
  BY <1>1, <1>2 DEF PtyInv, PtyLife
<1>10. PtyRuns'
  BY <1>1, <1>4, WakesRuns
<1>11. ~PtyBusy("mw") /\ ~PtyBusy("sw")
  BY <1>1, FreeIsQuiet
<1>12. ASSUME NEW u \in PtyTask, NEW x \in {"sr", "sw"}, pty_pc'[u] = PtyAsleep(x)
       PROVE  ptm' # {}
  <2>1. pty_pc[u] = PtyAsleep(x) /\ x \in PtyPlace
    BY <1>5, <1>12 DEF PtyPlace
  <2>2. u \in pts
    <3>1. pty_pc[u] # PtyUser /\ pty_pc[u][2] = x
      BY <2>1, PcFacts
    <3>2. QED
      BY <3>1 DEF PtyInv, PtyHolders
  <2>3. CASE HungUp
    <3>1. pty_pc' = PtyResume(pty_pc, PtyTask, {"sr", "sw"})
      BY <2>3 DEF HungUp
    <3>2. {"sr", "sw"} \in SUBSET PtyPlace
      BY DEF PtyPlace
    <3>3. PtyWakes(PtyTask, {"sr", "sw"})
      BY <3>1, <3>2, ResumeWakes
    <3>4. QED
      BY <1>12, <2>1, <3>3, WakesMeans
  <2>4. CASE ptm # {t}
    BY <1>1, <2>4
  <2>5. QED
    BY <1>2, <2>2, <2>3, <2>4
<1>13. PtySleepers'
  BY <1>1, <1>5, <1>11, <1>12 DEF PtyInv, PtySleepers, PtyPlace
<1>14. PtyTold'
  BY <1>1, <1>2, <1>6, <1>11 DEF PtyInv, PtyTold
<1>15. QED
  BY <1>7, <1>8, <1>9, <1>10, <1>13, <1>14 DEF PtyInv

\* The slave end is closed.
LEMMA ClosePtsRight == ASSUME PtyInv, NEW t \in PtyTask, ClosePts(t) PROVE PtyInv'
<1>1. /\ UNCHANGED <<locked, icanon, ptm, canon_count, canon_eot, in_count, out_count, sstate,
                     pty_call, pty_sig, pty_cpu, fault, leaked>>
      /\ pty_cpu = NoPtyTask /\ pty_pc[t] = PtyUser /\ t \in pts /\ pts' = pts \ {t}
  BY DEF ClosePts, PtyIdle, Buffers
<1>2. \/ pts # {t} /\ UNCHANGED <<alloc, mstate, pty_pc>>
      \/ /\ pts = {t} /\ ptm # {} /\ alloc' = alloc /\ mstate' = mstate \cup {"R"}
         /\ pty_pc' = PtyResume(pty_pc, PtyTask, {"mr"})
      \/ pts = {t} /\ ptm = {} /\ alloc' = FALSE /\ UNCHANGED <<mstate, pty_pc>>
  BY DEF ClosePts
<1>3. \E P, Q : PtyWakes(P, Q)
  <2>1. {"mr"} \in SUBSET PtyPlace
    BY DEF PtyPlace
  <2>2. QED
    BY <1>2, <2>1, ResumeWakes, StayWakes
<1>4. PICK P, Q : PtyWakes(P, Q)
  BY <1>3
<1>5. /\ pty_pc' \in [PtyTask -> PtyPc]
      /\ \A u \in PtyTask : pty_pc'[u][2] = pty_pc[u][2] /\ (pty_pc'[u] = PtyUser <=> pty_pc[u] = PtyUser)
      /\ \A u \in PtyTask, x \in PtyPlace : pty_pc'[u] = PtyAsleep(x) => pty_pc[u] = PtyAsleep(x)
  <2>1. pty_pc' \in [PtyTask -> PtyPc]
    BY <1>4 DEF PtyWakes
  <2>2. QED
    BY <1>4, <2>1, WakesMeans
<1>6. mstate' \in {mstate, mstate \cup {"R"}}
  BY <1>2
<1>7. PtyTypes'
  <2>1. pts' \in SUBSET PtyTask /\ mstate' \in SUBSET {"R", "W"}
        /\ {alloc', locked, icanon, canon_eot, fault, leaked} \in SUBSET BOOLEAN
    BY <1>1, <1>2, <1>6 DEF PtyInv, PtyTypes
  <2>2. QED
    BY <1>1, <1>5, <2>1 DEF PtyInv, PtyTypes
<1>8. PtyHolders'
  BY <1>1, <1>5 DEF PtyInv, PtyHolders
<1>9. PtyLife'
  BY <1>1, <1>2 DEF PtyInv, PtyLife
<1>10. PtyRuns'
  BY <1>1, <1>4, WakesRuns
<1>11. ~PtyBusy("mw") /\ ~PtyBusy("sw")
  BY <1>1, FreeIsQuiet
<1>12. PtySleepers'
  BY <1>1, <1>5, <1>11 DEF PtyInv, PtySleepers, PtyPlace
<1>13. PtyTold'
  BY <1>1, <1>2, <1>6, <1>11 DEF PtyInv, PtyTold
<1>14. QED
  BY <1>7, <1>8, <1>9, <1>10, <1>12, <1>13 DEF PtyInv

\* A signal wakes whom it is sent to.
LEMMA PtySignalRight ==
    ASSUME PtyInv, NEW P \in SUBSET PtyTask, PtySignalled(P),
           UNCHANGED <<Ends, Buffers, mstate, sstate, pty_call, pty_cpu, fault, leaked>>
    PROVE  PtyInv'
<1>1. /\ UNCHANGED <<alloc, locked, icanon, ptm, pts, canon_count, canon_eot, in_count, out_count, mstate,
                     sstate, pty_call, pty_cpu, fault, leaked>>
      /\ pty_sig' = pty_sig \cup P
      /\ pty_pc' = PtyResume(pty_pc, P, PtyPlace)
  BY DEF PtySignalled, Ends, Buffers
<1>2. PtyWakes(P, PtyPlace)
  BY <1>1, ResumeWakes
<1>3. /\ pty_pc' \in [PtyTask -> PtyPc]
      /\ \A u \in PtyTask : pty_pc'[u][2] = pty_pc[u][2] /\ (pty_pc'[u] = PtyUser <=> pty_pc[u] = PtyUser)
      /\ \A u \in PtyTask, x \in PtyPlace : pty_pc'[u] = PtyAsleep(x) => pty_pc[u] = PtyAsleep(x) /\ u \notin P
  <2>1. pty_pc' \in [PtyTask -> PtyPc]
    BY <1>2 DEF PtyWakes
  <2>2. QED
    BY <1>2, <2>1, WakesMeans
<1>4. PtyTypes'
  <2>1. pty_sig' \in SUBSET PtyTask
    BY <1>1 DEF PtyInv, PtyTypes
  <2>2. QED
    BY <1>1, <1>3, <2>1 DEF PtyInv, PtyTypes
<1>5. PtyHolders' /\ PtyLife'
  BY <1>1, <1>3 DEF PtyInv, PtyHolders, PtyLife
<1>6. PtyRuns' /\ \A p \in PtyPlace : PtyBusy(p)' <=> PtyBusy(p)
  BY <1>1, <1>2, WakesRuns
<1>7. PtySleepers'
  BY <1>1, <1>3, <1>6 DEF PtyInv, PtySleepers, PtyPlace
<1>8. PtyTold'
  BY <1>1, <1>6 DEF PtyInv, PtyTold, PtyPlace
<1>9. QED
  BY <1>4, <1>5, <1>6, <1>7, <1>8 DEF PtyInv

\* The processor is given to a task that enters a call or was woken in one.
LEMMA PtyGoesRight ==
    ASSUME PtyAssumption, PtyInv, NEW t \in PtyTask, NEW p \in PtyPlace, pty_cpu = NoPtyTask, pty_cpu' = t,
           pty_pc' = [pty_pc EXCEPT ![t] = PtyRunning(p)],
           IF p \in {"mr", "mw"} THEN t \in ptm ELSE t \in pts,
           pty_call' \in [PtyTask -> [left : 0..MaxReq, nodelay : BOOLEAN]],
           UNCHANGED <<Ends, Buffers, mstate, sstate, pty_sig, fault, leaked>>
    PROVE  PtyInv'
<1>1. UNCHANGED <<alloc, locked, icanon, ptm, pts, canon_count, canon_eot, in_count, out_count, mstate,
                  sstate, pty_sig, fault, leaked>>
  BY DEF Ends, Buffers
<1>2. /\ pty_pc \in [PtyTask -> PtyPc] /\ PtyRunning(p) \in PtyPc /\ PtyRunning(p)[2] = p
      /\ \A x \in PtyPlace : PtyAsleep(x) # PtyRunning(p)
      /\ \A x \in PtyPlace : PtyRunning(p) = PtyRunning(x) => p = x
  BY PcFacts DEF PtyInv, PtyTypes
<1>3. /\ pty_pc' \in [PtyTask -> PtyPc] /\ pty_pc'[t] = PtyRunning(p)
      /\ \A u \in PtyTask : u # t => pty_pc'[u] = pty_pc[u]
  BY <1>2
<1>4. PtyTypes'
  BY <1>1, <1>3 DEF PtyInv, PtyTypes
<1>5. PtyHolders'
  BY <1>1, <1>2, <1>3 DEF PtyInv, PtyHolders
<1>6. PtyLife'
  BY <1>1 DEF PtyInv, PtyLife
<1>7. PtyRuns'
  <2>1. \A u \in PtyTask, x \in PtyPlace : pty_pc[u] = PtyRunning(x) => pty_cpu = u
    BY DEF PtyInv, PtyRuns
  <2>2. pty_cpu \notin PtyTask
    BY PtySizes
  <2>3. \A u \in PtyTask, x \in PtyPlace : pty_pc'[u] = PtyRunning(x) => pty_cpu' = u
    BY <1>3, <2>1, <2>2
  <2>4. QED
    BY <1>3, <2>3 DEF PtyRuns
<1>8. ~PtyBusy("mw") /\ ~PtyBusy("sw")
  BY FreeIsQuiet
<1>9. \A u \in PtyTask, x \in PtyPlace : pty_pc'[u] = PtyAsleep(x) => pty_pc[u] = PtyAsleep(x)
  BY <1>2, <1>3
<1>10. PtySleepers'
  BY <1>1, <1>8, <1>9 DEF PtyInv, PtySleepers, PtyPlace
<1>11. PtyTold'
  BY <1>1, <1>8 DEF PtyInv, PtyTold
<1>12. QED
  BY <1>4, <1>5, <1>6, <1>7, <1>10, <1>11 DEF PtyInv

\* From p to q tasks are only woken, among them all that slept in Q.
PtyStirred(p, q, Q) ==
    /\ q \in [PtyTask -> PtyPc]
    /\ \A u \in PtyTask :
           /\ q[u][2] = p[u][2]
           /\ q[u] = PtyUser <=> p[u] = PtyUser
           /\ \A x \in PtyPlace : q[u] = PtyRunning(x) <=> p[u] = PtyRunning(x)
           /\ \A x \in PtyPlace : q[u] = PtyAsleep(x) => p[u] = PtyAsleep(x) /\ x \notin Q

\* Nobody is woken.
LEMMA StirredNot == ASSUME NEW p \in [PtyTask -> PtyPc] PROVE PtyStirred(p, p, {})
BY DEF PtyStirred

\* Queue after queue is woken.
LEMMA StirredAll ==
    ASSUME NEW p, NEW q, NEW Q \in SUBSET PtyPlace, NEW R \in SUBSET PtyPlace, PtyStirred(p, q, Q)
    PROVE  PtyStirred(p, PtyResume(q, PtyTask, R), Q \cup R)
<1>1. q \in [PtyTask -> PtyPc]
  BY DEF PtyStirred
<1>2. /\ PtyResume(q, PtyTask, R) \in [PtyTask -> PtyPc]
      /\ \A t \in PtyTask : PtyAfter(q[t], PtyResume(q, PtyTask, R)[t], t \in PtyTask, R)
  BY <1>1, ResumedRight
<1>3. QED
  BY <1>2 DEF PtyStirred, PtyAfter

\* Whom a signal is sent to sleeps nowhere after it.
LEMMA StirredSome ==
    ASSUME NEW p, NEW q, NEW Q \in SUBSET PtyPlace, NEW P \in SUBSET PtyTask, PtyStirred(p, q, Q)
    PROVE  PtyStirred(p, PtyResume(q, P, PtyPlace), Q)
           /\ \A u \in P, x \in PtyPlace : PtyResume(q, P, PtyPlace)[u] # PtyAsleep(x)
<1>1. q \in [PtyTask -> PtyPc]
  BY DEF PtyStirred
<1>2. /\ PtyResume(q, P, PtyPlace) \in [PtyTask -> PtyPc]
      /\ \A t \in PtyTask : PtyAfter(q[t], PtyResume(q, P, PtyPlace)[t], t \in P, PtyPlace)
  BY <1>1, ResumedRight
<1>3. QED
  BY <1>2 DEF PtyStirred, PtyAfter

\* One call of resume for everybody.
LEMMA StirredOnce ==
    ASSUME PtyInv, NEW R \in SUBSET PtyPlace
    PROVE  PtyStirred(pty_pc, PtyResume(pty_pc, PtyTask, R), R)
<1>1. pty_pc \in [PtyTask -> PtyPc]
  BY DEF PtyInv, PtyTypes
<1>2. PtyStirred(pty_pc, pty_pc, {})
  BY <1>1, StirredNot
<1>3. PtyStirred(pty_pc, PtyResume(pty_pc, PtyTask, R), {} \cup R)
  BY <1>2, StirredAll
<1>4. {} \cup R = R
  OBVIOUS
<1>5. QED
  BY <1>3, <1>4

\* A task that runs has the processor.
LEMMA RunsIt ==
    ASSUME PtyAssumption, PtyInv, NEW t \in PtyTask, NEW p \in PtyPlace, pty_pc[t] = PtyRunning(p)
    PROVE  /\ pty_cpu = t /\ t # NoPtyTask
           /\ \A x \in PtyPlace : PtyBusy(x) <=> x = p
           /\ \A u \in PtyTask, x \in PtyPlace : pty_pc[u] = PtyRunning(x) => u = t
           /\ IF p \in {"mr", "mw"} THEN t \in ptm ELSE t \in pts
<1>1. pty_cpu = t /\ t # NoPtyTask
  BY PtySizes DEF PtyInv, PtyRuns
<1>2. \A x \in PtyPlace : PtyBusy(x) <=> x = p
  BY <1>1, PcFacts DEF PtyBusy
<1>3. \A u \in PtyTask, x \in PtyPlace : pty_pc[u] = PtyRunning(x) => u = t
  BY <1>1 DEF PtyInv, PtyRuns
<1>4. pty_pc[t] # PtyUser /\ pty_pc[t][2] = p
  BY PcFacts
<1>5. QED
  BY <1>1, <1>2, <1>3, <1>4 DEF PtyInv, PtyHolders

\* A call ends, or its task goes to sleep where it belongs.
LEMMA CallEnds ==
    ASSUME PtyAssumption, PtyInv, NEW t \in PtyTask, NEW p \in PtyPlace, pty_pc[t] = PtyRunning(p),
           NEW r, NEW Q \in SUBSET PtyPlace, PtyStirred(pty_pc, r, Q),
           PtyLeave(t, r) \/ (PtySleep(t, p, r) /\ t \notin pty_sig),
           UNCHANGED <<Ends, fault, leaked>>
    PROVE  /\ PtyHolders' /\ PtyLife' /\ PtyRuns' /\ pty_cpu' = NoPtyTask
           /\ pty_pc' \in [PtyTask -> PtyPc] /\ pty_sig' \in SUBSET PtyTask
           /\ pty_call' \in [PtyTask -> [left : 0..MaxReq, nodelay : BOOLEAN]]
           /\ \A u \in PtyTask, x \in PtyPlace : pty_pc'[u] = PtyAsleep(x) =>
                  /\ u \notin pty_sig'
                  /\ (pty_pc[u] = PtyAsleep(x) /\ x \notin Q) \/ (x = p /\ ~PtyLeave(t, r))
<1>1. UNCHANGED <<alloc, locked, icanon, ptm, pts, fault, leaked>>
  BY DEF Ends
<1>2. /\ r \in [PtyTask -> PtyPc]
      /\ \A u \in PtyTask : r[u][2] = pty_pc[u][2] /\ (r[u] = PtyUser <=> pty_pc[u] = PtyUser)
      /\ \A u \in PtyTask, x \in PtyPlace :
             /\ r[u] = PtyRunning(x) <=> pty_pc[u] = PtyRunning(x)
             /\ r[u] = PtyAsleep(x) => pty_pc[u] = PtyAsleep(x) /\ x \notin Q
  BY DEF PtyStirred
<1>3. PICK v \in {PtyUser, PtyAsleep(p)} :
          /\ pty_pc' = [r EXCEPT ![t] = v] /\ pty_cpu' = NoPtyTask
          /\ pty_sig' \in {pty_sig, pty_sig \ {t}}
          /\ v # PtyUser => pty_sig' = pty_sig /\ t \notin pty_sig
          /\ pty_call' \in {pty_call, [pty_call EXCEPT ![t] = [left |-> 0, nodelay |-> FALSE]]}
          /\ v = PtyUser <=> PtyLeave(t, r)
  <2>1. PtyAsleep(p) # PtyUser
    BY PcFacts
  <2>2. CASE PtyLeave(t, r)
    BY <2>1, <2>2 DEF PtyLeave
  <2>3. CASE ~PtyLeave(t, r)
    BY <2>1, <2>3 DEF PtySleep
  <2>4. QED
    BY <2>2, <2>3
<1>4. v \in PtyPc /\ (v # PtyUser => v[2] = p) /\ (\A x \in PtyPlace : v # PtyRunning(x))
      /\ (\A x \in PtyPlace : v = PtyAsleep(x) => x = p /\ v # PtyUser)
  BY PcFacts
<1>5. /\ pty_pc' \in [PtyTask -> PtyPc] /\ pty_pc'[t] = v
      /\ \A u \in PtyTask : u # t => pty_pc'[u] = r[u]
  BY <1>2, <1>3, <1>4
<1>6. /\ pty_cpu = t
      /\ \A u \in PtyTask, x \in PtyPlace : pty_pc[u] = PtyRunning(x) => u = t
      /\ IF p \in {"mr", "mw"} THEN t \in ptm ELSE t \in pts
  BY RunsIt
<1>7. PtyHolders'
  BY <1>1, <1>2, <1>4, <1>5, <1>6 DEF PtyInv, PtyHolders
<1>8. PtyLife'
  BY <1>1 DEF PtyInv, PtyLife
<1>9. PtyRuns'
  <2>1. \A u \in PtyTask, x \in PtyPlace : pty_pc'[u] # PtyRunning(x)
    BY <1>2, <1>4, <1>5, <1>6
  <2>2. QED
    BY <1>3, <2>1 DEF PtyRuns
<1>10. /\ pty_sig' \in SUBSET PtyTask
       /\ pty_call' \in [PtyTask -> [left : 0..MaxReq, nodelay : BOOLEAN]]
  <2>1. 0 \in 0..MaxReq
    BY PtySizes
  <2>2. pty_sig \in SUBSET PtyTask /\ pty_call \in [PtyTask -> [left : 0..MaxReq, nodelay : BOOLEAN]]
    BY DEF PtyInv, PtyTypes
  <2>3. pty_sig' \in SUBSET PtyTask
    BY <1>3, <2>2
  <2>4. [left |-> 0, nodelay |-> FALSE] \in [left : 0..MaxReq, nodelay : BOOLEAN]
    BY <2>1
  <2>5. [pty_call EXCEPT ![t] = [left |-> 0, nodelay |-> FALSE]]
            \in [PtyTask -> [left : 0..MaxReq, nodelay : BOOLEAN]]
    BY <2>2, <2>4
  <2>6. QED
    BY <1>3, <2>2, <2>3, <2>5
<1>11. ASSUME NEW u \in PtyTask, NEW x \in PtyPlace, pty_pc'[u] = PtyAsleep(x)
       PROVE  /\ u \notin pty_sig'
              /\ (pty_pc[u] = PtyAsleep(x) /\ x \notin Q) \/ (x = p /\ ~PtyLeave(t, r))
  <2>1. CASE u = t
    BY <1>3, <1>4, <1>5, <1>11, <2>1
  <2>2. CASE u # t
    <3>1. pty_pc[u] = PtyAsleep(x) /\ x \notin Q
      BY <1>2, <1>5, <1>11, <2>2
    <3>2. u \notin pty_sig
      BY <3>1 DEF PtyInv, PtySleepers
    <3>3. QED
      BY <1>3, <3>1, <3>2
  <2>3. QED
    BY <2>1, <2>2
<1>12. QED
  BY <1>3, <1>5, <1>7, <1>8, <1>9, <1>10, <1>11

\* A call goes on.
LEMMA CallGoes ==
    ASSUME PtyAssumption, PtyInv, NEW t \in PtyTask, NEW p \in PtyPlace, pty_pc[t] = PtyRunning(p),
           NEW Q \in SUBSET PtyPlace, PtyStirred(pty_pc, pty_pc', Q), pty_cpu' = pty_cpu,
           UNCHANGED <<Ends, fault, leaked>>
    PROVE  /\ PtyHolders' /\ PtyLife' /\ PtyRuns'
           /\ \A x \in PtyPlace : PtyBusy(x)' <=> x = p
           /\ pty_pc' \in [PtyTask -> PtyPc]
           /\ \A u \in PtyTask, x \in PtyPlace : pty_pc'[u] = PtyAsleep(x) =>
                  pty_pc[u] = PtyAsleep(x) /\ x \notin Q
<1>1. UNCHANGED <<alloc, locked, icanon, ptm, pts, fault, leaked>>
  BY DEF Ends
<1>2. /\ pty_pc' \in [PtyTask -> PtyPc]
      /\ \A u \in PtyTask : pty_pc'[u][2] = pty_pc[u][2] /\ (pty_pc'[u] = PtyUser <=> pty_pc[u] = PtyUser)
      /\ \A u \in PtyTask, x \in PtyPlace :
             /\ pty_pc'[u] = PtyRunning(x) <=> pty_pc[u] = PtyRunning(x)
             /\ pty_pc'[u] = PtyAsleep(x) => pty_pc[u] = PtyAsleep(x) /\ x \notin Q
  BY DEF PtyStirred
<1>3. /\ pty_cpu = t /\ t # NoPtyTask
      /\ \A x \in PtyPlace : PtyBusy(x) <=> x = p
  BY RunsIt
<1>4. PtyHolders' /\ PtyLife'
  BY <1>1, <1>2 DEF PtyInv, PtyHolders, PtyLife
<1>5. PtyRuns'
  BY <1>2, <1>3 DEF PtyInv, PtyRuns
<1>6. \A x \in PtyPlace : PtyBusy(x)' <=> x = p
  BY <1>2, <1>3 DEF PtyBusy
<1>7. QED
  BY <1>2, <1>4, <1>5, <1>6

\* Reading takes no more than there is.
LEMMA TakenRight ==
    ASSUME NEW n \in Nat, NEW k \in Nat, NEW c \in 0..n
    PROVE  /\ (IF k > c THEN 0 ELSE c - k) \in 0..n
           /\ (IF k > c THEN 0 ELSE c - k) <= c
OBVIOUS

\* ptm_read
LEMMA PtmReadRight == ASSUME PtyAssumption, PtyInv, NEW t \in PtyTask, PtmRead(t) PROVE PtyInv'
<1>1. /\ pty_pc[t] = PtyRunning("mr") /\ "mr" \in PtyPlace /\ "sw" \in PtyPlace
      /\ UNCHANGED <<Ends, fault, leaked>>
      /\ UNCHANGED <<alloc, locked, icanon, ptm, pts, canon_count, canon_eot, in_count, fault, leaked>>
  BY DEF PtmRead, Ends, PtyPlace
<1>2. /\ OutMax \in Nat /\ OutMax > 0 /\ out_count \in 0..OutMax /\ out_count \in Nat
      /\ pty_pc \in [PtyTask -> PtyPc] /\ pty_call[t].left \in Nat
      /\ mstate \in SUBSET {"R", "W"} /\ sstate \in SUBSET {"R", "W"}
  BY PtySizes DEF PtyInv, PtyTypes
<1>3. ~PtyBusy("mw") /\ ~PtyBusy("sw") /\ t \in ptm
  BY <1>1, RunsIt DEF PtyPlace
<1>4. CASE out_count = 0
  <2>1. /\ UNCHANGED <<out_count, mstate, sstate>>
        /\ PtyLeave(t, pty_pc) \/ (PtySleep(t, "mr", pty_pc) /\ t \notin pty_sig)
    BY <1>2, <1>4 DEF PtmRead
  <2>2. PtyStirred(pty_pc, pty_pc, {})
    BY <1>2, StirredNot
  <2>3. /\ PtyHolders' /\ PtyLife' /\ PtyRuns' /\ pty_cpu' = NoPtyTask
        /\ pty_pc' \in [PtyTask -> PtyPc] /\ pty_sig' \in SUBSET PtyTask
        /\ pty_call' \in [PtyTask -> [left : 0..MaxReq, nodelay : BOOLEAN]]
        /\ \A u \in PtyTask, x \in PtyPlace : pty_pc'[u] = PtyAsleep(x) =>
               /\ u \notin pty_sig'
               /\ (pty_pc[u] = PtyAsleep(x) /\ x \notin {}) \/ (x = "mr" /\ ~PtyLeave(t, pty_pc))
    BY <1>1, <2>1, <2>2, CallEnds
  <2>4. PtyTypes'
    BY <1>1, <2>1, <2>3 DEF PtyInv, PtyTypes
  <2>5. PtySleepers'
    BY <1>1, <1>3, <1>4, <2>1, <2>3 DEF PtyInv, PtySleepers, PtyPlace
  <2>6. PtyTold'
    BY <1>1, <1>3, <2>1 DEF PtyInv, PtyTold
  <2>7. QED
    BY <2>3, <2>4, <2>5, <2>6 DEF PtyInv
<1>5. CASE out_count > 0
  <2>1. /\ out_count' = IF pty_call[t].left > out_count THEN 0 ELSE out_count - pty_call[t].left
        /\ mstate' = IF out_count' = 0 THEN mstate \ {"R"} ELSE mstate
        /\ sstate' = IF pts # {} THEN sstate \cup {"W"} ELSE sstate
        /\ PtyLeave(t, PtyResume(pty_pc, PtyTask, {"sw"}))
    BY <1>2, <1>5 DEF PtmRead
  <2>2. PtyStirred(pty_pc, PtyResume(pty_pc, PtyTask, {"sw"}), {"sw"})
    BY <1>1, StirredOnce
  <2>3. /\ PtyHolders' /\ PtyLife' /\ PtyRuns' /\ pty_cpu' = NoPtyTask
        /\ pty_pc' \in [PtyTask -> PtyPc] /\ pty_sig' \in SUBSET PtyTask
        /\ pty_call' \in [PtyTask -> [left : 0..MaxReq, nodelay : BOOLEAN]]
        /\ \A u \in PtyTask, x \in PtyPlace : pty_pc'[u] = PtyAsleep(x) =>
               /\ u \notin pty_sig'
               /\ (pty_pc[u] = PtyAsleep(x) /\ x \notin {"sw"})
                  \/ (x = "mr" /\ ~PtyLeave(t, PtyResume(pty_pc, PtyTask, {"sw"})))
    BY <1>1, <2>1, <2>2, CallEnds
  <2>4. \A u \in PtyTask, x \in PtyPlace : pty_pc'[u] = PtyAsleep(x) =>
            u \notin pty_sig' /\ pty_pc[u] = PtyAsleep(x) /\ x # "sw"
    BY <2>1, <2>3
  <2>5. out_count' \in 0..OutMax /\ out_count' <= out_count
    BY <1>2, <2>1, TakenRight
  <2>6. mstate' \in SUBSET {"R", "W"} /\ sstate' \in SUBSET {"R", "W"}
    BY <1>2, <2>1
  <2>7. PtyTypes'
    BY <1>1, <2>3, <2>5, <2>6 DEF PtyInv, PtyTypes
  <2>8. PtySleepers'
    <3>1. \A u \in PtyTask : pty_pc'[u] # PtyAsleep("mr") /\ pty_pc'[u] # PtyAsleep("sw")
      BY <1>1, <1>3, <1>5, <2>4 DEF PtyInv, PtySleepers
    <3>2. QED
      BY <1>1, <1>3, <2>4, <3>1 DEF PtyInv, PtySleepers, PtyPlace
  <2>9. PtyTold'
    <3>1. "R" \in mstate /\ (in_count < InMax => "W" \in mstate)
      BY <1>3, <1>5 DEF PtyInv, PtyTold
    <3>2. /\ out_count' > 0 => "R" \in mstate'
          /\ in_count < InMax => "W" \in mstate'
          /\ pts # {} => "W" \in sstate'
          /\ pts # {} /\ in_count > 0 => "R" \in sstate'
      BY <1>3, <2>1, <2>5, <3>1 DEF PtyInv, PtyTold
    <3>3. QED
      BY <1>1, <3>2 DEF PtyTold
  <2>10. QED
    BY <2>3, <2>7, <2>8, <2>9 DEF PtyInv
<1>6. QED
  BY <1>2, <1>4, <1>5

\* What is common to the ways pts_read ends with something, or with an end of file.
LEMMA ReadOutRight ==
    ASSUME PtyAssumption, PtyInv, NEW t \in PtyTask, pty_pc[t] = PtyRunning("sr"), ReadOut(t),
           UNCHANGED <<Ends, canon_count, out_count, fault, leaked>>,
           canon_eot' \in BOOLEAN, canon_eot' => canon_eot /\ in_count > 0
    PROVE  PtyInv'
<1>1. /\ "mr" \in PtyPlace /\ "sr" \in PtyPlace /\ "mw" \in PtyPlace
      /\ UNCHANGED <<Ends, fault, leaked>>
      /\ UNCHANGED <<alloc, locked, icanon, ptm, pts, canon_count, out_count, fault, leaked>>
  BY DEF Ends, PtyPlace
<1>2. /\ InMax \in Nat /\ InMax > 0 /\ in_count \in 0..InMax /\ in_count \in Nat
      /\ pty_call[t].left \in Nat
      /\ mstate \in SUBSET {"R", "W"} /\ sstate \in SUBSET {"R", "W"}
  BY PtySizes DEF PtyInv, PtyTypes
<1>3. ~PtyBusy("mw") /\ ~PtyBusy("sw") /\ t \in pts
  BY <1>1, RunsIt DEF PtyPlace
<1>4. /\ in_count' = IF pty_call[t].left > in_count THEN 0 ELSE in_count - pty_call[t].left
      /\ sstate' = IF in_count' = 0 THEN sstate \ {"R"} ELSE sstate
      /\ mstate' = IF ptm # {} THEN mstate \cup {"W"} ELSE mstate
      /\ PtyLeave(t, PtyResume(pty_pc, PtyTask, {"mw"}))
  BY DEF ReadOut
<1>5. PtyStirred(pty_pc, PtyResume(pty_pc, PtyTask, {"mw"}), {"mw"})
  BY <1>1, StirredOnce
<1>6. /\ PtyHolders' /\ PtyLife' /\ PtyRuns' /\ pty_cpu' = NoPtyTask
      /\ pty_pc' \in [PtyTask -> PtyPc] /\ pty_sig' \in SUBSET PtyTask
      /\ pty_call' \in [PtyTask -> [left : 0..MaxReq, nodelay : BOOLEAN]]
      /\ \A u \in PtyTask, x \in PtyPlace : pty_pc'[u] = PtyAsleep(x) =>
             /\ u \notin pty_sig'
             /\ (pty_pc[u] = PtyAsleep(x) /\ x \notin {"mw"})
                \/ (x = "sr" /\ ~PtyLeave(t, PtyResume(pty_pc, PtyTask, {"mw"})))
  BY <1>1, <1>4, <1>5, CallEnds
<1>7. \A u \in PtyTask, x \in PtyPlace : pty_pc'[u] = PtyAsleep(x) =>
          u \notin pty_sig' /\ pty_pc[u] = PtyAsleep(x) /\ x # "mw"
  BY <1>4, <1>6
<1>8. in_count' \in 0..InMax /\ in_count' <= in_count
  BY <1>2, <1>4, TakenRight
<1>9. mstate' \in SUBSET {"R", "W"} /\ sstate' \in SUBSET {"R", "W"}
  BY <1>2, <1>4
<1>10. PtyTypes'
  <2>1. {alloc', locked', icanon', canon_eot', fault', leaked'} \in SUBSET BOOLEAN
    BY <1>1 DEF PtyInv, PtyTypes
  <2>2. QED
    BY <1>1, <1>6, <1>8, <1>9, <2>1 DEF PtyInv, PtyTypes
<1>11. PtySleepers'
  <2>1. ASSUME NEW u \in PtyTask, pty_pc'[u] = PtyAsleep("sr")
        PROVE  in_count' = 0 /\ ~canon_eot' /\ ptm # {}
    <3>1. pty_pc[u] = PtyAsleep("sr")
      BY <1>1, <1>7, <2>1
    <3>2. in_count = 0 /\ ptm # {}
      BY <1>3, <3>1 DEF PtyInv, PtySleepers
    <3>3. QED
      BY <1>2, <1>8, <3>2
  <2>2. QED
    BY <1>1, <1>3, <1>7, <2>1 DEF PtyInv, PtySleepers, PtyPlace
<1>12. PtyTold'
  <2>1. /\ ptm # {} => "W" \in mstate'
        /\ ptm # {} /\ out_count > 0 => "R" \in mstate'
        /\ in_count' > 0 => "R" \in sstate'
        /\ out_count < OutMax => "W" \in sstate'
    BY <1>2, <1>3, <1>4, <1>8 DEF PtyInv, PtyTold
  <2>2. QED
    BY <1>1, <2>1 DEF PtyTold
<1>13. QED
  BY <1>6, <1>10, <1>11, <1>12 DEF PtyInv

\* pts_read
LEMMA PtsReadRight == ASSUME PtyAssumption, PtyInv, NEW t \in PtyTask, PtsRead(t) PROVE PtyInv'
<1>1. /\ pty_pc[t] = PtyRunning("sr") /\ "sr" \in PtyPlace
      /\ UNCHANGED <<Ends, fault, leaked>>
      /\ UNCHANGED <<Ends, canon_count, out_count, fault, leaked>>
      /\ UNCHANGED <<alloc, locked, icanon, ptm, pts, canon_count, out_count, fault, leaked>>
  BY DEF PtsRead, Ends, PtyPlace
<1>2. in_count \in Nat /\ canon_eot \in BOOLEAN /\ pty_pc \in [PtyTask -> PtyPc]
  BY PtySizes DEF PtyInv, PtyTypes
<1>3. ~PtyBusy("mw") /\ ~PtyBusy("sw") /\ t \in pts
  BY <1>1, RunsIt DEF PtyPlace
<1>4. CASE ReadOut(t) /\ in_count > 0 /\ canon_eot' = canon_eot
  BY <1>1, <1>2, <1>4, ReadOutRight
<1>5. CASE ReadOut(t) /\ canon_eot' = FALSE
  BY <1>1, <1>5, ReadOutRight
<1>6. CASE /\ UNCHANGED <<canon_eot, in_count, mstate, sstate>>
           /\ PtyLeave(t, pty_pc) \/ (PtySleep(t, "sr", pty_pc) /\ t \notin pty_sig)
           /\ PtyLeave(t, pty_pc) \/ (ptm # {} /\ in_count = 0 /\ ~canon_eot)
  <2>1. PtyStirred(pty_pc, pty_pc, {})
    BY <1>2, StirredNot
  <2>2. /\ PtyHolders' /\ PtyLife' /\ PtyRuns' /\ pty_cpu' = NoPtyTask
        /\ pty_pc' \in [PtyTask -> PtyPc] /\ pty_sig' \in SUBSET PtyTask
        /\ pty_call' \in [PtyTask -> [left : 0..MaxReq, nodelay : BOOLEAN]]
        /\ \A u \in PtyTask, x \in PtyPlace : pty_pc'[u] = PtyAsleep(x) =>
               /\ u \notin pty_sig'
               /\ (pty_pc[u] = PtyAsleep(x) /\ x \notin {}) \/ (x = "sr" /\ ~PtyLeave(t, pty_pc))
    BY <1>1, <1>6, <2>1, CallEnds
  <2>3. PtyTypes'
    BY <1>1, <1>6, <2>2 DEF PtyInv, PtyTypes
  <2>4. PtySleepers'
    BY <1>1, <1>3, <1>6, <2>2 DEF PtyInv, PtySleepers, PtyPlace
  <2>5. PtyTold'
    BY <1>1, <1>3, <1>6 DEF PtyInv, PtyTold
  <2>6. QED
    BY <2>2, <2>3, <2>4, <2>5 DEF PtyInv
<1>7. QED
  BY <1>2, <1>4, <1>5, <1>6 DEF PtsRead

\* An echo, or none: what was echoed, what poll is told, and who is woken.
PtyEcho(o, m, r) ==
    /\ o \in 0..OutMax /\ o >= out_count
    /\ m \in SUBSET {"R", "W"} /\ mstate \in SUBSET m
    /\ \E Q \in SUBSET PtyPlace : /\ PtyStirred(pty_pc, r, Q)
                                  /\ o = out_count \/ ("mr" \in Q /\ "R" \in m)

\* Nothing is echoed.
LEMMA NoEcho == ASSUME PtyAssumption, PtyInv PROVE PtyEcho(out_count, mstate, pty_pc)
<1>1. /\ out_count \in 0..OutMax /\ out_count >= out_count
      /\ mstate \in SUBSET {"R", "W"} /\ mstate \in SUBSET mstate
      /\ pty_pc \in [PtyTask -> PtyPc]
  BY PtySizes DEF PtyInv, PtyTypes
<1>2. PtyStirred(pty_pc, pty_pc, {})
  BY <1>1, StirredNot
<1>3. {} \in SUBSET PtyPlace
  OBVIOUS
<1>4. QED
  BY <1>1, <1>2, <1>3 DEF PtyEcho

\* pty_echo of n characters.
LEMMA EchoIs ==
    ASSUME PtyAssumption, PtyInv, NEW n \in Nat
    PROVE  PtyEcho(Echoed(n), EchoState, EchoResumed)
<1>1. /\ OutMax \in Nat /\ out_count \in 0..OutMax /\ mstate \in SUBSET {"R", "W"}
      /\ pty_pc \in [PtyTask -> PtyPc]
  BY PtySizes DEF PtyInv, PtyTypes
<1>2. Echoed(n) \in 0..OutMax /\ Echoed(n) >= out_count
  BY <1>1 DEF Echoed
<1>3. CASE out_count < OutMax
  <2>1. EchoState = mstate \cup {"R"} /\ EchoResumed = PtyResume(pty_pc, PtyTask, {"mr"})
    BY <1>3 DEF EchoState, EchoResumed
  <2>2. {"mr"} \in SUBSET PtyPlace
    BY DEF PtyPlace
  <2>3. PtyStirred(pty_pc, EchoResumed, {"mr"})
    BY <2>1, <2>2, StirredOnce
  <2>4. EchoState \in SUBSET {"R", "W"} /\ mstate \in SUBSET EchoState /\ "R" \in EchoState
    BY <1>1, <2>1
  <2>5. QED
    BY <1>2, <2>2, <2>3, <2>4 DEF PtyEcho
<1>4. CASE ~(out_count < OutMax)
  <2>1. EchoState = mstate /\ EchoResumed = pty_pc
    BY <1>4 DEF EchoState, EchoResumed
  <2>2. Echoed(n) = out_count
    BY <1>1, <1>4 DEF Echoed
  <2>3. QED
    BY <2>1, <2>2, NoEcho
<1>5. QED
  BY <1>3, <1>4

\* Who is woken on the way of a character.
PtyPasses(r) ==
    \/ pty_pc' = r /\ pty_sig' = pty_sig
    \/ pty_pc' = PtyResume(r, PtyTask, {"sr"}) /\ pty_sig' = pty_sig
    \/ \E P \in SUBSET PtyTask : pty_pc' = PtyResume(r, P, PtyPlace) /\ pty_sig' = pty_sig \cup P

\* A character goes in: the call goes on, and will tell whom it did not tell yet.
LEMMA CharRight ==
    ASSUME PtyAssumption, PtyInv, NEW t \in PtyTask, pty_pc[t] = PtyRunning("mw"),
           UNCHANGED <<Ends, fault, leaked>>, pty_cpu' = pty_cpu,
           NEW r, PtyEcho(out_count', mstate', r), PtyPasses(r),
           canon_count' \in 0..CanonMax, canon_eot' \in BOOLEAN,
           in_count' \in 0..InMax, in_count' >= in_count,
           sstate' \in {sstate, sstate \cup {"R"}},
           pty_call[t].left > 0, pty_call' = [pty_call EXCEPT ![t].left = @ - 1]
    PROVE  PtyInv'
<1>1. /\ UNCHANGED <<alloc, locked, icanon, ptm, pts, fault, leaked>> /\ UNCHANGED <<Ends, fault, leaked>>
      /\ "mr" \in PtyPlace /\ "mw" \in PtyPlace /\ "sr" \in PtyPlace /\ "sw" \in PtyPlace
  BY DEF Ends, PtyPlace
<1>2. /\ out_count' \in 0..OutMax /\ out_count' >= out_count
      /\ mstate' \in SUBSET {"R", "W"} /\ mstate \in SUBSET mstate'
      /\ sstate' \in SUBSET {"R", "W"} /\ sstate \in SUBSET sstate'
  BY DEF PtyEcho, PtyInv, PtyTypes
<1>3. PICK Q \in SUBSET PtyPlace : /\ PtyStirred(pty_pc, r, Q)
                                   /\ out_count' = out_count \/ ("mr" \in Q /\ "R" \in mstate')
  BY DEF PtyEcho
<1>4. PICK R \in SUBSET PtyPlace :
          /\ PtyStirred(pty_pc, pty_pc', R) /\ Q \in SUBSET R
          /\ pty_sig' \in SUBSET PtyTask
          /\ \A u \in PtyTask, x \in PtyPlace : pty_pc'[u] = PtyAsleep(x) => u \notin pty_sig'
  <2>0. /\ pty_sig \in SUBSET PtyTask
        /\ \A u \in PtyTask, x \in PtyPlace : pty_pc[u] = PtyAsleep(x) => u \notin pty_sig
    BY DEF PtyInv, PtyTypes, PtySleepers
  <2>1. CASE pty_pc' = r /\ pty_sig' = pty_sig
    <3>1. PtyStirred(pty_pc, pty_pc', Q)
      BY <1>3, <2>1
    <3>2. \A u \in PtyTask, x \in PtyPlace : pty_pc'[u] = PtyAsleep(x) => pty_pc[u] = PtyAsleep(x)
      BY <3>1 DEF PtyStirred
    <3>3. QED
      BY <2>0, <2>1, <3>1, <3>2
  <2>2. CASE pty_pc' = PtyResume(r, PtyTask, {"sr"}) /\ pty_sig' = pty_sig
    <3>1. {"sr"} \in SUBSET PtyPlace /\ Q \cup {"sr"} \in SUBSET PtyPlace
      BY <1>1
    <3>2. PtyStirred(pty_pc, pty_pc', Q \cup {"sr"})
      BY <1>3, <2>2, <3>1, StirredAll
    <3>3. \A u \in PtyTask, x \in PtyPlace : pty_pc'[u] = PtyAsleep(x) => pty_pc[u] = PtyAsleep(x)
      BY <3>2 DEF PtyStirred
    <3>4. Q \in SUBSET (Q \cup {"sr"})
      OBVIOUS
    <3>5. QED
      BY <2>0, <2>2, <3>1, <3>2, <3>3, <3>4
  <2>3. ASSUME NEW P \in SUBSET PtyTask,
               pty_pc' = PtyResume(r, P, PtyPlace) /\ pty_sig' = pty_sig \cup P
        PROVE  /\ PtyStirred(pty_pc, pty_pc', Q)
               /\ pty_sig' \in SUBSET PtyTask
               /\ \A u \in PtyTask, x \in PtyPlace : pty_pc'[u] = PtyAsleep(x) => u \notin pty_sig'
    <3>1. PtyStirred(pty_pc, pty_pc', Q) /\ \A u \in P, x \in PtyPlace : pty_pc'[u] # PtyAsleep(x)
      BY <1>3, <2>3, StirredSome
    <3>2. \A u \in PtyTask, x \in PtyPlace : pty_pc'[u] = PtyAsleep(x) => pty_pc[u] = PtyAsleep(x)
      BY <3>1 DEF PtyStirred
    <3>3. QED
      BY <2>0, <2>3, <3>1, <3>2
  <2>4. QED
    BY <2>1, <2>2, <2>3 DEF PtyPasses
<1>5. /\ PtyHolders' /\ PtyLife' /\ PtyRuns'
      /\ \A x \in PtyPlace : PtyBusy(x)' <=> x = "mw"
      /\ pty_pc' \in [PtyTask -> PtyPc]
      /\ \A u \in PtyTask, x \in PtyPlace : pty_pc'[u] = PtyAsleep(x) =>
             pty_pc[u] = PtyAsleep(x) /\ x \notin R
  BY <1>1, <1>4, CallGoes
<1>6. ~PtyBusy("sw") /\ t \in ptm
  BY <1>1, RunsIt DEF PtyPlace
<1>7. pty_call' \in [PtyTask -> [left : 0..MaxReq, nodelay : BOOLEAN]]
  <2>1. /\ pty_call \in [PtyTask -> [left : 0..MaxReq, nodelay : BOOLEAN]]
        /\ MaxReq \in Nat
    BY PtySizes DEF PtyInv, PtyTypes
  <2>2. pty_call[t].left - 1 \in 0..MaxReq
    BY <2>1
  <2>3. QED
    BY <2>1, <2>2
<1>8. PtyTypes'
  <2>1. {alloc', locked', icanon', canon_eot', fault', leaked'} \in SUBSET BOOLEAN
    BY <1>1 DEF PtyInv, PtyTypes
  <2>2. QED
    BY <1>1, <1>2, <1>4, <1>5, <1>7, <2>1 DEF PtyInv, PtyTypes
<1>9. PtySleepers'
  <2>1. /\ out_count \in Nat /\ in_count \in Nat /\ InMax \in Nat /\ OutMax \in Nat
        /\ out_count' \in Nat /\ in_count' \in Nat
    BY <1>2, PtySizes DEF PtyInv, PtyTypes
  <2>2. ASSUME NEW u \in PtyTask
        PROVE  /\ pty_pc'[u] = PtyAsleep("mr") => out_count' = 0
               /\ pty_pc'[u] = PtyAsleep("sr") => ptm # {}
               /\ pty_pc'[u] = PtyAsleep("mw") => in_count' >= InMax
               /\ pty_pc'[u] = PtyAsleep("sw") => out_count' >= OutMax /\ ptm # {}
    <3>1. CASE pty_pc'[u] = PtyAsleep("mr")
      <4>1. pty_pc[u] = PtyAsleep("mr") /\ "mr" \notin R
        BY <1>1, <1>5, <3>1
      <4>2. out_count = 0 /\ out_count' = out_count
        BY <1>3, <1>4, <1>6, <4>1 DEF PtyInv, PtySleepers
      <4>3. QED
        BY <1>1, <3>1, <4>2, PcFacts
    <3>2. CASE pty_pc'[u] = PtyAsleep("mw")
      <4>1. in_count >= InMax
        BY <1>1, <1>5, <3>2 DEF PtyInv, PtySleepers
      <4>2. in_count' >= InMax
        BY <2>1, <4>1
      <4>3. QED
        BY <1>1, <3>2, <4>2, PcFacts
    <3>3. CASE pty_pc'[u] = PtyAsleep("sw")
      <4>1. out_count >= OutMax
        BY <1>1, <1>5, <3>3 DEF PtyInv, PtySleepers
      <4>2. out_count' >= OutMax
        BY <1>2, <2>1, <4>1
      <4>3. QED
        BY <1>1, <1>6, <3>3, <4>2, PcFacts
    <3>4. QED
      BY <1>6, <3>1, <3>2, <3>3
  <2>3. QED
    BY <1>1, <1>4, <1>5, <2>2 DEF PtySleepers
<1>10. PtyTold'
  <2>1. /\ out_count \in Nat /\ in_count \in Nat /\ InMax \in Nat /\ OutMax \in Nat
        /\ out_count' \in Nat /\ in_count' \in Nat
    BY <1>2, PtySizes DEF PtyInv, PtyTypes
  <2>2. out_count' > 0 => "R" \in mstate'
    BY <1>2, <1>3, <1>6, <2>1 DEF PtyInv, PtyTold
  <2>3. in_count' < InMax => "W" \in mstate'
    BY <1>2, <1>6, <2>1 DEF PtyInv, PtyTold
  <2>4. pts # {} /\ out_count' < OutMax => "W" \in sstate'
    BY <1>2, <2>1 DEF PtyInv, PtyTold
  <2>5. QED
    BY <1>1, <1>5, <2>2, <2>3, <2>4 DEF PtyTold
<1>11. QED
  BY <1>5, <1>8, <1>9, <1>10 DEF PtyInv

\* The end of ptm_write's loop, or a sleep for want of room: the readers are told.
LEMMA PtmStopsRight ==
    ASSUME PtyAssumption, PtyInv, NEW t \in PtyTask, pty_pc[t] = PtyRunning("mw"),
           UNCHANGED <<Ends, Buffers, fault, leaked>>,
           \/ PtyLeave(t, PtyResume(pty_pc, PtyTask, {"sr"}))
           \/ /\ PtySleep(t, "mw", PtyResume(pty_pc, PtyTask, {"sr"}))
              /\ t \notin pty_sig
              /\ in_count >= InMax,
           mstate' = mstate \/ (in_count >= InMax /\ mstate' = mstate \ {"W"}),
           sstate' = IF pts # {} THEN sstate \cup {"R"} ELSE sstate
    PROVE  PtyInv'
<1>1. /\ "mr" \in PtyPlace /\ "sr" \in PtyPlace /\ "mw" \in PtyPlace /\ "sw" \in PtyPlace
      /\ UNCHANGED <<Ends, fault, leaked>>
      /\ UNCHANGED <<alloc, locked, icanon, ptm, pts, canon_count, canon_eot, in_count, out_count,
                     fault, leaked>>
  BY DEF Ends, Buffers, PtyPlace
<1>2. /\ InMax \in Nat /\ in_count \in Nat
      /\ mstate \in SUBSET {"R", "W"} /\ sstate \in SUBSET {"R", "W"}
  BY PtySizes DEF PtyInv, PtyTypes
<1>3. ~PtyBusy("sw") /\ t \in ptm
  BY <1>1, RunsIt DEF PtyPlace
<1>4. PtyStirred(pty_pc, PtyResume(pty_pc, PtyTask, {"sr"}), {"sr"})
  BY <1>1, StirredOnce
<1>5. /\ PtyHolders' /\ PtyLife' /\ PtyRuns' /\ pty_cpu' = NoPtyTask
      /\ pty_pc' \in [PtyTask -> PtyPc] /\ pty_sig' \in SUBSET PtyTask
      /\ pty_call' \in [PtyTask -> [left : 0..MaxReq, nodelay : BOOLEAN]]
      /\ \A u \in PtyTask, x \in PtyPlace : pty_pc'[u] = PtyAsleep(x) =>
             /\ u \notin pty_sig'
             /\ (pty_pc[u] = PtyAsleep(x) /\ x \notin {"sr"})
                \/ (x = "mw" /\ ~PtyLeave(t, PtyResume(pty_pc, PtyTask, {"sr"})))
  BY <1>1, <1>4, CallEnds
<1>6. \A u \in PtyTask, x \in PtyPlace : pty_pc'[u] = PtyAsleep(x) =>
          /\ u \notin pty_sig'
          /\ (pty_pc[u] = PtyAsleep(x) /\ x # "sr") \/ (x = "mw" /\ in_count >= InMax)
  BY <1>5
<1>7. mstate' \in SUBSET {"R", "W"} /\ sstate' \in SUBSET {"R", "W"}
  BY <1>2
<1>8. PtyTypes'
  BY <1>1, <1>5, <1>7 DEF PtyInv, PtyTypes
<1>9. PtySleepers'
  <2>1. \A u \in PtyTask :
            /\ pty_pc'[u] = PtyAsleep("mr") => out_count = 0
            /\ pty_pc'[u] # PtyAsleep("sr")
            /\ pty_pc'[u] = PtyAsleep("mw") => in_count >= InMax
            /\ pty_pc'[u] = PtyAsleep("sw") => out_count >= OutMax /\ ptm # {}
    BY <1>1, <1>3, <1>6 DEF PtyInv, PtySleepers
  <2>2. QED
    BY <1>1, <1>6, <2>1 DEF PtySleepers
<1>10. PtyTold'
  <2>1. /\ out_count > 0 => "R" \in mstate'
        /\ in_count < InMax => "W" \in mstate'
        /\ pts # {} => "R" \in sstate'
        /\ pts # {} /\ out_count < OutMax => "W" \in sstate'
    BY <1>2, <1>3 DEF PtyInv, PtyTold
  <2>2. QED
    BY <1>1, <2>1 DEF PtyTold
<1>11. QED
  BY <1>5, <1>8, <1>9, <1>10 DEF PtyInv

\* One character in canonical mode.
LEMMA CanonCharRight ==
    ASSUME PtyAssumption, PtyInv, NEW t \in PtyTask, pty_pc[t] = PtyRunning("mw"), CanonChar(t),
           UNCHANGED <<Ends, fault, leaked>>, pty_cpu' = pty_cpu,
           pty_call[t].left > 0, pty_call' = [pty_call EXCEPT ![t].left = @ - 1]
    PROVE  PtyInv'
<1> DEFINE End(r) ==
        /\ PtyEcho(out_count', mstate', r) /\ PtyPasses(r)
        /\ canon_count' \in 0..CanonMax /\ canon_eot' \in BOOLEAN
        /\ in_count' \in 0..InMax /\ in_count' >= in_count
        /\ sstate' \in {sstate, sstate \cup {"R"}}
<1>1. /\ CanonMax \in Nat /\ InMax \in Nat /\ InMax > 0 /\ CanonMax > 0
      /\ canon_count \in 0..CanonMax /\ in_count \in 0..InMax /\ canon_eot \in BOOLEAN
      /\ canon_count \in Nat /\ canon_count + 1 \in Nat /\ in_count >= in_count
      /\ pts \in SUBSET PtyTask /\ 1 \in Nat
  BY PtySizes DEF PtyInv, PtyTypes
<1>2. PtyEcho(out_count, mstate, pty_pc)
  BY NoEcho
<1>3. \A n \in Nat : PtyEcho(Echoed(n), EchoState, EchoResumed)
  BY EchoIs
<1>4. ASSUME canon_count' = (IF canon_count < CanonMax THEN canon_count + 1 ELSE canon_count),
             out_count' = (IF canon_count < CanonMax THEN Echoed(1) ELSE out_count),
             mstate' = (IF canon_count < CanonMax THEN EchoState ELSE mstate),
             pty_pc' = (IF canon_count < CanonMax THEN EchoResumed ELSE pty_pc),
             UNCHANGED <<canon_eot, in_count, sstate, pty_sig>>
      PROVE  \E r : End(r)
  <2>1. canon_count' \in 0..CanonMax
    BY <1>1, <1>4
  <2>2. CASE canon_count < CanonMax
    <3>1. PtyEcho(out_count', mstate', EchoResumed)
      BY <1>1, <1>3, <1>4, <2>2
    <3>2. PtyPasses(EchoResumed)
      BY <1>4, <2>2 DEF PtyPasses
    <3>3. QED
      BY <1>1, <1>4, <2>1, <3>1, <3>2
  <2>3. CASE ~(canon_count < CanonMax)
    <3>1. PtyEcho(out_count', mstate', pty_pc)
      BY <1>2, <1>4, <2>3
    <3>2. PtyPasses(pty_pc)
      BY <1>4, <2>3 DEF PtyPasses
    <3>3. QED
      BY <1>1, <1>4, <2>1, <3>1, <3>2
  <2>4. QED
    BY <2>2, <2>3
<1>5. ASSUME canon_count' = 0, in_count' = HandOver,
             out_count' = (IF canon_count < CanonMax THEN Echoed(1) ELSE out_count),
             mstate' = (IF canon_count < CanonMax THEN EchoState ELSE mstate),
             sstate' = (IF pts # {} THEN sstate \cup {"R"} ELSE sstate),
             pty_pc' = PtyResume(IF canon_count < CanonMax THEN EchoResumed ELSE pty_pc, PtyTask, {"sr"}),
             UNCHANGED <<canon_eot, pty_sig>>
      PROVE  \E r : End(r)
  <2>1. in_count' \in 0..InMax /\ in_count' >= in_count /\ canon_count' \in 0..CanonMax
    BY <1>1, <1>5 DEF HandOver
  <2>2. CASE canon_count < CanonMax
    <3>1. PtyEcho(out_count', mstate', EchoResumed)
      BY <1>1, <1>3, <1>5, <2>2
    <3>2. PtyPasses(EchoResumed)
      BY <1>5, <2>2 DEF PtyPasses
    <3>3. QED
      BY <1>1, <1>5, <2>1, <3>1, <3>2
  <2>3. CASE ~(canon_count < CanonMax)
    <3>1. PtyEcho(out_count', mstate', pty_pc)
      BY <1>2, <1>5, <2>3
    <3>2. PtyPasses(pty_pc)
      BY <1>5, <2>3 DEF PtyPasses
    <3>3. QED
      BY <1>1, <1>5, <2>1, <3>1, <3>2
  <2>4. QED
    BY <2>2, <2>3
<1>6. ASSUME canon_count > 0, canon_count' \in {0, canon_count - 1},
             out_count' = Echoed(canon_count - canon_count'), mstate' = EchoState,
             pty_pc' = EchoResumed, UNCHANGED <<canon_eot, in_count, sstate, pty_sig>>
      PROVE  \E r : End(r)
  <2>1. canon_count' \in 0..CanonMax /\ canon_count - canon_count' \in Nat
    BY <1>1, <1>6
  <2>2. PtyEcho(out_count', mstate', EchoResumed)
    BY <1>3, <1>6, <2>1
  <2>3. PtyPasses(EchoResumed)
    BY <1>6 DEF PtyPasses
  <2>4. QED
    BY <1>1, <1>6, <2>1, <2>2, <2>3
<1>7. ASSUME \/ out_count' = Echoed(canon_count + 1) /\ mstate' = EchoState /\ pty_pc' = EchoResumed
             \/ UNCHANGED <<out_count, mstate, pty_pc>>,
             UNCHANGED <<canon_count, canon_eot, in_count, sstate, pty_sig>>
      PROVE  \E r : End(r)
  <2>1. CASE out_count' = Echoed(canon_count + 1) /\ mstate' = EchoState /\ pty_pc' = EchoResumed
    <3>1. PtyEcho(out_count', mstate', EchoResumed)
      BY <1>1, <1>3, <2>1
    <3>2. PtyPasses(EchoResumed)
      BY <1>7, <2>1 DEF PtyPasses
    <3>3. QED
      BY <1>1, <1>7, <3>1, <3>2
  <2>2. CASE UNCHANGED <<out_count, mstate, pty_pc>>
    <3>1. PtyEcho(out_count', mstate', pty_pc)
      BY <1>2, <2>2
    <3>2. PtyPasses(pty_pc)
      BY <1>7, <2>2 DEF PtyPasses
    <3>3. QED
      BY <1>1, <1>7, <3>1, <3>2
  <2>3. QED
    BY <1>7, <2>1, <2>2
<1>8. ASSUME canon_eot' = TRUE, out_count' = Echoed(1), mstate' = EchoState, pty_pc' = EchoResumed,
             UNCHANGED <<canon_count, in_count, sstate, pty_sig>>
      PROVE  \E r : End(r)
  <2>1. PtyEcho(out_count', mstate', EchoResumed)
    BY <1>1, <1>3, <1>8
  <2>2. PtyPasses(EchoResumed)
    BY <1>8 DEF PtyPasses
  <2>3. QED
    BY <1>1, <1>8, <2>1, <2>2
<1>9. ASSUME NEW P \in SUBSET PtyTask, pty_sig' = pty_sig \cup P,
             pty_pc' = PtyResume(EchoResumed, P, PtyPlace),
             canon_count' = 0, out_count' = Echoed(1), mstate' = EchoState,
             UNCHANGED <<canon_eot, in_count, sstate>>
      PROVE  \E r : End(r)
  <2>1. PtyEcho(out_count', mstate', EchoResumed)
    BY <1>1, <1>3, <1>9
  <2>2. PtyPasses(EchoResumed)
    BY <1>9 DEF PtyPasses
  <2>3. canon_count' \in 0..CanonMax
    BY <1>1, <1>9
  <2>4. QED
    BY <1>1, <1>9, <2>1, <2>2, <2>3
<1>10. {u \in pts : pty_pc[u] # PtyUser} \in SUBSET PtyTask
  BY <1>1
<1>11. \E r : End(r)
  BY <1>4, <1>5, <1>6, <1>7, <1>8, <1>9, <1>10 DEF CanonChar
<1>12. PICK r : End(r)
  BY <1>11
<1>13. QED
  BY <1>12, CharRight

\* ptm_write
LEMMA PtmWriteRight == ASSUME PtyAssumption, PtyInv, NEW t \in PtyTask, PtmWrite(t) PROVE PtyInv'
<1>1. pty_pc[t] = PtyRunning("mw") /\ UNCHANGED <<Ends, fault, leaked>>
  BY DEF PtmWrite
<1>2. CASE /\ mstate' = IF in_count >= InMax THEN mstate \ {"W"} ELSE mstate
           /\ PtmWritten(t, pty_pc)
           /\ UNCHANGED Buffers
  <2>1. PtyLeave(t, PtyResume(pty_pc, PtyTask, {"sr"}))
    BY <1>2 DEF PtmWritten
  <2>2. sstate' = IF pts # {} THEN sstate \cup {"R"} ELSE sstate
    BY <1>2 DEF PtmWritten
  <2>3. mstate' = mstate \/ (in_count >= InMax /\ mstate' = mstate \ {"W"})
    BY <1>2
  <2>4. UNCHANGED <<Ends, Buffers, fault, leaked>>
    BY <1>1, <1>2
  <2>5. QED
    BY <1>1, <2>1, <2>2, <2>3, <2>4, PtmStopsRight
<1>3. CASE /\ in_count >= InMax
           /\ mstate' = mstate \ {"W"}
           /\ PtmWritten(t, pty_pc)
           /\ UNCHANGED Buffers
  <2>1. mstate' = IF in_count >= InMax THEN mstate \ {"W"} ELSE mstate
    BY <1>3
  <2>2. QED
    BY <1>2, <1>3, <2>1
<1>4. CASE /\ in_count >= InMax /\ t \notin pty_sig
           /\ sstate' = IF pts # {} THEN sstate \cup {"R"} ELSE sstate
           /\ PtySleep(t, "mw", PtyResume(pty_pc, PtyTask, {"sr"}))
           /\ UNCHANGED <<Buffers, mstate>>
  <2>1. UNCHANGED <<Ends, Buffers, fault, leaked>> /\ mstate' = mstate
    BY <1>1, <1>4
  <2>2. QED
    BY <1>1, <1>4, <2>1, PtmStopsRight
<1>5. CASE /\ pty_call[t].left > 0 /\ CanonChar(t)
           /\ pty_call' = [pty_call EXCEPT ![t].left = @ - 1]
           /\ UNCHANGED pty_cpu
  BY <1>1, <1>5, CanonCharRight
<1>6. CASE /\ pty_call[t].left > 0
           /\ in_count < InMax /\ in_count' = in_count + 1 /\ out_count' = Echoed(1)
           /\ mstate' = EchoState /\ pty_pc' = EchoResumed
           /\ pty_call' = [pty_call EXCEPT ![t].left = @ - 1]
           /\ UNCHANGED <<canon_count, canon_eot, sstate, pty_sig, pty_cpu>>
  <2>1. /\ canon_count' \in 0..CanonMax /\ canon_eot' \in BOOLEAN
        /\ in_count' \in 0..InMax /\ in_count' >= in_count
        /\ sstate' \in {sstate, sstate \cup {"R"}}
    BY <1>6, PtySizes DEF PtyInv, PtyTypes
  <2>2. 1 \in Nat
    OBVIOUS
  <2>3. PtyEcho(out_count', mstate', EchoResumed)
    BY <1>6, <2>2, EchoIs
  <2>4. PtyPasses(EchoResumed)
    BY <1>6 DEF PtyPasses
  <2>5. pty_cpu' = pty_cpu
    BY <1>6
  <2>6. QED
    BY <1>1, <1>6, <2>1, <2>3, <2>4, <2>5, CharRight
<1>7. QED
  BY <1>2, <1>3, <1>4, <1>5, <1>6 DEF PtmWrite

\* A step of pts_write that only wakes and tells the master's readers: its end, or a sleep
\* for want of room.
LEMMA PtsStopsRight ==
    ASSUME PtyAssumption, PtyInv, NEW t \in PtyTask, pty_pc[t] = PtyRunning("sw"),
           UNCHANGED <<Ends, Buffers, fault, leaked>>,
           \/ PtyLeave(t, PtyResume(pty_pc, PtyTask, {"mr"}))
           \/ /\ PtySleep(t, "sw", PtyResume(pty_pc, PtyTask, {"mr"}))
              /\ t \notin pty_sig
              /\ out_count >= OutMax
              /\ ptm # {},
           mstate' = IF ptm # {} THEN mstate \cup {"R"} ELSE mstate,
           sstate' = sstate \/ (out_count >= OutMax /\ sstate' = sstate \ {"W"})
    PROVE  PtyInv'
<1>1. /\ "mr" \in PtyPlace /\ "sr" \in PtyPlace /\ "mw" \in PtyPlace /\ "sw" \in PtyPlace
      /\ UNCHANGED <<Ends, fault, leaked>>
      /\ UNCHANGED <<alloc, locked, icanon, ptm, pts, canon_count, canon_eot, in_count, out_count,
                     fault, leaked>>
  BY DEF Ends, Buffers, PtyPlace
<1>2. /\ OutMax \in Nat /\ out_count \in Nat
      /\ mstate \in SUBSET {"R", "W"} /\ sstate \in SUBSET {"R", "W"}
  BY PtySizes DEF PtyInv, PtyTypes
<1>3. ~PtyBusy("mw") /\ t \in pts
  BY <1>1, RunsIt DEF PtyPlace
<1>4. PtyStirred(pty_pc, PtyResume(pty_pc, PtyTask, {"mr"}), {"mr"})
  BY <1>1, StirredOnce
<1>5. /\ PtyHolders' /\ PtyLife' /\ PtyRuns' /\ pty_cpu' = NoPtyTask
      /\ pty_pc' \in [PtyTask -> PtyPc] /\ pty_sig' \in SUBSET PtyTask
      /\ pty_call' \in [PtyTask -> [left : 0..MaxReq, nodelay : BOOLEAN]]
      /\ \A u \in PtyTask, x \in PtyPlace : pty_pc'[u] = PtyAsleep(x) =>
             /\ u \notin pty_sig'
             /\ (pty_pc[u] = PtyAsleep(x) /\ x \notin {"mr"})
                \/ (x = "sw" /\ ~PtyLeave(t, PtyResume(pty_pc, PtyTask, {"mr"})))
  BY <1>1, <1>4, CallEnds
<1>6. \A u \in PtyTask, x \in PtyPlace : pty_pc'[u] = PtyAsleep(x) =>
          /\ u \notin pty_sig'
          /\ (pty_pc[u] = PtyAsleep(x) /\ x # "mr") \/ (x = "sw" /\ out_count >= OutMax /\ ptm # {})
  BY <1>5
<1>7. mstate' \in SUBSET {"R", "W"} /\ sstate' \in SUBSET {"R", "W"}
  BY <1>2
<1>8. PtyTypes'
  BY <1>1, <1>5, <1>7 DEF PtyInv, PtyTypes
<1>9. PtySleepers'
  <2>1. \A u \in PtyTask :
            /\ pty_pc'[u] # PtyAsleep("mr")
            /\ pty_pc'[u] = PtyAsleep("sr") => in_count = 0 /\ ~canon_eot /\ ptm # {}
            /\ pty_pc'[u] = PtyAsleep("mw") => in_count >= InMax
            /\ pty_pc'[u] = PtyAsleep("sw") => out_count >= OutMax /\ ptm # {}
    BY <1>1, <1>3, <1>6 DEF PtyInv, PtySleepers
  <2>2. QED
    BY <1>1, <1>6, <2>1 DEF PtySleepers
<1>10. PtyTold'
  <2>1. /\ ptm # {} => "R" \in mstate'
        /\ ptm # {} /\ in_count < InMax => "W" \in mstate'
        /\ in_count > 0 => "R" \in sstate'
        /\ out_count < OutMax => "W" \in sstate'
    BY <1>2, <1>3 DEF PtyInv, PtyTold
  <2>2. QED
    BY <1>1, <2>1 DEF PtyTold
<1>11. QED
  BY <1>5, <1>8, <1>9, <1>10 DEF PtyInv

\* One character of pts_write: its call goes on and will wake the master's readers.
LEMMA PtsCharRight ==
    ASSUME PtyAssumption, PtyInv, NEW t \in PtyTask, pty_pc[t] = PtyRunning("sw"),
           UNCHANGED <<Ends, canon_count, canon_eot, in_count, fault, leaked>>,
           pty_call[t].left > 0, out_count < OutMax, out_count' = out_count + 1,
           pty_call' = [pty_call EXCEPT ![t].left = @ - 1],
           UNCHANGED <<mstate, sstate, pty_pc, pty_sig, pty_cpu>>
    PROVE  PtyInv'
<1>1. /\ "mr" \in PtyPlace /\ "sr" \in PtyPlace /\ "mw" \in PtyPlace /\ "sw" \in PtyPlace
      /\ UNCHANGED <<Ends, fault, leaked>> /\ pty_cpu' = pty_cpu /\ {} \in SUBSET PtyPlace
      /\ UNCHANGED <<alloc, locked, icanon, ptm, pts, canon_count, canon_eot, in_count, mstate, sstate,
                     pty_sig, fault, leaked>>
  BY DEF Ends, PtyPlace
<1>2. /\ OutMax \in Nat /\ out_count \in Nat /\ MaxReq \in Nat
      /\ pty_pc \in [PtyTask -> PtyPc]
      /\ pty_call \in [PtyTask -> [left : 0..MaxReq, nodelay : BOOLEAN]]
  BY PtySizes DEF PtyInv, PtyTypes
<1>3. ~PtyBusy("mw") /\ PtyBusy("sw") /\ t \in pts
  BY <1>1, RunsIt DEF PtyPlace
<1>4. PtyStirred(pty_pc, pty_pc', {})
  <2>1. PtyStirred(pty_pc, pty_pc, {})
    BY <1>2, StirredNot
  <2>2. QED
    BY <2>1
<1>5. /\ PtyHolders' /\ PtyLife' /\ PtyRuns'
      /\ \A x \in PtyPlace : PtyBusy(x)' <=> x = "sw"
  BY <1>1, <1>4, CallGoes
<1>6. pty_call' \in [PtyTask -> [left : 0..MaxReq, nodelay : BOOLEAN]]
  <2>1. pty_call[t].left - 1 \in 0..MaxReq
    BY <1>2
  <2>2. QED
    BY <1>2, <2>1
<1>7. PtyTypes'
  <2>1. out_count' \in 0..OutMax
    BY <1>2
  <2>2. QED
    BY <1>1, <1>6, <2>1 DEF PtyInv, PtyTypes
<1>8. PtySleepers'
  <2>1. \A u \in PtyTask : pty_pc[u] # PtyAsleep("sw")
    BY <1>1, <1>2 DEF PtyInv, PtySleepers
  <2>2. PtyBusy("sw")'
    BY <1>1, <1>5
  <2>3. QED
    BY <1>1, <1>3, <2>1, <2>2 DEF PtyInv, PtySleepers
<1>9. PtyTold'
  <2>1. PtyBusy("sw")'
    BY <1>1, <1>5
  <2>2. out_count' < OutMax => "W" \in sstate
    BY <1>2, <1>3 DEF PtyInv, PtyTold
  <2>3. QED
    BY <1>1, <1>3, <2>1, <2>2 DEF PtyInv, PtyTold
<1>10. QED
  BY <1>5, <1>7, <1>8, <1>9 DEF PtyInv

\* pts_write
LEMMA PtsWriteRight == ASSUME PtyAssumption, PtyInv, NEW t \in PtyTask, PtsWrite(t) PROVE PtyInv'
<1>1. /\ pty_pc[t] = PtyRunning("sw")
      /\ UNCHANGED <<Ends, canon_count, canon_eot, in_count, fault, leaked>>
  BY DEF PtsWrite
<1>2. CASE /\ sstate' = IF out_count >= OutMax THEN sstate \ {"W"} ELSE sstate
           /\ ResumePtmR
           /\ PtyLeave(t, PtyResume(pty_pc, PtyTask, {"mr"}))
           /\ UNCHANGED out_count
  <2>1. /\ mstate' = IF ptm # {} THEN mstate \cup {"R"} ELSE mstate
        /\ sstate' = sstate \/ (out_count >= OutMax /\ sstate' = sstate \ {"W"})
        /\ UNCHANGED <<Ends, Buffers, fault, leaked>>
    BY <1>1, <1>2 DEF ResumePtmR, Buffers
  <2>2. QED
    BY <1>1, <1>2, <2>1, PtsStopsRight
<1>3. CASE /\ out_count >= OutMax /\ ptm # {} /\ t \notin pty_sig
           /\ ResumePtmR
           /\ PtySleep(t, "sw", PtyResume(pty_pc, PtyTask, {"mr"}))
           /\ UNCHANGED <<out_count, sstate>>
  <2>1. /\ mstate' = IF ptm # {} THEN mstate \cup {"R"} ELSE mstate
        /\ sstate' = sstate
        /\ UNCHANGED <<Ends, Buffers, fault, leaked>>
    BY <1>1, <1>3 DEF ResumePtmR, Buffers
  <2>2. QED
    BY <1>1, <1>3, <2>1, PtsStopsRight
<1>4. CASE /\ pty_call[t].left > 0 /\ out_count < OutMax /\ out_count' = out_count + 1
           /\ pty_call' = [pty_call EXCEPT ![t].left = @ - 1]
           /\ UNCHANGED <<mstate, sstate, pty_pc, pty_sig, pty_cpu>>
  BY <1>1, <1>4, PtsCharRight
<1>5. QED
  BY <1>2, <1>3, <1>4 DEF PtsWrite

\* The invariant holds to begin with.
LEMMA PtyStarts == ASSUME PtyAssumption, PtyInit PROVE PtyInv
<1>1. /\ alloc = FALSE /\ locked = FALSE /\ icanon = TRUE /\ ptm = {} /\ pts = {} /\ canon_count = 0
      /\ canon_eot = FALSE /\ in_count = 0 /\ out_count = 0 /\ mstate = {} /\ sstate = {}
      /\ pty_pc = [t \in PtyTask |-> PtyUser]
      /\ pty_call = [t \in PtyTask |-> [left |-> 0, nodelay |-> FALSE]]
      /\ pty_sig = {} /\ pty_cpu = NoPtyTask /\ fault = FALSE /\ leaked = FALSE
  BY DEF PtyInit
<1>2. /\ \A t \in PtyTask : pty_pc[t] = PtyUser
      /\ \A p \in PtyPlace : PtyAsleep(p) # PtyUser /\ PtyRunning(p) # PtyUser
      /\ PtyUser \in PtyPc
  BY <1>1, PcFacts
<1>3. PtyTypes
  <2>1. {alloc, locked, icanon, canon_eot, fault, leaked} \in SUBSET BOOLEAN
    BY <1>1
  <2>2. canon_count \in 0..CanonMax /\ in_count \in 0..InMax /\ out_count \in 0..OutMax
    BY <1>1, PtySizes
  <2>3. pty_pc \in [PtyTask -> PtyPc]
    BY <1>1, <1>2
  <2>4. pty_call \in [PtyTask -> [left : 0..MaxReq, nodelay : BOOLEAN]]
    <3>1. 0 \in 0..MaxReq
      BY PtySizes
    <3>2. [left |-> 0, nodelay |-> FALSE] \in [left : 0..MaxReq, nodelay : BOOLEAN]
      BY <3>1
    <3>3. QED
      BY <1>1, <3>2
  <2>5. QED
    BY <1>1, <2>1, <2>2, <2>3, <2>4 DEF PtyTypes
<1>4. PtyHolders /\ PtyLife
  BY <1>1, <1>2 DEF PtyHolders, PtyLife
<1>5. PtyRuns
  BY <1>1, <1>2 DEF PtyRuns
<1>6. PtySleepers
  BY <1>2 DEF PtySleepers, PtyPlace
<1>7. PtyTold
  BY <1>1 DEF PtyTold
<1>8. QED
  BY <1>3, <1>4, <1>5, <1>6, <1>7 DEF PtyInv

\* A call is entered.
LEMMA PtyEnterRight ==
    ASSUME PtyAssumption, PtyInv, NEW t \in PtyTask, NEW p \in PtyPlace, PtyEnter(t, p)
    PROVE  PtyInv'
<1>1. /\ pty_cpu = NoPtyTask /\ pty_cpu' = t
      /\ pty_pc' = [pty_pc EXCEPT ![t] = PtyRunning(p)]
      /\ UNCHANGED <<Ends, Buffers, mstate, sstate, pty_sig, fault, leaked>>
  BY DEF PtyEnter, PtyIdle
<1>2. IF p \in {"mr", "mw"} THEN t \in ptm ELSE t \in pts
  BY DEF PtyEnter
<1>3. pty_call' \in [PtyTask -> [left : 0..MaxReq, nodelay : BOOLEAN]]
  <2>1. pty_call \in [PtyTask -> [left : 0..MaxReq, nodelay : BOOLEAN]] /\ MaxReq \in Nat
    BY PtySizes DEF PtyInv, PtyTypes
  <2>2. PICK n \in 1..MaxReq, nd \in BOOLEAN :
            pty_call' = [pty_call EXCEPT ![t] = [left |-> n, nodelay |-> nd]]
    BY DEF PtyEnter
  <2>3. n \in 0..MaxReq
    BY <2>1, <2>2
  <2>4. [left |-> n, nodelay |-> nd] \in [left : 0..MaxReq, nodelay : BOOLEAN]
    BY <2>3
  <2>5. QED
    BY <2>1, <2>2, <2>4
<1>4. QED
  BY <1>1, <1>2, <1>3, PtyGoesRight

\* A woken task goes on.
LEMMA PtyDispatchRight ==
    ASSUME PtyAssumption, PtyInv, NEW t \in PtyTask, PtyDispatch(t)
    PROVE  PtyInv'
<1>1. /\ pty_cpu = NoPtyTask /\ pty_cpu' = t
      /\ UNCHANGED <<Ends, Buffers, mstate, sstate, pty_sig, fault, leaked>>
      /\ pty_call' = pty_call
  BY DEF PtyDispatch
<1>2. PICK p \in PtyPlace : pty_pc[t] = PtyWoken(p)
  BY DEF PtyDispatch
<1>3. PtyWoken(p)[2] = p /\ PtyWoken(p) # PtyUser
  BY PcFacts
<1>4. pty_pc' = [pty_pc EXCEPT ![t] = PtyRunning(p)]
  BY <1>2, <1>3 DEF PtyDispatch
<1>5. IF p \in {"mr", "mw"} THEN t \in ptm ELSE t \in pts
  BY <1>2, <1>3 DEF PtyInv, PtyHolders
<1>6. pty_call' \in [PtyTask -> [left : 0..MaxReq, nodelay : BOOLEAN]]
  BY <1>1 DEF PtyInv, PtyTypes
<1>7. QED
  BY <1>1, <1>4, <1>5, <1>6, PtyGoesRight

\* Every step keeps the invariant.
LEMMA PtyKept == ASSUME PtyAssumption, PtyInv, [PtyNext]_ptyVars PROVE PtyInv'
<1>1. ASSUME NEW t \in PtyTask, OpenPtmx(t) PROVE PtyInv'
  BY <1>1, OpenPtmxRight
<1>2. ASSUME NEW t \in PtyTask, OpenPtmxFails(t) PROVE PtyInv'
  BY <1>2, OpenPtmxFailsRight
<1>3. ASSUME NEW t \in PtyTask, Unlock(t) \/ SetTio(t) PROVE PtyInv'
  BY <1>3, SettingsRight
<1>4. ASSUME NEW t \in PtyTask, OpenPts(t) PROVE PtyInv'
  BY <1>4, OpenPtsRight
<1>5. ASSUME NEW t \in PtyTask, NEW u \in PtyTask, Fork(t, u) PROVE PtyInv'
  BY <1>5, PtyForkRight
<1>6. ASSUME NEW t \in PtyTask, ClosePtm(t) PROVE PtyInv'
  BY <1>6, ClosePtmRight
<1>7. ASSUME NEW t \in PtyTask, ClosePts(t) PROVE PtyInv'
  BY <1>7, ClosePtsRight
<1>8. ASSUME NEW t \in PtyTask, PtySignal(t) \/ Shup(t) PROVE PtyInv'
  <2>1. PICK P \in SUBSET PtyTask :
            /\ PtySignalled(P)
            /\ UNCHANGED <<Ends, Buffers, mstate, sstate, pty_call, pty_cpu, fault, leaked>>
    <3>1. {t} \in SUBSET PtyTask /\ {u \in pts : pty_pc[u] # PtyUser} \in SUBSET PtyTask
      BY DEF PtyInv, PtyTypes
    <3>2. QED
      BY <1>8, <3>1 DEF PtySignal, Shup
  <2>2. QED
    BY <2>1, PtySignalRight
<1>9. ASSUME NEW t \in PtyTask, NEW p \in PtyPlace, PtyEnter(t, p) PROVE PtyInv'
  BY <1>9, PtyEnterRight
<1>10. ASSUME NEW t \in PtyTask, PtyDispatch(t) PROVE PtyInv'
  BY <1>10, PtyDispatchRight
<1>11. ASSUME NEW t \in PtyTask, PtyStep(t) PROVE PtyInv'
  BY <1>11, PtmReadRight, PtsReadRight, PtmWriteRight, PtsWriteRight DEF PtyStep
<1>12. CASE UNCHANGED ptyVars
  <2>1. UNCHANGED <<alloc, locked, icanon, ptm, pts, canon_count, canon_eot, in_count, out_count, mstate,
                    sstate, pty_pc, pty_call, pty_sig, pty_cpu, fault, leaked>>
    BY <1>12 DEF ptyVars
  <2>2. PtyTypes' /\ PtyHolders' /\ PtyLife' /\ PtyRuns'
    BY <2>1 DEF PtyInv, PtyTypes, PtyHolders, PtyLife, PtyRuns
  <2>3. PtySleepers' /\ PtyTold'
    BY <2>1 DEF PtyInv, PtySleepers, PtyTold, PtyBusy
  <2>4. QED
    BY <2>2, <2>3 DEF PtyInv
<1>13. QED
  BY <1>1, <1>2, <1>3, <1>4, <1>5, <1>6, <1>7, <1>8, <1>9, <1>10, <1>11, <1>12, Zenon DEF PtyNext

\* From the invariant follows what is to be shown.
LEMMA PtyIsRight == ASSUME PtyAssumption, PtyInv PROVE PtyRight
<1>1. PtyNoLostWakeup
  <2>1. ASSUME pty_cpu = NoPtyTask, NEW t \in PtyTask
        PROVE  /\ pty_pc[t] = PtyAsleep("mr") => out_count = 0
               /\ pty_pc[t] = PtyAsleep("sr") => in_count = 0 /\ ~canon_eot /\ ptm # {}
               /\ pty_pc[t] = PtyAsleep("mw") => in_count >= InMax
               /\ pty_pc[t] = PtyAsleep("sw") => out_count >= OutMax /\ ptm # {}
               /\ pty_pc[t] \in {PtyAsleep(p) : p \in PtyPlace} => t \notin pty_sig
    <3>1. ~PtyBusy("mw") /\ ~PtyBusy("sw")
      BY <2>1, FreeIsQuiet
    <3>2. QED
      BY <3>1 DEF PtyInv, PtySleepers
  <2>2. QED
    BY <2>1 DEF PtyNoLostWakeup
<1>2. PollSees
  <2>1. pty_cpu = NoPtyTask => ~PtyBusy("mw") /\ ~PtyBusy("sw")
    BY FreeIsQuiet
  <2>2. QED
    BY <2>1 DEF PtyInv, PtyTold, PollSees
<1>3. PtyLifetime
  BY DEF PtyInv, PtyTypes, PtyLife, PtyLifetime
<1>4. PtyTypes
  BY DEF PtyInv
<1>5. QED
  BY <1>1, <1>2, <1>3, <1>4 DEF PtyRight

\* A pseudo terminal loses no wake-up at either end, keeps poll() informed of what can be
\* read and of all room, and lives exactly as long as an end is open unless the object
\* table was full at some ptmx: for every set of tasks, every size of the buffers and every
\* request, in canonical and in raw mode, with signals at any moment (pty_lookup,
\* pty_getfso, pty_putfso, ptm_read, ptm_write, pts_read, pts_write, pty_canon_input).
THEOREM PtyCorrect == ASSUME PtyAssumption PROVE PtySpec => []PtyRight
<1>1. PtyInit => PtyInv
  BY PtyStarts
<1>2. PtyInv /\ [PtyNext]_ptyVars => PtyInv'
  BY PtyKept
<1>3. PtyInv => PtyRight
  BY PtyIsRight
<1>4. QED
  BY <1>1, <1>2, <1>3, PTL DEF PtySpec
=============================================================================
