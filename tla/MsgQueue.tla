------------------------------ MODULE MsgQueue ------------------------------
(***************************************************************************)
(* Message queues (src/kern/mqueue.c) with items of one byte: mq_put and   *)
(* mq_get address the buffer by items and not by their size, so larger     *)
(* items overlap.                                                          *)
(*                                                                         *)
(* A call changes the queue with interrupts off and wakes the other side   *)
(* after they are on again: an interrupt handler, which puts without       *)
(* waiting, may come between.  Otherwise the kernel is not preemptive.     *)
(***************************************************************************)
EXTENDS Integers, Sequences, FiniteSets

CONSTANTS Task, Item,
          maxcnt,
          MaxPut     \* bound: items an interrupt handler puts without a task's step between

\* What the constants of an instance satisfy.
MsgQueueAssumption == /\ maxcnt \in Nat \ {0}
                             /\ Item \subseteq Nat \ {0} /\ MaxPut \in Nat

VARIABLES
    buf, first, curcnt,
    putq, getq,    \* tasks asleep for room, for an item
    at,            \* "out", "put" or "get" (asleep or woken there)
    item,          \* what a task in mq_put is putting
    wait,          \* how it waits
    sig,           \* tasks with a signal pending
    waking,        \* what a task has done that has still to wake others: "put", "get" or "none"
    puts,          \* items put by interrupts since
    queue, got     \* what the queue should hold; what a task has got, and should have

vars == <<buf, first, curcnt, putq, getq, at, item, wait, sig, waking, puts, queue, got>>

Waits == {"no", "INTR", "NOINTR"}
Same == [is |-> 0, due |-> 0]
Asleep == putq \cup getq

TypeOK ==
    /\ buf \in [0..(maxcnt - 1) -> Item \cup {0}]
    /\ first \in 0..(maxcnt - 1)
    /\ curcnt \in 0..maxcnt
    /\ putq \in SUBSET Task /\ getq \in SUBSET Task
    /\ at \in [Task -> {"out", "put", "get"}]
    /\ item \in [Task -> Item \cup {0}]
    /\ wait \in [Task -> Waits]
    /\ sig \in SUBSET Task
    /\ waking \in {"none", "put", "get"}
    /\ puts \in 0..MaxPut

\* mq_init.
Init ==
    /\ buf = [i \in 0..(maxcnt - 1) |-> 0]
    /\ first = 0
    /\ curcnt = 0
    /\ putq = {} /\ getq = {}
    /\ at = [t \in Task |-> "out"]
    /\ item = [t \in Task |-> 0]
    /\ wait = [t \in Task |-> "no"]
    /\ sig = {}
    /\ waking = "none"
    /\ puts = 0
    /\ queue = <<>>
    /\ got = Same

\* Mutant: the place after the last item is not taken around the end.
Place_Straight == IF first + curcnt < maxcnt THEN first + curcnt ELSE maxcnt - 1

\* Where the next item goes.
Place == (first + curcnt) % maxcnt

Full == curcnt >= maxcnt

\* The queue after an item is put; the other side has still to be woken.
Insert(d) ==
    /\ buf' = [buf EXCEPT ![Place] = d]
    /\ curcnt' = curcnt + 1
    /\ queue' = Append(queue, d)
    /\ got' = Same
    /\ UNCHANGED first

Remove ==
    /\ got' = [is |-> buf[first % maxcnt], due |-> Head(queue)]
    /\ curcnt' = curcnt - 1
    /\ first' = (first + 1) % maxcnt
    /\ queue' = Tail(queue)
    /\ UNCHANGED buf

Queue == <<buf, first, curcnt, queue, got>>

\* A task gives up (EAGAIN, EINTR), or goes to sleep in the queue of its side.
Blocks(t, w, side) ==
    /\ UNCHANGED <<Queue, waking>>
    /\ IF w = "no" \/ (w = "INTR" /\ t \in sig)
       THEN at' = [at EXCEPT ![t] = "out"] /\ UNCHANGED <<putq, getq>>
       ELSE /\ at' = [at EXCEPT ![t] = side]
            /\ putq' = IF side = "put" THEN putq \cup {t} ELSE putq
            /\ getq' = IF side = "get" THEN getq \cup {t} ELSE getq

Done(t, side) ==
    /\ at' = [at EXCEPT ![t] = "out"]
    /\ waking' = side
    /\ UNCHANGED <<putq, getq>>

\* The loop of mq_put and of mq_get, and what follows it with interrupts off.
PutLoop(t, d, w) == IF Full THEN Blocks(t, w, "put") ELSE Insert(d) /\ Done(t, "put")
GetLoop(t, w) == IF curcnt = 0 THEN Blocks(t, w, "get") ELSE Remove /\ Done(t, "get")

\* A task runs in the kernel when none is on its way through it.
Runs(t) == waking = "none" /\ t \notin Asleep /\ puts' = 0

mq_put(t, d, w) ==
    /\ Runs(t) /\ at[t] = "out"
    /\ item' = [item EXCEPT ![t] = d]
    /\ wait' = [wait EXCEPT ![t] = w]
    /\ PutLoop(t, d, w)
    /\ UNCHANGED sig

mq_get(t, w) ==
    /\ Runs(t) /\ at[t] = "out"
    /\ wait' = [wait EXCEPT ![t] = w]
    /\ GetLoop(t, w)
    /\ UNCHANGED <<item, sig>>

\* A woken task goes on.
Resume(t) ==
    /\ Runs(t)
    /\ \/ at[t] = "put" /\ PutLoop(t, item[t], wait[t])
       \/ at[t] = "get" /\ GetLoop(t, wait[t])
    /\ UNCHANGED <<item, wait, sig>>

\* Mutant: nobody is woken.
WokenUp_None(q) == {}

\* The tasks of a queue that are woken: all.
WokenUp(q) == q

\* The end of mq_put and of mq_get: the other side is woken.
Wakes ==
    /\ waking # "none"
    /\ waking' = "none"
    /\ getq' = IF waking = "put" THEN getq \ WokenUp(getq) ELSE getq
    /\ putq' = IF waking = "get" THEN putq \ WokenUp(putq) ELSE putq
    /\ UNCHANGED <<Queue, at, item, wait, sig, puts>>

\* A driver's interrupt handler puts an item and does not wait.
Interrupt(d) ==
    /\ puts < MaxPut
    /\ puts' = puts + 1
    /\ ~Full
    /\ Insert(d)
    /\ getq' = getq \ WokenUp(getq)
    /\ UNCHANGED <<putq, at, item, wait, sig, waking>>

SignalWakes(t) == wait[t] = "INTR"

\* A signal is sent, and taken when the task is back in user mode.
Signal(t) ==
    /\ t \notin sig
    /\ sig' = sig \cup {t}
    /\ putq' = IF SignalWakes(t) THEN putq \ {t} ELSE putq
    /\ getq' = IF SignalWakes(t) THEN getq \ {t} ELSE getq
    /\ UNCHANGED <<Queue, at, item, wait, waking, puts>>

Handled(t) ==
    /\ Runs(t) /\ at[t] = "out"
    /\ t \in sig
    /\ sig' = sig \ {t}
    /\ UNCHANGED <<Queue, putq, getq, at, item, wait, waking>>

Next ==
    \/ \E t \in Task :
        \/ \E d \in Item, w \in Waits : mq_put(t, d, w)
        \/ \E w \in Waits : mq_get(t, w)
        \/ Resume(t)
        \/ Signal(t)
        \/ Handled(t)
    \/ Wakes
    \/ \E d \in Item : Interrupt(d)

Spec == Init /\ [][Next]_vars

----------------------------------------------------------------------------
(* Properties.                                                              *)

\* Items are got in the order they were put, each once, across the end of the buffer
\* and whoever puts them.
Fifo ==
    /\ got.is = got.due
    /\ Len(queue) = curcnt
    /\ \A i \in 1..curcnt : buf[(first + i - 1) % maxcnt] = queue[i]

\* Nobody sleeps for room or for an item that is there, except until the task that
\* made it wakes the others.
NoLostWakeup ==
    /\ curcnt > 0 /\ waking # "put" => getq = {}
    /\ ~Full /\ waking # "get" => putq = {}

\* A message queue is a queue, and wakes whom it has to.
QueueRight == TypeOK /\ Fifo /\ NoLostWakeup

\* A task in mq_get while there is an item.
Due(t) == at[t] = "get" /\ curcnt > 0
=============================================================================
