------------------------------- MODULE Mutex -------------------------------
(***************************************************************************)
(* Mutexes (src/kern/mutex.c) on task_suspend and task_resume.             *)
(*                                                                         *)
(* A mutex may be entered again by its owner.  mtx_leave wakes everybody;  *)
(* who runs first gets it, and a task that comes by may be faster than     *)
(* all of them.  The kernel is not preemptive: mtx_enter is one action up  *)
(* to its sleep.                                                           *)
(***************************************************************************)
EXTENDS Integers, FiniteSets

CONSTANTS Locker,    \* tasks that use the mutex
          NoTask,
          MaxCnt     \* bound: entries by one task

\* What the constants of an instance satisfy.
MutexAssumption == NoTask \notin Locker /\ MaxCnt \in Nat \ {0}

VARIABLES
    owner, lockcnt,
    tq,        \* tasks in the mutex's queue
    mtx_at,    \* "out" of mtx_enter, "sleep" in it, or "woken" and about to go on
    mtx_wait,  \* how a task in mtx_enter waits
    mtx_sig,   \* tasks with a signal pending
    held       \* entries of a task that it has not left

mutexVars == <<owner, lockcnt, tq, mtx_at, mtx_wait, mtx_sig, held>>

WaitKinds == {"no", "INTR", "NOINTR"}

MutexTypes ==
    /\ owner \in Locker \cup {NoTask}
    /\ lockcnt \in Nat
    /\ tq \in SUBSET Locker
    /\ mtx_at \in [Locker -> {"out", "sleep", "woken"}]
    /\ mtx_wait \in [Locker -> WaitKinds]
    /\ mtx_sig \in SUBSET Locker
    /\ held \in [Locker -> Nat]

\* mtx_init.
MutexInit ==
    /\ owner = NoTask
    /\ lockcnt = 0
    /\ tq = {}
    /\ mtx_at = [t \in Locker |-> "out"]
    /\ mtx_wait = [t \in Locker |-> "no"]
    /\ mtx_sig = {}
    /\ held = [t \in Locker |-> 0]

Takes(t) ==
    /\ owner' = t
    /\ lockcnt' = 1
    /\ held' = [held EXCEPT ![t] = @ + 1]
    /\ mtx_at' = [mtx_at EXCEPT ![t] = "out"]
    /\ UNCHANGED tq

GivesUp(t) ==
    /\ mtx_at' = [mtx_at EXCEPT ![t] = "out"]
    /\ UNCHANGED <<owner, lockcnt, tq, held>>

\* A round of the loop of mtx_enter, up to the sleep: EAGAIN, EINTR, or the mutex.
Loop(t, w) ==
    IF lockcnt = 0 THEN Takes(t)
    ELSE IF w = "no" \/ (w = "INTR" /\ t \in mtx_sig) THEN GivesUp(t)
    ELSE /\ mtx_at' = [mtx_at EXCEPT ![t] = "sleep"]
         /\ tq' = tq \cup {t}
         /\ UNCHANGED <<owner, lockcnt, held>>

mtx_enter(t, w) ==
    /\ mtx_at[t] = "out"
    /\ held[t] < MaxCnt
    /\ mtx_wait' = [mtx_wait EXCEPT ![t] = w]
    /\ UNCHANGED mtx_sig
    /\ IF owner = NoTask THEN Takes(t)
       ELSE IF owner = t
       THEN /\ lockcnt' = lockcnt + 1
            /\ held' = [held EXCEPT ![t] = @ + 1]
            /\ UNCHANGED <<owner, tq, mtx_at>>
       ELSE Loop(t, w)

\* A task that was woken goes on.
LoopAgain(t) ==
    /\ mtx_at[t] = "woken"
    /\ Loop(t, mtx_wait[t])
    /\ UNCHANGED <<mtx_wait, mtx_sig>>

\* Mutant: one sleeper is woken.
Woken_One == IF tq = {} THEN {} ELSE {CHOOSE t \in tq : TRUE}

\* Everybody in the queue is woken.
Woken == tq

mtx_leave(t) ==
    /\ mtx_at[t] = "out"
    /\ held[t] > 0
    /\ held' = [held EXCEPT ![t] = @ - 1]
    /\ lockcnt' = lockcnt - 1
    /\ UNCHANGED <<mtx_wait, mtx_sig>>
    /\ IF lockcnt > 1 THEN UNCHANGED <<owner, tq, mtx_at>>
       ELSE /\ owner' = NoTask
            /\ tq' = tq \ Woken
            /\ mtx_at' = [s \in Locker |-> IF s \in Woken THEN "woken" ELSE mtx_at[s]]

SignalEndsSleep(t) == mtx_at[t] = "sleep" /\ mtx_wait[t] = "INTR"

\* A signal is sent; and taken when the task is back in user mode.
Signalled(t) ==
    /\ t \notin mtx_sig
    /\ mtx_sig' = mtx_sig \cup {t}
    /\ tq' = IF SignalEndsSleep(t) THEN tq \ {t} ELSE tq
    /\ mtx_at' = IF SignalEndsSleep(t) THEN [mtx_at EXCEPT ![t] = "woken"] ELSE mtx_at
    /\ UNCHANGED <<owner, lockcnt, mtx_wait, held>>

SignalTaken(t) ==
    /\ t \in mtx_sig
    /\ mtx_at[t] = "out"
    /\ mtx_sig' = mtx_sig \ {t}
    /\ UNCHANGED <<owner, lockcnt, tq, mtx_at, mtx_wait, held>>

MutexNext ==
    \E t \in Locker :
        \/ \E w \in WaitKinds : mtx_enter(t, w)
        \/ LoopAgain(t)
        \/ mtx_leave(t)
        \/ Signalled(t)
        \/ SignalTaken(t)

MutexSpec == MutexInit /\ [][MutexNext]_mutexVars

----------------------------------------------------------------------------
(* Properties.                                                              *)

\* One task at most is between mtx_enter and mtx_leave, and the mutex knows it and
\* how often; mtx_leave never panics.
Exclusive ==
    /\ \A t \in Locker : held[t] = IF owner = t THEN lockcnt ELSE 0
    /\ owner = NoTask <=> lockcnt = 0

\* Nobody sleeps in the queue of a mutex that is free, and only there.
SleepersQueued ==
    /\ lockcnt = 0 => tq = {}
    /\ tq = {t \in Locker : mtx_at[t] = "sleep"}

\* A mutex excludes, and wakes whom it has to.
MutexRight == MutexTypes /\ Exclusive /\ SleepersQueued

\* A task in an interruptible mtx_enter that has got a signal.
Interrupted(t) == mtx_at[t] # "out" /\ mtx_wait[t] = "INTR" /\ t \in mtx_sig
=============================================================================
