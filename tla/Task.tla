-------------------------------- MODULE Task --------------------------------
(***************************************************************************)
(* The process core of the kernel: the task table, the run queues and the  *)
(* dispatcher (kern/task.c, kern/sched.c, kern/arch-i386/switch.S), fork   *)
(* (kern/fork.c), signals (kern/signal.c), the process system calls        *)
(* (kern/syscall.c) and the way back to user mode (intr_leave in           *)
(* kern/mach-i386-pc/intr.c).                                              *)
(*                                                                         *)
(* There is one processor.  Kernel code is never preempted by another      *)
(* task: tasks change only inside sched().  Interrupt handlers run between *)
(* any two kernel steps that have interrupts enabled.  So the model keeps  *)
(* one global `mode', the place the processor is at, and for every task    *)
(* that is off the processor `cont', the place its sched() returns to.     *)
(*                                                                         *)
(*   user    curr runs user code                                           *)
(*   leave   label "restart" of intr_leave, interrupts off                 *)
(*   stop    the loop `while (curr->stopped) task_suspend(NULL, ...)'      *)
(*   scan    the signal loop of signal_handle, at signal number sigpos     *)
(*   block   a device loop `while (not ready) task_suspend(tq, type)' that *)
(*           task_suspend has just returned to                             *)
(*   wake    a loop `while (t = task_dequeue(tq)) task_resume(t)'          *)
(*   kill    the loop of sys_kill over the task table                      *)
(*   exit    entry of task_exit                                            *)
(*   notify  task_exit after its children were given to init               *)
(*   fork    entry of after_fork          forked  after its signal_handle  *)
(*   new     new_task_entry                                                *)
(*   pick    sched() after `curr = NULL'                                   *)
(***************************************************************************)
EXTENDS Integers, Sequences, FiniteSets

CONSTANTS
    NTask,        \* TASK_MAX: slots of the task table; slot 1 holds init
    PrioLow,      \* TASK_PRIO_LOW: the lowest priority
    PrioUser,     \* TASK_PRIO_USER: the priority init starts with
    WaitQueue,    \* the wait queues, numbered above the ready queues
    XWaitQ,       \* the queue sys___xwait sleeps on
    NoIntrQ,      \* the wait queues whose sleepers use WAIT_NOINTR
    TimeSlice,    \* TIME_SLICE
    SliceMax,     \* TIME_SLICE_MAX
    SliceDebt,    \* bound: ticks that take a slice below -SliceDebt are not explored
    Calls,        \* the system calls that programs make
    Faults,       \* the calls that may fail half way: "fork", "exec", "newtask"
    KillSig,      \* the signals that programs send with kill()
    TrapSig,      \* the signals that programs set a disposition for
    NiceInc       \* the increments that programs pass to nice()

SIGKILL == 9
SIGSTOP == 10
SIGCONT == 12
SIGALRM == 14
SIGCHLD == 18
SIGEXEC == 30
SIGOOM  == 32
Sig     == {SIGKILL, SIGSTOP, SIGCONT, SIGALRM, SIGCHLD, SIGEXEC, SIGOOM}

Slot       == 1..NTask
init       == 1
NoTask     == 0
ReadyQueue == 0..PrioLow
Queue      == ReadyQueue \cup WaitQueue
NoQueue    == -1

WAIT_NOINTR == 1
WAIT_INTR   == 2

Mode == {"user", "leave", "stop", "scan", "block", "wake", "kill", "exit",
         "notify", "fork", "forked", "new", "pick"}
Cont == {"leave", "stop", "block", "fork", "new"}
Disposition == {"IGN", "DFL", "FN"}

ASSUME TaskAssumption ==
    /\ NTask \in Nat \ {0}
    /\ PrioLow \in Nat /\ PrioUser \in 0..PrioLow
    /\ WaitQueue \subseteq Nat /\ WaitQueue \cap (0..PrioLow) = {}
    /\ XWaitQ \in WaitQueue
    /\ NoIntrQ \subseteq WaitQueue \ {XWaitQ}
    /\ TimeSlice \in Nat \ {0} /\ SliceMax \in Nat /\ TimeSlice <= SliceMax
    /\ SliceDebt \in Nat
    /\ KillSig \subseteq Sig \ {SIGALRM}   \* a second SIGALRM would end init
    /\ TrapSig \subseteq Sig
    /\ NiceInc \subseteq Int

VARIABLES
    used,         \* task[i] != NULL
    exited, paused, stopped, prio, slice, parent, exec,   \* fields of struct task
    armed,        \* task->alarm != 0
    handler, received, pending,                           \* its signal state
    queue,        \* task->queue, the queue the task believes it is on
    q,            \* the queues themselves, first to last
    cont,         \* where the task's sched() returns to
    bq,           \* the queue its device loop sleeps on
    wpid,         \* the child it waits for in sys___xwait (NoTask: any)
    curr, task_count, task_pcount, resched,
    mode,
    sigpos, sigret,  \* signal_handle: next signal number, and its caller
    wakeq,           \* the queue a wake loop of curr drains
    irq,             \* the queue an interrupt handler is draining
    targets, killsig,\* sys_kill: the slots still to signal, and the signal
    panic            \* a call of panic() was reached

tabvars   == <<used, exited, parent, exec, armed, prio, cont, bq, wpid>>
runvars   == <<paused, slice, queue, q, task_pcount, resched>>
sigvars   == <<handler, received, pending, stopped>>
loopvars  == <<sigpos, sigret, wakeq, targets, killsig>>
vars == <<tabvars, runvars, sigvars, loopvars, curr, task_count, mode, irq, panic>>

-----------------------------------------------------------------------------
(* Queues.  A queue is the list of its tasks; task->queue points back.     *)

\* task_remove: the list without t, which may stand anywhere in it.
Without(s, t) ==
    LET k == CHOOSE i \in 1..Len(s) : s[i] = t
    IN  [i \in 1..(Len(s) - 1) |-> IF i < k THEN s[i] ELSE s[i + 1]]

\* The queues after task_remove(t), if t is on one.
Removed(t) ==
    IF queue[t] = NoQueue THEN q ELSE [q EXCEPT ![queue[t]] = Without(@, t)]

\* Mutant: insertion at the head.
Inserted_Head(qs, tq, t) == [qs EXCEPT ![tq] = <<t>> \o @]

\* task_insert at the tail of tq.
Inserted(qs, tq, t) == [qs EXCEPT ![tq] = Append(@, t)]

\* task_insert panics when the task is still on a queue.
InsertPanics(t) == queue[t] # NoQueue

\* Mutant: task_pcount is not decremented.
TaskResume_NoCount(t) ==
    IF paused[t] # 0
    THEN /\ slice' = [slice EXCEPT ![t] = TimeSlice]
         /\ paused' = [paused EXCEPT ![t] = 0]
         /\ q' = IF t # curr THEN Inserted(Removed(t), prio[t], t) ELSE Removed(t)
         /\ queue' = [queue EXCEPT ![t] = IF t # curr THEN prio[t] ELSE NoQueue]
         /\ resched' = (resched \/ (curr # NoTask /\ prio[t] < prio[curr]))
         /\ UNCHANGED <<task_pcount, panic>>
    ELSE UNCHANGED <<runvars, panic>>

\* task_resume(t): a sleeping task leaves its queue and becomes ready.
TaskResume(t) ==
    IF paused[t] # 0
    THEN /\ slice' = [slice EXCEPT ![t] = TimeSlice]
         /\ paused' = [paused EXCEPT ![t] = 0]
         /\ task_pcount' = task_pcount - 1
         /\ q' = IF t # curr THEN Inserted(Removed(t), prio[t], t) ELSE Removed(t)
         /\ queue' = [queue EXCEPT ![t] = IF t # curr THEN prio[t] ELSE NoQueue]
         /\ resched' = (resched \/ (curr # NoTask /\ prio[t] < prio[curr]))
         /\ panic' = (panic \/ exited[t] \/ task_pcount < 1)
    ELSE /\ UNCHANGED runvars
         /\ panic' = (panic \/ exited[t])

\* sched() called by curr, which is neither paused nor exited; the call returns
\* to c.  The shortcut keeps the processor when everybody else sleeps.
SchedRunnable(c) ==
    IF task_pcount + 1 = task_count
    THEN /\ slice' = [slice EXCEPT ![curr] = TimeSlice]
         /\ mode' = c
         /\ resched' = FALSE
         /\ UNCHANGED <<paused, task_pcount, q, queue, cont, curr, panic>>
    ELSE /\ q' = Inserted(q, prio[curr], curr)
         /\ queue' = [queue EXCEPT ![curr] = prio[curr]]
         /\ panic' = (panic \/ InsertPanics(curr))
         /\ cont' = [cont EXCEPT ![curr] = c]
         /\ curr' = NoTask
         /\ mode' = "pick"
         /\ resched' = FALSE
         /\ UNCHANGED <<paused, task_pcount, slice>>

\* Mutant: the test for pending signals is missing.
Interrupted_Never(type) == FALSE

\* A pending signal makes an interruptible sleep fail, unless the task is stopped.
Interrupted(type) == pending[curr] /\ ~stopped[curr] /\ type = WAIT_INTR

\* task_suspend(tq, type): when sched() comes back it continues at c; EINTR
\* continues at e.
TaskSuspend(tq, type, c, e) ==
    IF Interrupted(type)
    THEN /\ mode' = e
         /\ UNCHANGED <<runvars, cont, curr>>
         /\ panic' = (panic \/ paused[curr] # 0)
    ELSE /\ paused' = [paused EXCEPT ![curr] = type]
         /\ task_pcount' = task_pcount + 1
         /\ IF tq = NoQueue
            THEN UNCHANGED <<q, queue>>
            ELSE /\ q' = Inserted(q, tq, curr)
                 /\ queue' = [queue EXCEPT ![curr] = tq]
         /\ panic' = (panic \/ paused[curr] # 0 \/ (tq # NoQueue /\ InsertPanics(curr)))
         /\ cont' = [cont EXCEPT ![curr] = c]
         /\ curr' = NoTask
         /\ mode' = "pick"
         /\ resched' = FALSE
         /\ UNCHANGED slice

-----------------------------------------------------------------------------
(* Signals.                                                                *)

\* Mutant: signals wake the sleepers they must not wake, and no others.
SignalWakes_NoIntr(t) == paused[t] = WAIT_NOINTR

\* signal_send_k wakes interruptible sleepers only.
SignalWakes(t) == paused[t] = WAIT_INTR

\* signal_send_k(t, s).
SignalSend(t, s) ==
    IF exited[t] \/ handler[t][s] = "IGN"
    THEN UNCHANGED <<runvars, received, pending, stopped, panic>>
    ELSE /\ stopped' = [stopped EXCEPT ![t] = (@ /\ s \notin {SIGCONT, SIGKILL}) \/ s = SIGSTOP]
         /\ received' = [received EXCEPT ![t] = @ \cup {s}]
         /\ pending' = [pending EXCEPT ![t] = TRUE]
         /\ IF SignalWakes(t)
            THEN TaskResume(t)
            ELSE UNCHANGED <<runvars, panic>>

\* signal_default: these signals do nothing by default, all others call task_exit.
HarmlessSig == {SIGSTOP, SIGCONT, SIGCHLD}

\* The loops over the task table that look for the children of a task.
Children(t) == {c \in Slot : used[c] /\ parent[c] = t}
Zombies(t)  == {c \in Children(t) : exited[c]}

-----------------------------------------------------------------------------
(* Initial state: main() has booted and init runs its loop: the signals    *)
(* are ignored as task_init leaves them, except those init.c turns on.     *)

Init ==
    /\ used = [t \in Slot |-> t = init]
    /\ exited = [t \in Slot |-> FALSE]
    /\ paused = [t \in Slot |-> 0]
    /\ stopped = [t \in Slot |-> FALSE]
    /\ prio = [t \in Slot |-> PrioUser]
    /\ slice = [t \in Slot |-> 0]
    /\ parent = [t \in Slot |-> init]
    /\ exec = [t \in Slot |-> FALSE]
    /\ armed = [t \in Slot |-> FALSE]
    /\ handler = [t \in Slot |-> [s \in Sig |->
                    IF t # init \/ s \in {SIGCHLD, SIGCONT} THEN "DFL"
                    ELSE IF s = SIGALRM THEN "FN" ELSE "IGN"]]
    /\ received = [t \in Slot |-> {}]
    /\ pending = [t \in Slot |-> FALSE]
    /\ queue = [t \in Slot |-> NoQueue]
    /\ q = [c \in Queue |-> <<>>]
    /\ cont = [t \in Slot |-> "leave"]
    /\ bq = [t \in Slot |-> NoQueue]
    /\ wpid = [t \in Slot |-> NoTask]
    /\ curr = init /\ task_count = 1 /\ task_pcount = 0 /\ resched = FALSE
    /\ mode = "user"
    /\ sigpos = 0 /\ sigret = "leave"
    /\ wakeq = NoQueue /\ irq = NoQueue
    /\ targets = {} /\ killsig = SIGCONT
    /\ panic = FALSE

-----------------------------------------------------------------------------
(* The way back to user mode: intr_leave.                                  *)

At(m) == irq = NoQueue /\ mode = m

LeaveSignal ==
    /\ At("leave") /\ pending[curr]
    /\ pending' = [pending EXCEPT ![curr] = FALSE]
    /\ mode' = "scan" /\ sigpos' = 1 /\ sigret' = "leave"
    /\ UNCHANGED <<tabvars, runvars, handler, received, stopped, wakeq, targets,
                   killsig, curr, task_count, irq, panic>>

\* The stop loop, entered from "restart" with no signal left, or continued
\* after a sleep in it: task_suspend refuses nothing while the task is stopped.
LeaveStop ==
    /\ At("leave") \/ At("stop")
    /\ mode = "leave" => ~pending[curr]
    /\ stopped[curr]
    /\ TaskSuspend(NoQueue, WAIT_INTR, "stop", "stop")
    /\ UNCHANGED <<used, exited, parent, exec, armed, prio, bq, wpid, sigvars, loopvars,
                   task_count, irq>>

\* The task was continued: the rest of intr_leave tests the signals again first.
StopOver ==
    /\ At("stop") /\ ~stopped[curr]
    /\ mode' = "leave"
    /\ UNCHANGED <<tabvars, runvars, sigvars, loopvars, curr, task_count, irq, panic>>

LeaveSched ==
    /\ At("leave") /\ ~pending[curr] /\ ~stopped[curr] /\ resched
    /\ SchedRunnable("leave")
    /\ UNCHANGED <<used, exited, parent, exec, armed, prio, bq, wpid, sigvars, loopvars,
                   task_count, irq>>

\* do_exec: the new image keeps ignored signals and loses its handlers.
DoExec(t) ==
    [handler EXCEPT ![t] = [s \in Sig |-> IF @[s] = "IGN" THEN "IGN" ELSE "DFL"]]

LeaveExec(ok) ==
    /\ At("leave") /\ ~pending[curr] /\ ~stopped[curr] /\ ~resched /\ exec[curr]
    /\ exec' = [exec EXCEPT ![curr] = FALSE]
    /\ armed' = [armed EXCEPT ![curr] = FALSE]
    /\ handler' = IF ok THEN DoExec(curr)
                  ELSE [DoExec(curr) EXCEPT ![curr][SIGEXEC] = "DFL"]
    /\ received' = IF ok THEN received
                   ELSE [received EXCEPT ![curr] = @ \cup {SIGEXEC}]
    /\ pending' = [pending EXCEPT ![curr] = @ \/ ~ok]
    /\ UNCHANGED <<used, exited, parent, prio, cont, bq, wpid, runvars, stopped,
                   loopvars, curr, task_count, mode, irq, panic>>

LeaveUser ==
    /\ At("leave") /\ ~pending[curr] /\ ~stopped[curr] /\ ~resched /\ ~exec[curr]
    /\ mode' = "user"
    /\ UNCHANGED <<tabvars, runvars, sigvars, loopvars, curr, task_count, irq, panic>>

-----------------------------------------------------------------------------
(* signal_handle: one iteration of its loops per step; interrupts are on.  *)

DueSigs == {s \in received[curr] : s >= sigpos}

\* Mutant: signal_pending is cleared after the loop instead of before it.
ScanDone_LateClear ==
    /\ At("scan") /\ DueSigs = {}
    /\ mode' = sigret /\ sigpos' = 0
    /\ pending' = [pending EXCEPT ![curr] = FALSE]
    /\ UNCHANGED <<tabvars, runvars, handler, received, stopped, sigret, wakeq,
                   targets, killsig, curr, task_count, irq, panic>>

ScanDone ==
    /\ At("scan") /\ DueSigs = {}
    /\ IF pending[curr]
       THEN /\ pending' = [pending EXCEPT ![curr] = FALSE]
            /\ sigpos' = 1
            /\ UNCHANGED mode
       ELSE /\ mode' = sigret
            /\ sigpos' = 0
            /\ UNCHANGED pending
    /\ UNCHANGED <<tabvars, runvars, handler, received, stopped, sigret, wakeq,
                   targets, killsig, curr, task_count, irq, panic>>

\* The signal the loop meets next is cleared and then ignored, dispatched (its
\* handler runs once and is reset) or, by default, may end the task.
ScanSignal ==
    /\ At("scan")
    /\ \E s \in DueSigs :
         /\ \A r \in DueSigs : s <= r
         /\ received' = [received EXCEPT ![curr] = @ \ {s}]
         /\ handler' = IF handler[curr][s] = "FN"
                       THEN [handler EXCEPT ![curr][s] = "DFL"] ELSE handler
         /\ IF handler[curr][s] = "DFL" /\ s \notin HarmlessSig
            THEN mode' = "exit" /\ sigpos' = 0
            ELSE UNCHANGED mode /\ sigpos' = s + 1
    /\ UNCHANGED <<tabvars, runvars, pending, stopped, sigret, wakeq, targets,
                   killsig, curr, task_count, irq, panic>>

-----------------------------------------------------------------------------
(* task_exit.                                                              *)

\* init must not exit; otherwise the children go to init, which is told if one
\* of them is already dead.
ExitChildren ==
    /\ At("exit")
    /\ IF curr = init
       THEN /\ panic' = TRUE
            /\ UNCHANGED <<mode, parent, runvars, received, pending, stopped>>
       ELSE /\ mode' = "notify"
            /\ parent' = [c \in Slot |-> IF c \in Children(curr) THEN init ELSE parent[c]]
            /\ IF Zombies(curr) # {}
               THEN SignalSend(init, SIGCHLD)
               ELSE UNCHANGED <<runvars, received, pending, stopped, panic>>
    /\ UNCHANGED <<used, exited, exec, armed, prio, cont, bq, wpid, handler, loopvars,
                   curr, task_count, irq>>

\* Who gets the dead task: its parent, or init when the parent ignores SIGCHLD.
Heir == IF handler[parent[curr]][SIGCHLD] # "IGN" THEN parent[curr] ELSE init

\* The heir is told; then the task is dead and sched() never returns to it.
ExitNotify ==
    /\ At("notify")
    /\ parent' = [parent EXCEPT ![curr] = Heir]
    /\ SignalSend(Heir, SIGCHLD)
    /\ task_count' = task_count - 1
    /\ exited' = [exited EXCEPT ![curr] = TRUE]
    /\ curr' = NoTask
    /\ mode' = "pick"
    /\ UNCHANGED <<used, exec, armed, prio, cont, bq, wpid, handler, loopvars, irq>>

-----------------------------------------------------------------------------
(* sched() after `curr = NULL': the dispatcher.  While every task sleeps   *)
(* the processor halts and only interrupts happen.                         *)

\* Mutant: the scan of the ready queues stops one short.
NonEmpty_Short == {p \in ReadyQueue : p < PrioLow /\ q[p] # <<>>}

NonEmpty == {p \in ReadyQueue : q[p] # <<>>}

\* The head of the first non-empty ready queue; its slice grows by TIME_SLICE,
\* and a task whose slice is still negative goes back to the tail.
Dispatch(p) ==
    LET next == Head(q[p])
        s    == IF slice[next] + TimeSlice > SliceMax THEN SliceMax
                ELSE slice[next] + TimeSlice
        q1   == [q EXCEPT ![p] = Tail(@)]
    IN  /\ slice' = [slice EXCEPT ![next] = s]
        /\ IF s < 0
           THEN /\ q' = Inserted(q1, prio[next], next)
                /\ queue' = [queue EXCEPT ![next] = prio[next]]
                /\ UNCHANGED <<curr, mode, cont, wpid, panic>>
           ELSE /\ q' = q1
                /\ queue' = [queue EXCEPT ![next] = NoQueue]
                /\ curr' = next
                /\ mode' = cont[next]
                /\ cont' = [cont EXCEPT ![next] = "leave"]
                /\ wpid' = [wpid EXCEPT ![next] = NoTask]
                /\ panic' = (panic \/ exited[next] \/ paused[next] # 0)

Pick ==
    /\ At("pick") /\ task_count # task_pcount
    /\ IF NonEmpty = {}
       THEN /\ panic' = TRUE
            /\ UNCHANGED <<slice, q, queue, curr, mode, cont, wpid>>
       ELSE \E p \in NonEmpty : (\A r \in NonEmpty : p <= r) /\ Dispatch(p)
    /\ resched' = FALSE
    /\ UNCHANGED <<used, exited, parent, exec, armed, prio, bq, paused, task_pcount,
                   sigvars, loopvars, task_count, irq>>

-----------------------------------------------------------------------------
(* First steps of a new task.                                              *)

\* after_fork handles signals and reschedules but does not look at `stopped'.
AfterFork ==
    /\ At("fork")
    /\ IF pending[curr]
       THEN /\ pending' = [pending EXCEPT ![curr] = FALSE]
            /\ mode' = "scan" /\ sigpos' = 1 /\ sigret' = "forked"
       ELSE /\ mode' = "forked"
            /\ UNCHANGED <<pending, sigpos, sigret>>
    /\ UNCHANGED <<tabvars, runvars, handler, received, stopped, wakeq, targets,
                   killsig, curr, task_count, irq, panic>>

AfterForkSched ==
    /\ At("forked") /\ resched
    /\ SchedRunnable("fork")
    /\ UNCHANGED <<used, exited, parent, exec, armed, prio, bq, wpid, sigvars, loopvars,
                   task_count, irq>>

AfterForkUser ==
    /\ At("forked") /\ ~resched
    /\ mode' = "user"
    /\ UNCHANGED <<tabvars, runvars, sigvars, loopvars, curr, task_count, irq, panic>>

\* new_task_entry: do_exec, and task_exit(SIGEXEC) when it fails.
NewTaskEntry(ok) ==
    /\ At("new")
    /\ handler' = DoExec(curr)
    /\ exec' = [exec EXCEPT ![curr] = FALSE]
    /\ armed' = [armed EXCEPT ![curr] = FALSE]
    /\ mode' = IF ok THEN "user" ELSE "exit"
    /\ UNCHANGED <<used, exited, parent, prio, cont, bq, wpid, runvars, received, pending,
                   stopped, loopvars, curr, task_count, irq, panic>>

-----------------------------------------------------------------------------
(* System calls of curr.  Each one ends in intr_leave.  What a call does   *)
(* to files, memory and windows is outside this module.                    *)

FreeSlot(t) == ~used[t] /\ \A u \in Slot : ~used[u] => t <= u

\* do_fork: the child is queued at priority 0, the value of a cleared slot, and
\* only then takes its parent's priority.  When copying the memory fails the
\* child is there all the same and is sent SIGOOM.
SysFork(t, ok) ==
    /\ At("user") /\ FreeSlot(t)
    /\ used' = [used EXCEPT ![t] = TRUE]
    /\ task_count' = task_count + 1
    /\ q' = Inserted(q, 0, t)
    /\ queue' = [queue EXCEPT ![t] = 0]
    /\ panic' = (panic \/ InsertPanics(t))
    /\ parent' = [parent EXCEPT ![t] = curr]
    /\ prio' = [prio EXCEPT ![t] = prio[curr]]
    /\ slice' = [slice EXCEPT ![t] = 0]
    /\ cont' = [cont EXCEPT ![t] = "fork"]
    /\ handler' = [handler EXCEPT ![t] =
                     [s \in Sig |-> IF ~ok /\ s = SIGOOM /\ handler[curr][s] = "IGN"
                                    THEN "DFL" ELSE handler[curr][s]]]
    /\ received' = [received EXCEPT ![t] = IF ok THEN received[curr]
                                           ELSE received[curr] \cup {SIGOOM}]
    /\ pending' = [pending EXCEPT ![t] = pending[curr] \/ ~ok]
    /\ mode' = "leave"
    /\ UNCHANGED <<exited, exec, armed, bq, wpid, paused, task_pcount, resched, stopped,
                   loopvars, curr, irq>>

\* task_creat: the new task starts as a copy of curr with no signals pending.
SysNewtask(t) ==
    /\ At("user") /\ FreeSlot(t)
    /\ used' = [used EXCEPT ![t] = TRUE]
    /\ task_count' = task_count + 1
    /\ q' = Inserted(q, prio[curr], t)
    /\ queue' = [queue EXCEPT ![t] = prio[curr]]
    /\ panic' = (panic \/ InsertPanics(curr))
    /\ parent' = [parent EXCEPT ![t] = curr]
    /\ prio' = [prio EXCEPT ![t] = prio[curr]]
    /\ slice' = [slice EXCEPT ![t] = -1]
    /\ cont' = [cont EXCEPT ![t] = "new"]
    /\ handler' = [handler EXCEPT ![t] =
                     [s \in Sig |-> IF handler[curr][s] = "IGN" THEN "IGN" ELSE "DFL"]]
    /\ received' = [received EXCEPT ![t] = {s \in received[curr] : handler[curr][s] = "IGN"}]
    /\ stopped' = [stopped EXCEPT ![t] = stopped[curr]]
    /\ exec' = [exec EXCEPT ![t] = exec[curr]]
    /\ mode' = "leave"
    /\ UNCHANGED <<exited, armed, bq, wpid, paused, task_pcount, resched, pending,
                   loopvars, curr, irq>>

\* exit().  init never calls it.
SysExit ==
    /\ At("user") /\ curr # init
    /\ mode' = "exit"
    /\ UNCHANGED <<tabvars, runvars, sigvars, loopvars, curr, task_count, irq, panic>>

\* sys___xwait for the child w, or for any child, finds a dead one: task_putslot.
\* The fields of a free slot are cleared when it is taken again; here at once.
SysWaitReap(w, z) ==
    /\ At("user")
    /\ z \in Zombies(curr) /\ w \in {NoTask, z}
    /\ w = NoTask => \A c \in Zombies(curr) : z <= c
    /\ used' = [used EXCEPT ![z] = FALSE]
    /\ exited' = [exited EXCEPT ![z] = FALSE]
    /\ parent' = [parent EXCEPT ![z] = init]
    /\ exec' = [exec EXCEPT ![z] = FALSE]
    /\ armed' = [armed EXCEPT ![z] = FALSE]
    /\ prio' = [prio EXCEPT ![z] = PrioUser]
    /\ slice' = [slice EXCEPT ![z] = 0]
    /\ cont' = [cont EXCEPT ![z] = "leave"]
    /\ bq' = [bq EXCEPT ![z] = NoQueue]
    /\ wpid' = [wpid EXCEPT ![z] = NoTask]
    /\ handler' = [handler EXCEPT ![z] = [s \in Sig |-> "DFL"]]
    /\ received' = [received EXCEPT ![z] = {}]
    /\ pending' = [pending EXCEPT ![z] = FALSE]
    /\ stopped' = [stopped EXCEPT ![z] = FALSE]
    /\ mode' = "leave"
    /\ UNCHANGED <<paused, queue, q, task_pcount, resched, loopvars, curr, task_count,
                   irq, panic>>

\* It has children but no dead one among those asked for: one sleep, then EINTR.
SysWaitSleep(w) ==
    /\ At("user")
    /\ w \in Children(curr) \cup {NoTask}
    /\ Children(curr) # {}
    /\ IF w = NoTask THEN Zombies(curr) = {} ELSE w \notin Zombies(curr)
    /\ wpid' = [wpid EXCEPT ![curr] = w]
    /\ TaskSuspend(XWaitQ, WAIT_INTR, "leave", "leave")
    /\ UNCHANGED <<used, exited, parent, exec, armed, prio, bq, sigvars, loopvars,
                   task_count, irq>>

\* sys_kill(pid, sig) for one task, and for -1 every task but the caller and init.
SysKill(ts, s) ==
    /\ At("user")
    /\ ts # {}
    /\ mode' = "kill" /\ targets' = ts /\ killsig' = s
    /\ UNCHANGED <<tabvars, runvars, sigvars, sigpos, sigret, wakeq, curr, task_count,
                   irq, panic>>

KillTargets == {{t} : t \in {u \in Slot : used[u]}}
               \cup {{u \in Slot : used[u]} \ {curr, init}}

KillNext ==
    /\ At("kill")
    /\ \E t \in targets :
         /\ \A u \in targets : t <= u
         /\ SignalSend(t, killsig)
         /\ targets' = targets \ {t}
         /\ IF targets = {t} THEN mode' = "leave" /\ killsig' = SIGCONT
                             ELSE UNCHANGED <<mode, killsig>>
    /\ UNCHANGED <<tabvars, handler, sigpos, sigret, wakeq, curr, task_count, irq>>

\* sys_signal with its setup_chld.  SIGKILL and SIGSTOP take only the default,
\* SIGCONT cannot be ignored.  init sets only the handler of its sync timer.
SysSignal(s, d) ==
    LET h == IF s = SIGCONT /\ d = "IGN" THEN "DFL" ELSE d
    IN
    /\ At("user")
    /\ s \in {SIGKILL, SIGSTOP} => d = "DFL"
    /\ curr = init => s = SIGALRM /\ d = "FN"
    /\ handler' = [handler EXCEPT ![curr][s] = h]
    /\ mode' = "leave"
    /\ IF s = SIGCHLD /\ h = "IGN" /\ Zombies(curr) # {}
       THEN /\ parent' = [c \in Slot |-> IF c \in Zombies(curr) THEN init ELSE parent[c]]
            /\ SignalSend(init, SIGCHLD)
       ELSE /\ IF s = SIGCHLD /\ h = "FN" /\ Zombies(curr) # {}
               THEN /\ received' = [received EXCEPT ![curr] = @ \cup {SIGCHLD}]
                    /\ pending' = [pending EXCEPT ![curr] = TRUE]
               ELSE UNCHANGED <<received, pending>>
            /\ UNCHANGED <<parent, runvars, stopped, panic>>
    /\ UNCHANGED <<used, exited, exec, armed, prio, cont, bq, wpid, loopvars, curr,
                   task_count, irq>>

\* Mutant: the bounds are not applied.
NicePrio_Unbounded(p, inc) == p + inc

\* sys_nice keeps the new priority within bounds.
NicePrio(p, inc) ==
    IF p + inc > PrioLow THEN PrioLow ELSE IF p + inc < 0 THEN 0 ELSE p + inc

\* sys_nice with task_set_prio.
SysNice(inc) ==
    /\ At("user")
    /\ prio' = [prio EXCEPT ![curr] = NicePrio(@, inc)]
    /\ mode' = "leave"
    /\ UNCHANGED <<used, exited, parent, exec, armed, cont, bq, wpid, runvars, sigvars,
                   loopvars, curr, task_count, irq, panic>>

SysPause ==
    /\ At("user")
    /\ TaskSuspend(NoQueue, WAIT_INTR, "leave", "leave")
    /\ UNCHANGED <<used, exited, parent, exec, armed, prio, bq, wpid, sigvars, loopvars,
                   task_count, irq>>

\* alarm() and ualarm(); init arms its timer only with the handler in place.
SysAlarm(on) ==
    /\ At("user")
    /\ curr = init => handler[init][SIGALRM] = "FN"
    /\ armed' = [armed EXCEPT ![curr] = on]
    /\ mode' = "leave"
    /\ UNCHANGED <<used, exited, parent, exec, prio, cont, bq, wpid, runvars, sigvars,
                   loopvars, curr, task_count, irq, panic>>

\* sys__exec with task_exec: the image is replaced on the way back to user mode.
SysExec ==
    /\ At("user") /\ curr # init
    /\ exec' = [exec EXCEPT ![curr] = TRUE]
    /\ mode' = "leave"
    /\ UNCHANGED <<used, exited, parent, armed, prio, cont, bq, wpid, runvars, sigvars,
                   loopvars, curr, task_count, irq, panic>>

(* A call that waits for a device, a pipe, a terminal or a mutex, and one  *)
(* that wakes those waiting.  Whether the wait is over is up to the caller.*)

WaitType(c) == IF c \in NoIntrQ THEN WAIT_NOINTR ELSE WAIT_INTR

SysBlock(c) ==
    /\ At("user")
    /\ TaskSuspend(c, WaitType(c), "block", "leave")
    /\ bq' = [bq EXCEPT ![curr] = c]
    /\ UNCHANGED <<used, exited, parent, exec, armed, prio, wpid, sigvars, loopvars,
                   task_count, irq>>

BlockAgain ==
    /\ At("block")
    /\ TaskSuspend(bq[curr], WaitType(bq[curr]), "block", "leave")
    /\ UNCHANGED <<used, exited, parent, exec, armed, prio, bq, wpid, sigvars, loopvars,
                   task_count, irq>>

BlockOver ==
    /\ At("block")
    /\ mode' = "leave"
    /\ bq' = [bq EXCEPT ![curr] = NoQueue]
    /\ UNCHANGED <<used, exited, parent, exec, armed, prio, cont, wpid, runvars, sigvars, loopvars, curr, task_count, irq, panic>>

SysWake(c) ==
    /\ At("user")
    /\ mode' = "wake" /\ wakeq' = c
    /\ UNCHANGED <<tabvars, runvars, sigvars, sigpos, sigret, targets, killsig, curr,
                   task_count, irq, panic>>

WakeNext ==
    /\ At("wake")
    /\ IF q[wakeq] = <<>>
       THEN /\ mode' = "leave" /\ wakeq' = NoQueue
            /\ UNCHANGED <<runvars, panic>>
       ELSE /\ TaskResume(Head(q[wakeq]))
            /\ UNCHANGED <<mode, wakeq>>
    /\ UNCHANGED <<tabvars, sigvars, sigpos, sigret, targets, killsig, curr, task_count, irq>>

-----------------------------------------------------------------------------
(* Interrupts.  They come in every mode but intr_leave's own; one that     *)
(* interrupts user code goes through intr_leave.                           *)

IntrOn == irq = NoQueue /\ mode \notin {"leave", "stop"}
AfterIntr == IF mode = "user" THEN "leave" ELSE mode

\* clock_intr charges the running task.
ClockTick ==
    /\ IntrOn /\ curr # NoTask /\ slice[curr] > -SliceDebt
    /\ slice' = [slice EXCEPT ![curr] = @ - 1]
    /\ resched' = (resched \/ slice[curr] - 1 < 0)
    /\ mode' = AfterIntr
    /\ UNCHANGED <<tabvars, paused, queue, q, task_pcount, sigvars, loopvars, curr,
                   task_count, irq, panic>>

\* Mutant: a one-shot alarm that went off stays armed.
ClockAlarm_NotCleared(t, repeat) ==
    /\ IntrOn /\ used[t] /\ armed[t]
    /\ SignalSend(t, SIGALRM)
    /\ mode' = AfterIntr
    /\ UNCHANGED <<tabvars, handler, loopvars, curr, task_count, irq>>

\* clock_intr finds an alarm due; a repeating one stays armed.
ClockAlarm(t, repeat) ==
    /\ IntrOn /\ used[t] /\ armed[t]
    /\ t = init => ~repeat
    /\ SignalSend(t, SIGALRM)
    /\ armed' = [armed EXCEPT ![t] = repeat]
    /\ mode' = AfterIntr
    /\ UNCHANGED <<used, exited, parent, exec, prio, cont, bq, wpid, handler, loopvars, curr,
                   task_count, irq>>

\* A device interrupt handler that wakes everybody on its queue.
IntrBegin(c) ==
    /\ IntrOn
    /\ irq' = c
    /\ UNCHANGED <<tabvars, runvars, sigvars, loopvars, curr, task_count, mode, panic>>

IntrWake ==
    /\ irq # NoQueue
    /\ IF q[irq] = <<>>
       THEN /\ irq' = NoQueue /\ mode' = AfterIntr
            /\ UNCHANGED <<runvars, panic>>
       ELSE /\ TaskResume(Head(q[irq]))
            /\ UNCHANGED <<irq, mode>>
    /\ UNCHANGED <<tabvars, sigvars, loopvars, curr, task_count>>

-----------------------------------------------------------------------------
\* The outcomes of a call that may fail.
Outcome(call) == IF call \in Faults THEN BOOLEAN ELSE {TRUE}

Return ==
    \/ LeaveSignal \/ LeaveStop \/ StopOver \/ LeaveSched \/ LeaveUser
    \/ \E ok \in Outcome("exec") : LeaveExec(ok)
    \/ ScanDone \/ ScanSignal

Kernel ==
    \/ Return
    \/ ExitChildren \/ ExitNotify
    \/ Pick
    \/ AfterFork \/ AfterForkSched \/ AfterForkUser
    \/ \E ok \in Outcome("newtask") : NewTaskEntry(ok)
    \/ KillNext \/ BlockAgain \/ BlockOver \/ WakeNext

Syscall ==
    \/ "fork" \in Calls /\ \E t \in Slot, ok \in Outcome("fork") : SysFork(t, ok)
    \/ "newtask" \in Calls /\ \E t \in Slot : SysNewtask(t)
    \/ SysExit
    \/ "pause" \in Calls /\ SysPause
    \/ "exec" \in Calls /\ SysExec
    \/ "wait" \in Calls /\ \E w \in Slot \cup {NoTask} :
          SysWaitSleep(w) \/ \E z \in Slot : SysWaitReap(w, z)
    \/ \E ts \in KillTargets, s \in KillSig : SysKill(ts, s)
    \/ \E s \in TrapSig, d \in Disposition : SysSignal(s, d)
    \/ \E inc \in NiceInc : SysNice(inc)
    \/ "alarm" \in Calls /\ \E on \in BOOLEAN : SysAlarm(on)
    \/ \E c \in WaitQueue \ {XWaitQ} : SysBlock(c) \/ SysWake(c)

Interrupt ==
    \/ ClockTick
    \/ \E t \in Slot, repeat \in BOOLEAN : ClockAlarm(t, repeat)
    \/ \E c \in WaitQueue \ {XWaitQ} : IntrBegin(c)
    \/ IntrWake

Next == Kernel \/ Syscall \/ Interrupt

Spec == Init /\ [][Next]_vars

\* Interrupt handlers end; kernel code runs on between interrupts, however many
\* there are; the timer keeps ticking.  User code owes nothing.
FairSpec ==
    Spec /\ SF_vars(Kernel) /\ WF_vars(IntrWake) /\ SF_vars(ClockTick)

-----------------------------------------------------------------------------
(* Properties.                                                             *)

Alive(t)    == used[t] /\ ~exited[t]
Sleeping(t) == paused[t] # 0

TypeOK ==
    /\ used \in [Slot -> BOOLEAN] /\ exited \in [Slot -> BOOLEAN]
    /\ paused \in [Slot -> {0, WAIT_NOINTR, WAIT_INTR}]
    /\ stopped \in [Slot -> BOOLEAN]
    /\ prio \in [Slot -> ReadyQueue] /\ slice \in [Slot -> Int]
    /\ parent \in [Slot -> Slot]
    /\ exec \in [Slot -> BOOLEAN] /\ armed \in [Slot -> BOOLEAN]
    /\ handler \in [Slot -> [Sig -> Disposition]]
    /\ received \in [Slot -> SUBSET Sig] /\ pending \in [Slot -> BOOLEAN]
    /\ queue \in [Slot -> Queue \cup {NoQueue}]
    /\ q \in [Queue -> Seq(Slot)]
    /\ cont \in [Slot -> Cont]
    /\ bq \in [Slot -> WaitQueue \cup {NoQueue}]
    /\ wpid \in [Slot -> Slot \cup {NoTask}]
    /\ curr \in Slot \cup {NoTask}
    /\ task_count \in Int /\ task_pcount \in Int
    /\ resched \in BOOLEAN /\ mode \in Mode
    /\ sigpos \in Nat /\ sigret \in {"leave", "forked"}
    /\ wakeq \in WaitQueue \cup {NoQueue} /\ irq \in WaitQueue \cup {NoQueue}
    /\ targets \in SUBSET Slot /\ killsig \in Sig
    /\ panic \in BOOLEAN

\* The lists qs and the back pointers qu agree: a task is on at most one queue,
\* once, and knows which.
Linked(qs, qu) ==
    /\ \A c \in Queue : \A i, j \in 1..Len(qs[c]) : qs[c][i] = qs[c][j] => i = j
    /\ \A c \in Queue, t \in Slot :
          qu[t] = c <=> \E i \in 1..Len(qs[c]) : qs[c][i] = t

\* The queues and the back pointers of the tasks agree (task_insert, task_dequeue,
\* task_remove), and every task is where its state says: runnable tasks that do
\* not run on a ready queue, sleeping tasks on no ready queue, the rest on none.
RunQueues ==
    /\ Linked(q, queue)
    /\ \A t \in Slot :
          IF ~Alive(t) \/ t = curr THEN queue[t] = NoQueue
          ELSE queue[t] \in ReadyQueue <=> ~Sleeping(t)

\* task_count counts the living tasks and task_pcount the sleeping ones among
\* them: the dispatcher halts the processor, and keeps it, by these two numbers.
Counters ==
    /\ task_count = Cardinality({t \in Slot : Alive(t)})
    /\ task_pcount = Cardinality({t \in Slot : Sleeping(t)})
    /\ \A t \in Slot : Sleeping(t) => Alive(t) /\ t # curr

\* Queues, back pointers, states and counters of the task table agree.
QueuesAndCounts == RunQueues /\ Counters

\* No sequence of system calls and interrupts reaches a panic() of task.c or
\* sched.c ("next == NULL", "next->exited || next->paused", "task->queue", ...).
NoPanic == ~panic

\* Nobody sleeps through a signal: a task in an interruptible sleep that has a
\* signal pending is a stopped one.
NoSleepOnSignal ==
    \A t \in Slot : paused[t] = WAIT_INTR /\ pending[t] => stopped[t]

\* A signal that was recorded will be looked at: signal_pending is set, or the
\* signal loop is running and has not passed it, or the task is exiting.
SignalsNoticed ==
    \A t \in Slot : Alive(t) /\ received[t] # {} =>
        \/ pending[t]
        \/ t = curr /\ mode = "scan" /\ \A s \in received[t] : s >= sigpos
        \/ t = curr /\ mode \in {"exit", "notify"}

\* task->parent never dangles: it is a task that lives, whoever exited meanwhile.
ParentAlive == \A t \in Slot : used[t] => Alive(parent[t])

\* A dead task belongs to somebody who will be told: nobody who ignores SIGCHLD
\* keeps a dead child.
ZombieHasReaper ==
    \A t \in Slot : used[t] /\ exited[t] => handler[parent[t]][SIGCHLD] # "IGN"

\* No wait() sleeps while the child it asks for is dead.
NoMissedChild ==
    \A p \in Slot : queue[p] = XWaitQ =>
        \A z \in Zombies(p) : wpid[p] \notin {NoTask, z}

\* Dead children are reaped: their parents live, will be told, and do not sleep past them.
ChildrenReaped == ParentAlive /\ ZombieHasReaper /\ NoMissedChild

\* init cannot be ended: the signals that would end it are ignored, its timer goes
\* off only while the handler is in place (a handler is reset when it runs), once
\* at a time, and it never is at a place that leads to task_exit.
InitSafe ==
    /\ Alive(init) /\ ~exec[init] /\ cont[init] \notin {"fork", "new"}
    /\ curr = init => /\ mode \notin {"exit", "notify", "fork", "forked", "new"}
                      /\ mode = "scan" => sigret = "leave"
                      /\ mode = "user" => ~pending[init]
    /\ \A s \in {SIGKILL, SIGSTOP, SIGEXEC, SIGOOM} : handler[init][s] = "IGN"
    /\ received[init] \subseteq {SIGALRM, SIGCHLD, SIGCONT}
    /\ armed[init] \/ SIGALRM \in received[init] => handler[init][SIGALRM] = "FN"
    /\ SIGALRM \in received[init] =>
          /\ ~armed[init]
          /\ pending[init] \/ (curr = init /\ mode = "scan" /\ sigpos <= SIGALRM)

\* With one priority in use every runnable task gets the processor again.
ReadyRuns == \A t \in Slot : (Alive(t) /\ queue[t] \in ReadyQueue) ~> (curr = t)

\* A task that was sent SIGKILL dies, when nobody stops it in between.
KillEnds == \A t \in Slot \ {init} : (Alive(t) /\ SIGKILL \in received[t]) ~> ~Alive(t)
=============================================================================
