-------------------------------- MODULE Poll --------------------------------
(***************************************************************************)
(* poll (sys__poll, poll1 and unpoll1 of src/kern/fs/syscall.c) and the    *)
(* state changes that end it (fs_state of src/kern/fs/main.c).             *)
(*                                                                         *)
(* An object remembers its poller only while it has a single one; with     *)
(* more than one, a change wakes everybody on the common queue fs_pollq.   *)
(* The kernel is not preemptive: one task runs in it until it sleeps or    *)
(* leaves, and between two of its steps interrupt handlers change the      *)
(* states of device objects.  A poll that does not wait (ndelay) changes   *)
(* nothing and is left out, and so is `multipoll', which nobody reads.     *)
(***************************************************************************)
EXTENDS Integers, Sequences, FiniteSets

CONSTANTS Poller,    \* tasks
          NoPoller,  \* the NULL task
          Obj,       \* open objects (struct fso)
          Event,     \* R_OK, W_OK
          MaxFds,    \* bound: descriptors in one poll
          MayErr     \* descriptors may be bad

\* What the constants of an instance satisfy.
PollAssumption ==
    /\ NoPoller \notin Poller \cup Obj
    /\ MaxFds \in Nat
    /\ MayErr \in BOOLEAN

VARIABLES
    poll_state, \* fso->state
    polling,   \* fso->polling
    pollcnt,   \* fso->pollcnt
    poll_pc,   \* where a task is: "user", "reg" (before poll1 of item poll_at), "scan",
               \* "asleep" (in fs_pollq), "ready" (woken), "unreg" (before unpoll1
               \* of item poll_at), "wake" (in fs_state, the new state set)
    req,       \* the items of a task's poll: [obj, events, good]
    poll_at,   \* the item poll1 or unpoll1 comes to
    target,    \* the object whose fs_state a task is in, or NoPoller (no object)
    poll_sig,  \* tasks with a pending signal
    poll_cpu,  \* the task that runs in the kernel, or NoPoller
    poll_panic \* sys__poll's or unpoll1's panic was reached

pollVars == <<poll_state, polling, pollcnt, poll_pc, req, poll_at, target, poll_sig,
              poll_cpu, poll_panic>>

\* One pollfd.  A bad one does not lead to an object; the model gives it one.
PollFd == [obj : Obj, events : (SUBSET Event) \ {{}},
           good : IF MayErr THEN BOOLEAN ELSE {TRUE}]
Request == UNION {[1..n -> PollFd] : n \in 0..MaxFds}

\* The poll1 of item i of t's poll is done and not undone yet.
Pending(t, i) ==
    \/ poll_pc[t] = "reg" /\ i < poll_at[t]
    \/ poll_pc[t] \in {"scan", "asleep", "ready"}
    \/ poll_pc[t] = "unreg" /\ i >= poll_at[t]

\* The tasks and items that poll f.
Polls(f) ==
    {x \in Poller \X (1..MaxFds) :
        /\ x[2] <= Len(req[x[1]])
        /\ req[x[1]][x[2]].obj = f
        /\ Pending(x[1], x[2])}

\* An item's object is in a state it waits for.
Ready(t) == \E i \in 1..Len(req[t]) : poll_state[req[t][i].obj] \cap req[t][i].events # {}

PollTypes ==
    /\ poll_state \in [Obj -> SUBSET Event]
    /\ polling \in [Obj -> Poller \cup {NoPoller}]
    /\ pollcnt \in [Obj -> Nat]
    /\ poll_pc \in [Poller -> {"user", "reg", "scan", "asleep", "ready", "unreg", "wake"}]
    /\ req \in [Poller -> Request]
    /\ poll_at \in [Poller -> 1..(MaxFds + 1)]
    /\ target \in [Poller -> Obj \cup {NoPoller}]
    /\ poll_sig \in SUBSET Poller
    /\ poll_cpu \in Poller \cup {NoPoller}
    /\ poll_panic \in BOOLEAN

PollInit ==
    /\ poll_state \in [Obj -> SUBSET Event]
    /\ polling = [f \in Obj |-> NoPoller]
    /\ pollcnt = [f \in Obj |-> 0]
    /\ poll_pc = [t \in Poller |-> "user"]
    /\ req = [t \in Poller |-> << >>]
    /\ poll_at = [t \in Poller |-> 1]
    /\ target = [t \in Poller |-> NoPoller]
    /\ poll_sig = {}
    /\ poll_cpu = NoPoller
    /\ poll_panic = FALSE

----------------------------------------------------------------------------
(* Changing states.                                                         *)

\* The tasks fs_state wakes: its one poller, or all of fs_pollq.
PollersOf(f) ==
    CASE polling[f] # NoPoller -> {polling[f]}
      [] polling[f] = NoPoller /\ pollcnt[f] > 0 -> Poller
      [] OTHER -> {}

\* task_resume of each: a task that does not sleep is left alone.
Resumed(p, f) == [t \in Poller |-> IF t \in PollersOf(f) /\ p[t] = "asleep" THEN "ready" ELSE p[t]]

\* A driver's interrupt handler changes the state of a device object
\* (cio_setstate and cio_clrstate call fs_state with interrupts off).
StateIntr(f) ==
    /\ ~poll_panic
    /\ \E st \in (SUBSET Event) \ {poll_state[f]} : poll_state' = [poll_state EXCEPT ![f] = st]
    /\ poll_pc' = Resumed(poll_pc, f)
    /\ UNCHANGED <<polling, pollcnt, req, poll_at, target, poll_sig, poll_cpu, poll_panic>>

\* A task changes the state (a pipe is read, a terminal written to): fs_state
\* sets it with interrupts off and wakes with interrupts on again.
StateSet(t) ==
    /\ ~poll_panic
    /\ poll_cpu = NoPoller
    /\ poll_pc[t] = "user"
    /\ poll_cpu' = t
    /\ poll_pc' = [poll_pc EXCEPT ![t] = "wake"]
    /\ \E f \in Obj : \E st \in (SUBSET Event) \ {poll_state[f]} :
           /\ poll_state' = [poll_state EXCEPT ![f] = st]
           /\ target' = [target EXCEPT ![t] = f]
    /\ UNCHANGED <<polling, pollcnt, req, poll_at, poll_sig, poll_panic>>

StateWake(t) ==
    /\ ~poll_panic
    /\ poll_pc[t] = "wake"
    /\ poll_pc' = [Resumed(poll_pc, target[t]) EXCEPT ![t] = "user"]
    /\ poll_cpu' = NoPoller
    /\ target' = [target EXCEPT ![t] = NoPoller]
    /\ UNCHANGED <<poll_state, polling, pollcnt, req, poll_at, poll_sig, poll_panic>>

----------------------------------------------------------------------------
(* poll.                                                                    *)

\* sys__poll up to its first loop, whose test of fs_fdaccess only sees the
\* result for the last descriptor.
PollStart(t, r) ==
    /\ ~poll_panic
    /\ poll_cpu = NoPoller
    /\ poll_pc[t] = "user"
    /\ Len(r) > 0 => r[Len(r)].good
    /\ poll_cpu' = t
    /\ poll_pc' = [poll_pc EXCEPT ![t] = "reg"]
    /\ req' = [req EXCEPT ![t] = r]
    /\ poll_at' = [poll_at EXCEPT ![t] = 1]
    /\ UNCHANGED <<poll_state, polling, pollcnt, target, poll_sig, poll_panic>>

\* Mutant: the earlier poller stays the only one that is woken.
poll1_KeepFirst(t, f) ==
    /\ polling' = [polling EXCEPT ![f] = IF pollcnt[f] > 0 THEN @ ELSE t]
    /\ pollcnt' = [pollcnt EXCEPT ![f] = @ + 1]

\* poll1.  With pollcnt > 0 and no poller left the code stores to
\* f->polling->multipoll all the same; the store lands in low memory.
poll1(t, f) ==
    /\ polling' = [polling EXCEPT ![f] = IF pollcnt[f] > 0 THEN NoPoller ELSE t]
    /\ pollcnt' = [pollcnt EXCEPT ![f] = IF @ > 0 THEN @ + 1 ELSE 1]

\* The second loop, item by item.
Register(t) ==
    /\ ~poll_panic
    /\ poll_pc[t] = "reg"
    /\ \/ /\ poll_at[t] > Len(req[t])
          /\ poll_pc' = [poll_pc EXCEPT ![t] = "scan"]
          /\ UNCHANGED <<polling, pollcnt, poll_at, poll_panic>>
       \/ /\ poll_at[t] <= Len(req[t])
          /\ req[t][poll_at[t]].good
          /\ poll1(t, req[t][poll_at[t]].obj)
          /\ poll_at' = [poll_at EXCEPT ![t] = @ + 1]
          /\ UNCHANGED <<poll_pc, poll_panic>>
       \/ /\ poll_at[t] <= Len(req[t])
          /\ ~req[t][poll_at[t]].good
          /\ poll_panic' = TRUE
          /\ UNCHANGED <<polling, pollcnt, poll_pc, poll_at>>
    /\ UNCHANGED <<poll_state, req, target, poll_sig, poll_cpu>>

\* The scan and task_suspend, with interrupts off over both.
Scan(t) ==
    /\ ~poll_panic
    /\ poll_pc[t] = "scan"
    /\ \/ /\ Ready(t) \/ t \in poll_sig
          /\ poll_pc' = [poll_pc EXCEPT ![t] = "unreg"]
          /\ poll_at' = [poll_at EXCEPT ![t] = 1]
          /\ UNCHANGED poll_cpu
       \/ /\ ~Ready(t)
          /\ t \notin poll_sig
          /\ poll_pc' = [poll_pc EXCEPT ![t] = "asleep"]
          /\ poll_cpu' = NoPoller
          /\ UNCHANGED poll_at
    /\ UNCHANGED <<poll_state, polling, pollcnt, req, target, poll_sig, poll_panic>>

\* The woken task is dispatched and scans again.
Dispatch(t) ==
    /\ ~poll_panic
    /\ poll_cpu = NoPoller
    /\ poll_pc[t] = "ready"
    /\ poll_cpu' = t
    /\ poll_pc' = [poll_pc EXCEPT ![t] = "scan"]
    /\ UNCHANGED <<poll_state, polling, pollcnt, req, poll_at, target, poll_sig, poll_panic>>

\* unpoll1
unpoll1(t, f) ==
    /\ poll_panic' = (pollcnt[f] = 0)
    /\ polling' = [polling EXCEPT ![f] = IF @ = t THEN NoPoller ELSE @]
    /\ pollcnt' = [pollcnt EXCEPT ![f] = @ - 1]

\* The last loop, item by item, and the return.
Unregister(t) ==
    /\ ~poll_panic
    /\ poll_pc[t] = "unreg"
    /\ \/ /\ poll_at[t] <= Len(req[t])
          /\ unpoll1(t, req[t][poll_at[t]].obj)
          /\ poll_at' = [poll_at EXCEPT ![t] = @ + 1]
          /\ UNCHANGED <<poll_pc, req, poll_cpu, poll_sig>>
       \/ /\ poll_at[t] > Len(req[t])
          /\ poll_pc' = [poll_pc EXCEPT ![t] = "user"]
          /\ req' = [req EXCEPT ![t] = << >>]
          /\ poll_at' = [poll_at EXCEPT ![t] = 1]
          /\ poll_cpu' = NoPoller
          /\ poll_sig' = poll_sig \ {t}
          /\ UNCHANGED <<polling, pollcnt, poll_panic>>
    /\ UNCHANGED <<poll_state, target>>

\* A signal comes in the middle of a poll (signal_send_k): the sleeper is
\* resumed.  It is handled on the way out.
PollSignal(t) ==
    /\ ~poll_panic
    /\ poll_pc[t] \notin {"user", "wake"}
    /\ t \notin poll_sig
    /\ poll_sig' = poll_sig \cup {t}
    /\ poll_pc' = [poll_pc EXCEPT ![t] = IF @ = "asleep" THEN "ready" ELSE @]
    /\ UNCHANGED <<poll_state, polling, pollcnt, req, poll_at, target, poll_cpu, poll_panic>>

\* The steps of a task in the kernel, once it is there.
PollStep(t) == Register(t) \/ Scan(t) \/ Dispatch(t) \/ Unregister(t) \/ StateWake(t)

PollNext ==
    \/ \E t \in Poller :
          PollStep(t) \/ StateSet(t) \/ PollSignal(t) \/ \E r \in Request : PollStart(t, r)
    \/ \E f \in Obj : StateIntr(f)

PollSpec == PollInit /\ [][PollNext]_pollVars

----------------------------------------------------------------------------
(* Properties.                                                              *)

\* pollcnt is the number of polls of the object that are not undone, however
\* many tasks poll it, through however many descriptors, in whatever order they
\* leave.
PollcntRight ==
    \A f \in Obj : pollcnt[f] = Cardinality(Polls(f))

\* The task an object remembers polls it, by one descriptor, and is alone: fs_state
\* may wake it and nobody else.
PollerRight ==
    \A f \in Obj : polling[f] # NoPoller =>
        \E i \in 1..MaxFds : Polls(f) = {<<polling[f], i>>}

\* No task sleeps in poll while one of its objects is ready, unless the task that
\* made it ready has not come to the wake-up yet.
NoMissedPoll ==
    \A t \in Poller : poll_pc[t] = "asleep" =>
        \A i \in 1..Len(req[t]) :
            poll_state[req[t][i].obj] \cap req[t][i].events # {}
            => \E u \in Poller : poll_pc[u] = "wake" /\ target[u] = req[t][i].obj

\* Counts, pollers and sleepers of poll agree at every step (sys__poll, poll1, unpoll1,
\* fs_state).
PollRight == PollTypes /\ PollcntRight /\ PollerRight /\ NoMissedPoll

\* A task that is not in poll, and the steps of one that is, while it runs.
Outside(t) == poll_pc[t] \in {"user", "wake"}
Going(t) == Register(t) \/ Scan(t) \/ Unregister(t) \/ StateWake(t)
=============================================================================
