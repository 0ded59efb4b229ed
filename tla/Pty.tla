-------------------------------- MODULE Pty --------------------------------
(***************************************************************************)
(* One pseudo terminal of src/kern/fs/pty/ptyfs.c: the master end (ptm) a  *)
(* terminal emulator holds, the slave end (pts) its programs hold, the     *)
(* buffers between them and the line discipline.  Only tasks use it, and   *)
(* the kernel is not preemptive: a call runs until it sleeps or returns.   *)
(* Signals come at any time.                                               *)
(*                                                                         *)
(* Buffers are counters: what matters here is who sleeps, who is woken and *)
(* what poll is told, not the characters.  An echo is one character.       *)
(* canon_intr is left out: nothing in the file sets it.                    *)
(***************************************************************************)
EXTENDS Integers, Sequences, FiniteSets

CONSTANTS PtyTask,    \* tasks
          NoPtyTask,  \* nobody
          InMax,      \* sizeof in_buf
          OutMax,     \* sizeof out_buf
          CanonMax,   \* MAX_CANON
          MaxReq,     \* bound: characters of one read or write
          MayFail     \* fs_getfso may fail (the object table is full)

\* What the constants of an instance satisfy.
PtyAssumption ==
    /\ NoPtyTask \notin PtyTask
    /\ {InMax, OutMax, CanonMax, MaxReq} \subseteq Nat \ {0}
    /\ MayFail \in BOOLEAN

VARIABLES
    alloc,        \* pty[i] # NULL
    locked,
    icanon,       \* ICANON of tio.c_lflag (ECHO is on)
    ptm,          \* tasks with the master end open; ptm_fso # NULL while there are any
    pts,          \* tasks with the slave end open; pts_fso # NULL while there are any
    canon_count,
    canon_eot,
    in_count,
    out_count,
    mstate,       \* ptm_fso->state
    sstate,       \* pts_fso->state
    pty_pc,       \* where a task is
    pty_call,     \* its call: [left, nodelay], left characters still to go
    pty_sig,      \* tasks with a pending signal
    pty_cpu,      \* the task that runs in the kernel, or NoPtyTask
    fault,        \* pty_getfso went through the NULL ptm_fso
    leaked        \* history: a structure was left without any object

ptyVars == <<alloc, locked, icanon, ptm, pts, canon_count, canon_eot, in_count,
             out_count, mstate, sstate, pty_pc, pty_call, pty_sig, pty_cpu, fault,
             leaked>>

\* "mr" is ptm_read, "mw" ptm_write, "sr" pts_read and "sw" pts_write; a task that
\* sleeps in one of them is in the queue of that name.
PtyPlace == {"mr", "mw", "sr", "sw"}
PtyAsleep(p) == <<"asleep", p>>
PtyWoken(p) == <<"woken", p>>
PtyRunning(p) == <<"running", p>>
PtyUser == <<"user", "">>
PtyPc == {PtyUser} \cup ({"asleep", "woken", "running"} \X PtyPlace)

PtyTypes ==
    /\ {alloc, locked, icanon, canon_eot, fault, leaked} \subseteq BOOLEAN
    /\ ptm \in SUBSET PtyTask
    /\ pts \in SUBSET PtyTask
    /\ canon_count \in 0..CanonMax
    /\ in_count \in 0..InMax
    /\ out_count \in 0..OutMax
    /\ mstate \in SUBSET {"R", "W"}
    /\ sstate \in SUBSET {"R", "W"}
    /\ pty_pc \in [PtyTask -> PtyPc]
    /\ pty_call \in [PtyTask -> [left : 0..MaxReq, nodelay : BOOLEAN]]
    /\ pty_sig \in SUBSET PtyTask
    /\ pty_cpu \in PtyTask \cup {NoPtyTask}

PtyInit ==
    /\ alloc = FALSE
    /\ locked = FALSE
    /\ icanon = TRUE
    /\ ptm = {}
    /\ pts = {}
    /\ canon_count = 0
    /\ canon_eot = FALSE
    /\ in_count = 0
    /\ out_count = 0
    /\ mstate = {}
    /\ sstate = {}
    /\ pty_pc = [t \in PtyTask |-> PtyUser]
    /\ pty_call = [t \in PtyTask |-> [left |-> 0, nodelay |-> FALSE]]
    /\ pty_sig = {}
    /\ pty_cpu = NoPtyTask
    /\ fault = FALSE
    /\ leaked = FALSE

\* The tasks of P that sleep in one of the queues Q are resumed.
PtyResume(p, P, Q) ==
    [t \in PtyTask |-> IF t \in P /\ p[t] \in {PtyAsleep(q) : q \in Q}
                       THEN PtyWoken(p[t][2])
                       ELSE p[t]]

PtyIdle(t) == ~fault /\ pty_cpu = NoPtyTask /\ pty_pc[t] = PtyUser
Buffers == <<canon_count, canon_eot, in_count, out_count>>
Ends == <<alloc, locked, icanon, ptm, pts>>

----------------------------------------------------------------------------
(* Opening and closing.                                                     *)

\* pty_lookup of "ptmx", which clears the structure, and pty_getfso.
OpenPtmx(t) ==
    /\ PtyIdle(t)
    /\ ~alloc
    /\ alloc' = TRUE
    /\ locked' = TRUE
    /\ icanon' = TRUE
    /\ ptm' = {t}
    /\ canon_count' = 0
    /\ canon_eot' = FALSE
    /\ in_count' = 0
    /\ out_count' = 0
    /\ mstate' = {"W"}
    /\ UNCHANGED <<pts, sstate, pty_pc, pty_call, pty_sig, pty_cpu, fault, leaked>>

\* The object table is full: the new structure stays, cleared and unlocked.
OpenPtmxFails(t) ==
    /\ MayFail
    /\ PtyIdle(t)
    /\ ~alloc
    /\ alloc' = TRUE
    /\ locked' = FALSE
    /\ canon_count' = 0
    /\ canon_eot' = FALSE
    /\ in_count' = 0
    /\ out_count' = 0
    /\ leaked' = TRUE
    /\ UNCHANGED <<icanon, ptm, pts, mstate, sstate, pty_pc, pty_call, pty_sig, pty_cpu,
                   fault>>

\* PTY_UNLOCK
Unlock(t) ==
    /\ PtyIdle(t)
    /\ t \in ptm
    /\ locked
    /\ locked' = FALSE
    /\ UNCHANGED <<alloc, icanon, ptm, pts, Buffers, mstate, sstate, pty_pc, pty_call,
                   pty_sig, pty_cpu, fault, leaked>>

\* What pty_getfso tells poll of a slave end that is opened.
OpenedState ==
    (IF out_count < OutMax THEN {"W"} ELSE {}) \cup (IF in_count > 0 THEN {"R"} ELSE {})

\* pty_lookup of the slave and, for a new object, pty_getfso, which takes the
\* owner from the master's object.
OpenPts(t) ==
    /\ PtyIdle(t)
    /\ alloc
    /\ ~locked
    /\ t \notin ptm \cup pts
    /\ \/ /\ pts # {}
          /\ pts' = pts \cup {t}
          /\ UNCHANGED <<sstate, fault>>
       \/ /\ pts = {}
          /\ ptm # {}
          /\ pts' = {t}
          /\ sstate' = OpenedState
          /\ UNCHANGED fault
       \/ /\ pts = {}
          /\ ptm = {}
          /\ fault' = TRUE
          /\ UNCHANGED <<pts, sstate>>
    /\ UNCHANGED <<alloc, locked, icanon, ptm, Buffers, mstate, pty_pc, pty_call,
                   pty_sig, pty_cpu, leaked>>

\* fork: the child has its parent's descriptors.
Fork(t, u) ==
    /\ PtyIdle(t)
    /\ pty_pc[u] = PtyUser
    /\ u \notin ptm \cup pts
    /\ t \in ptm \cup pts
    /\ ptm' = IF t \in ptm THEN ptm \cup {u} ELSE ptm
    /\ pts' = IF t \in pts THEN pts \cup {u} ELSE pts
    /\ UNCHANGED <<alloc, locked, icanon, Buffers, mstate, sstate, pty_pc, pty_call,
                   pty_sig, pty_cpu, fault, leaked>>

\* The slave's readers and writers are woken when the master goes.
HungUp ==
    /\ sstate' = sstate \cup {"R", "W"}
    /\ pty_pc' = PtyResume(pty_pc, PtyTask, {"sr", "sw"})

\* Closing the master end (pty_putfso on the last close).
ClosePtm(t) ==
    /\ PtyIdle(t)
    /\ t \in ptm
    /\ ptm' = ptm \ {t}
    /\ \/ /\ ptm # {t}
          /\ UNCHANGED <<alloc, sstate, pty_pc>>
       \/ /\ ptm = {t}
          /\ pts # {}
          /\ HungUp
          /\ UNCHANGED alloc
       \/ /\ ptm = {t}
          /\ pts = {}
          /\ alloc' = FALSE
          /\ UNCHANGED <<sstate, pty_pc>>
    /\ UNCHANGED <<locked, icanon, pts, Buffers, mstate, pty_call, pty_sig, pty_cpu,
                   fault, leaked>>

\* Closing the slave end.
ClosePts(t) ==
    /\ PtyIdle(t)
    /\ t \in pts
    /\ pts' = pts \ {t}
    /\ \/ /\ pts # {t}
          /\ UNCHANGED <<alloc, mstate, pty_pc>>
       \/ /\ pts = {t}
          /\ ptm # {}
          /\ mstate' = mstate \cup {"R"}
          /\ pty_pc' = PtyResume(pty_pc, PtyTask, {"mr"})
          /\ UNCHANGED alloc
       \/ /\ pts = {t}
          /\ ptm = {}
          /\ alloc' = FALSE
          /\ UNCHANGED <<mstate, pty_pc>>
    /\ UNCHANGED <<locked, icanon, ptm, Buffers, sstate, pty_call, pty_sig, pty_cpu,
                   fault, leaked>>

\* TCSETS: raw or line by line.
SetTio(t) ==
    /\ PtyIdle(t)
    /\ t \in ptm \cup pts
    /\ icanon' = ~icanon
    /\ UNCHANGED <<alloc, locked, ptm, pts, Buffers, mstate, sstate, pty_pc, pty_call,
                   pty_sig, pty_cpu, fault, leaked>>

\* A signal: sent by anybody, or PTY_SHUP to everybody with the slave open.
PtySignalled(P) ==
    /\ pty_sig' = pty_sig \cup P
    /\ pty_pc' = PtyResume(pty_pc, P, PtyPlace)

PtySignal(t) ==
    /\ ~fault
    /\ pty_pc[t] # PtyUser
    /\ t \notin pty_sig
    /\ PtySignalled({t})
    /\ UNCHANGED <<Ends, Buffers, mstate, sstate, pty_call, pty_cpu, fault, leaked>>

Shup(t) ==
    /\ PtyIdle(t)
    /\ t \in ptm
    /\ PtySignalled({u \in pts : pty_pc[u] # PtyUser})
    /\ UNCHANGED <<Ends, Buffers, mstate, sstate, pty_call, pty_cpu, fault, leaked>>

----------------------------------------------------------------------------
(* Calls: entering, sleeping, going on, returning.                          *)

PtyEnter(t, p) ==
    /\ PtyIdle(t)
    /\ IF p \in {"mr", "mw"} THEN t \in ptm ELSE t \in pts
    /\ \E n \in 1..MaxReq, nd \in BOOLEAN :
           pty_call' = [pty_call EXCEPT ![t] = [left |-> n, nodelay |-> nd]]
    /\ pty_pc' = [pty_pc EXCEPT ![t] = PtyRunning(p)]
    /\ pty_cpu' = t
    /\ UNCHANGED <<Ends, Buffers, mstate, sstate, pty_sig, fault, leaked>>

\* The dispatcher gives the processor to a woken task.
PtyDispatch(t) ==
    /\ ~fault
    /\ pty_cpu = NoPtyTask
    /\ pty_pc[t] \in {PtyWoken(p) : p \in PtyPlace}
    /\ pty_pc' = [pty_pc EXCEPT ![t] = PtyRunning(@[2])]
    /\ pty_cpu' = t
    /\ UNCHANGED <<Ends, Buffers, mstate, sstate, pty_call, pty_sig, fault, leaked>>

\* The call returns; pending signals are handled on the way to user mode.
PtyLeave(t, p) ==
    /\ pty_pc' = [p EXCEPT ![t] = PtyUser]
    /\ pty_call' = [pty_call EXCEPT ![t] = [left |-> 0, nodelay |-> FALSE]]
    /\ pty_sig' = pty_sig \ {t}
    /\ pty_cpu' = NoPtyTask

\* task_suspend in queue q, by a task without a pending signal.
PtySleep(t, q, p) ==
    /\ pty_pc' = [p EXCEPT ![t] = PtyAsleep(q)]
    /\ pty_cpu' = NoPtyTask
    /\ UNCHANGED <<pty_call, pty_sig>>

----------------------------------------------------------------------------
(* Reading.                                                                 *)

\* ptm_read
PtmRead(t) ==
    /\ ~fault
    /\ pty_pc[t] = PtyRunning("mr")
    /\ \/ /\ out_count = 0
          /\ pty_call[t].nodelay \/ t \in pty_sig
          /\ PtyLeave(t, pty_pc)
          /\ UNCHANGED <<out_count, mstate, sstate>>
       \/ /\ out_count = 0
          /\ ~pty_call[t].nodelay
          /\ t \notin pty_sig
          /\ PtySleep(t, "mr", pty_pc)
          /\ UNCHANGED <<out_count, mstate, sstate>>
       \/ /\ out_count > 0
          /\ out_count' = IF pty_call[t].left > out_count THEN 0 ELSE out_count - pty_call[t].left
          /\ mstate' = IF out_count' = 0 THEN mstate \ {"R"} ELSE mstate
          /\ sstate' = IF pts # {} THEN sstate \cup {"W"} ELSE sstate
          /\ PtyLeave(t, PtyResume(pty_pc, PtyTask, {"sw"}))
    /\ UNCHANGED <<Ends, canon_count, canon_eot, in_count, fault, leaked>>

\* Mutant: the master's writers are not woken.
ReadOut_Quiet(t) ==
    /\ in_count' = IF pty_call[t].left > in_count THEN 0 ELSE in_count - pty_call[t].left
    /\ sstate' = IF in_count' = 0 THEN sstate \ {"R"} ELSE sstate
    /\ mstate' = IF ptm # {} THEN mstate \cup {"W"} ELSE mstate
    /\ PtyLeave(t, pty_pc)

\* The end of pts_read, also with nothing to copy after an end of file.
ReadOut(t) ==
    /\ in_count' = IF pty_call[t].left > in_count THEN 0 ELSE in_count - pty_call[t].left
    /\ sstate' = IF in_count' = 0 THEN sstate \ {"R"} ELSE sstate
    /\ mstate' = IF ptm # {} THEN mstate \cup {"W"} ELSE mstate
    /\ PtyLeave(t, PtyResume(pty_pc, PtyTask, {"mw"}))

\* pts_read
PtsRead(t) ==
    /\ ~fault
    /\ pty_pc[t] = PtyRunning("sr")
    /\ \/ /\ ptm = {}
          /\ PtyLeave(t, pty_pc)
          /\ UNCHANGED <<canon_eot, in_count, mstate, sstate>>
       \/ /\ ptm # {}
          /\ in_count > 0
          /\ ReadOut(t)
          /\ UNCHANGED canon_eot
       \/ /\ ptm # {}
          /\ in_count = 0
          /\ ~pty_call[t].nodelay
          /\ canon_eot
          /\ canon_eot' = FALSE
          /\ ReadOut(t)
       \/ /\ ptm # {}
          /\ in_count = 0
          /\ pty_call[t].nodelay \/ (~canon_eot /\ t \in pty_sig)
          /\ PtyLeave(t, pty_pc)
          /\ UNCHANGED <<canon_eot, in_count, mstate, sstate>>
       \/ /\ ptm # {}
          /\ in_count = 0
          /\ ~pty_call[t].nodelay
          /\ ~canon_eot
          /\ t \notin pty_sig
          /\ PtySleep(t, "sr", pty_pc)
          /\ UNCHANGED <<canon_eot, in_count, mstate, sstate>>
    /\ UNCHANGED <<Ends, canon_count, out_count, fault, leaked>>

----------------------------------------------------------------------------
(* Writing.                                                                 *)

\* pty_echo of n characters: what does not fit is dropped.
Echoed(n) == IF out_count + n > OutMax THEN OutMax ELSE out_count + n

\* The master is told and its readers are woken when something was echoed.
EchoResumed == IF out_count < OutMax THEN PtyResume(pty_pc, PtyTask, {"mr"}) ELSE pty_pc
EchoState == IF out_count < OutMax THEN mstate \cup {"R"} ELSE mstate

\* pty_canon_input hands the line and its end over, as far as they fit: both
\* canon_buf and in_buf may be full.
HandOver ==
    LET n == IF canon_count < CanonMax THEN canon_count + 1 ELSE canon_count
    IN  IF in_count + n > InMax THEN InMax ELSE in_count + n

\* One character of ptm_write in canonical mode (pty_canon_input).
CanonChar(t) ==
    \/ \* an ordinary character
       /\ canon_count' = IF canon_count < CanonMax THEN canon_count + 1 ELSE canon_count
       /\ out_count' = IF canon_count < CanonMax THEN Echoed(1) ELSE out_count
       /\ mstate' = IF canon_count < CanonMax THEN EchoState ELSE mstate
       /\ pty_pc' = IF canon_count < CanonMax THEN EchoResumed ELSE pty_pc
       /\ UNCHANGED <<canon_eot, in_count, sstate, pty_sig>>
    \/ \* the end of a line
       /\ canon_count' = 0
       /\ in_count' = HandOver
       /\ out_count' = IF canon_count < CanonMax THEN Echoed(1) ELSE out_count
       /\ mstate' = IF canon_count < CanonMax THEN EchoState ELSE mstate
       /\ sstate' = IF pts # {} THEN sstate \cup {"R"} ELSE sstate
       /\ pty_pc' = PtyResume(IF canon_count < CanonMax THEN EchoResumed ELSE pty_pc, PtyTask, {"sr"})
       /\ UNCHANGED <<canon_eot, pty_sig>>
    \/ \* VERASE with something to erase, or VKILL
       /\ canon_count > 0
       /\ canon_count' \in {0, canon_count - 1}
       /\ out_count' = Echoed(canon_count - canon_count')
       /\ mstate' = EchoState
       /\ pty_pc' = EchoResumed
       /\ UNCHANGED <<canon_eot, in_count, sstate, pty_sig>>
    \/ \* VREPRINT, or a character that is ignored
       /\ \/ /\ out_count' = Echoed(canon_count + 1)
             /\ mstate' = EchoState
             /\ pty_pc' = EchoResumed
          \/ UNCHANGED <<out_count, mstate, pty_pc>>
       /\ UNCHANGED <<canon_count, canon_eot, in_count, sstate, pty_sig>>
    \/ \* VEOF
       /\ canon_eot' = TRUE
       /\ out_count' = Echoed(1)
       /\ mstate' = EchoState
       /\ pty_pc' = EchoResumed
       /\ UNCHANGED <<canon_count, in_count, sstate, pty_sig>>
    \/ \* VINTR, VQUIT
       /\ LET P == {u \in pts : pty_pc[u] # PtyUser}
          IN  /\ pty_sig' = pty_sig \cup P
              /\ pty_pc' = PtyResume(EchoResumed, P, PtyPlace)
       /\ canon_count' = 0
       /\ out_count' = Echoed(1)
       /\ mstate' = EchoState
       /\ UNCHANGED <<canon_eot, in_count, sstate>>

\* The end of ptm_write, under the label fail.
PtmWritten(t, p) ==
    /\ sstate' = IF pts # {} THEN sstate \cup {"R"} ELSE sstate
    /\ PtyLeave(t, PtyResume(p, PtyTask, {"sr"}))

\* One step of ptm_write's loop.
PtmWrite(t) ==
    /\ ~fault
    /\ pty_pc[t] = PtyRunning("mw")
    /\ \/ \* the loop is over
          /\ pty_call[t].left = 0
          /\ mstate' = IF in_count >= InMax THEN mstate \ {"W"} ELSE mstate
          /\ PtmWritten(t, pty_pc)
          /\ UNCHANGED Buffers
       \/ /\ pty_call[t].left > 0
          /\ icanon
          /\ CanonChar(t)
          /\ pty_call' = [pty_call EXCEPT ![t].left = @ - 1]
          /\ UNCHANGED pty_cpu
       \/ /\ pty_call[t].left > 0
          /\ ~icanon
          /\ in_count < InMax
          /\ in_count' = in_count + 1
          /\ out_count' = Echoed(1)
          /\ mstate' = EchoState
          /\ pty_pc' = EchoResumed
          /\ pty_call' = [pty_call EXCEPT ![t].left = @ - 1]
          /\ UNCHANGED <<canon_count, canon_eot, sstate, pty_sig, pty_cpu>>
       \/ \* no room: no_delay or a signal end the call
          /\ pty_call[t].left > 0
          /\ ~icanon
          /\ in_count >= InMax
          /\ pty_call[t].nodelay \/ t \in pty_sig
          /\ mstate' = mstate \ {"W"}
          /\ PtmWritten(t, pty_pc)
          /\ UNCHANGED Buffers
       \/ /\ pty_call[t].left > 0
          /\ ~icanon
          /\ in_count >= InMax
          /\ ~pty_call[t].nodelay
          /\ t \notin pty_sig
          /\ sstate' = IF pts # {} THEN sstate \cup {"R"} ELSE sstate
          /\ PtySleep(t, "mw", PtyResume(pty_pc, PtyTask, {"sr"}))
          /\ UNCHANGED <<Buffers, mstate>>
    /\ UNCHANGED <<Ends, fault, leaked>>

\* pty_resume_ptm_r
ResumePtmR == mstate' = IF ptm # {} THEN mstate \cup {"R"} ELSE mstate

\* One step of pts_write's loop.
PtsWrite(t) ==
    /\ ~fault
    /\ pty_pc[t] = PtyRunning("sw")
    /\ \/ \* the loop is over, or there is no room and no master, no_delay or a signal
          /\ \/ pty_call[t].left = 0
             \/ /\ pty_call[t].left > 0
                /\ out_count >= OutMax
                /\ ptm = {} \/ pty_call[t].nodelay \/ t \in pty_sig
          /\ sstate' = IF out_count >= OutMax THEN sstate \ {"W"} ELSE sstate
          /\ ResumePtmR
          /\ PtyLeave(t, PtyResume(pty_pc, PtyTask, {"mr"}))
          /\ UNCHANGED out_count
       \/ /\ pty_call[t].left > 0
          /\ out_count < OutMax
          /\ out_count' = out_count + 1
          /\ pty_call' = [pty_call EXCEPT ![t].left = @ - 1]
          /\ UNCHANGED <<mstate, sstate, pty_pc, pty_sig, pty_cpu>>
       \/ /\ pty_call[t].left > 0
          /\ out_count >= OutMax
          /\ ptm # {}
          /\ ~pty_call[t].nodelay
          /\ t \notin pty_sig
          /\ ResumePtmR
          /\ PtySleep(t, "sw", PtyResume(pty_pc, PtyTask, {"mr"}))
          /\ UNCHANGED <<out_count, sstate>>
    /\ UNCHANGED <<Ends, canon_count, canon_eot, in_count, fault, leaked>>

\* The steps of a task inside a call.
PtyStep(t) == PtmRead(t) \/ PtsRead(t) \/ PtmWrite(t) \/ PtsWrite(t)

PtyNext ==
    \E t \in PtyTask :
        \/ OpenPtmx(t)
        \/ OpenPtmxFails(t)
        \/ Unlock(t)
        \/ OpenPts(t)
        \/ \E u \in PtyTask : Fork(t, u)
        \/ ClosePtm(t)
        \/ ClosePts(t)
        \/ SetTio(t)
        \/ PtySignal(t)
        \/ Shup(t)
        \/ \E p \in PtyPlace : PtyEnter(t, p)
        \/ PtyDispatch(t)
        \/ PtyStep(t)

PtySpec == PtyInit /\ [][PtyNext]_ptyVars

----------------------------------------------------------------------------
(* Properties.                                                              *)

\* Whenever another task may run, nobody sleeps on something that is there: the
\* four queues with the counts, the end of file, the other end and signals.
PtyNoLostWakeup ==
    pty_cpu = NoPtyTask => \A t \in PtyTask :
        /\ pty_pc[t] = PtyAsleep("mr") => out_count = 0
        /\ pty_pc[t] = PtyAsleep("sr") => in_count = 0 /\ ~canon_eot /\ ptm # {}
        /\ pty_pc[t] = PtyAsleep("mw") => in_count >= InMax
        /\ pty_pc[t] = PtyAsleep("sw") => out_count >= OutMax /\ ptm # {}
        /\ pty_pc[t] \in {PtyAsleep(p) : p \in PtyPlace} => t \notin pty_sig

\* poll is told of everything that can be read and of all room: an end never
\* lacks a state it should have (it may have one too many, see README).
PollSees ==
    pty_cpu = NoPtyTask =>
        /\ ptm # {} /\ out_count > 0 => "R" \in mstate
        /\ ptm # {} /\ in_count < InMax => "W" \in mstate
        /\ pts # {} /\ in_count > 0 => "R" \in sstate
        /\ pts # {} /\ out_count < OutMax => "W" \in sstate

\* The structure lives exactly as long as one of its ends is open, and no slave is
\* opened without its master, unless the object table was full at some ptmx.
PtyLifetime == leaked \/ ((alloc <=> ptm \cup pts # {}) /\ ~fault)

\* Sleepers, states and the life of a terminal are right at every step.
PtyRight == PtyTypes /\ PtyNoLostWakeup /\ PollSees /\ PtyLifetime

\* A task in a read or a write of the slave end after the master has gone.
Stranded(t) == ptm = {} /\ pty_pc[t][2] \in {"sr", "sw"}
=============================================================================
