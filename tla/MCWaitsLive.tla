----------------------------- MODULE MCWaitsLive -----------------------------
(***************************************************************************)
(* What tasks wait for comes: the liveness of pipes, deferred unmounts,    *)
(* poll(), terminals, mutexes, message queues and the serial port, as one  *)
(* run.  A behaviour is a behaviour of one of them.  The mutex is this     *)
(* module's own, with three tasks that enter it up to twice; each of the   *)
(* others is an instance of its module with bounds of its own.             *)
(***************************************************************************)
EXTENDS Mutex, Sequences, FiniteSets, TLC

CONSTANTS NoBdev, t1, t2, t3, f1, fd0

VARIABLES
    part,  \* the component this behaviour is of
    \* Pipe
    buf, read_p, write_p, size, state, readers, writers, refs, ndelay, fd,
    pipe_at, busy, want, todo, nodelay, pending, unseen, taken,
    unsaid,
    \* Mount
    fs, left, mount_refs, mount_refcnt, cached, marked, ring, mount_taken,
    cpu, raw, gone, acc, panic,
    \* Poll
    poll_state, polling, pollcnt, poll_pc, req, poll_at, target, poll_sig,
    poll_cpu, poll_panic,
    \* Pty
    alloc, locked, icanon, ptm, pts, canon_count, canon_eot, in_count,
    out_count, mstate, sstate, pty_pc, pty_call, pty_sig, pty_cpu, fault,
    leaked,
    \* MsgQueue
    mq_buf, first, curcnt, putq, getq, mq_at, item, mq_wait, mq_sig, waking,
    puts, queue, got,
    \* Serial
    serial_pc, serial_cpu, serial_fd, fso, refcnt, linked, port_open,
    serial_state, fstate, serial_out, serial_in, thr, txint, rx, wire, put,
    read, lost, serial_got, stuck, hidden, bad

pipeVars == <<buf, read_p, write_p, size, state, readers, writers, refs,
              ndelay, fd, pipe_at, busy, want, todo, nodelay, pending, unseen,
              taken, unsaid>>
mountVars == <<fs, left, mount_refs, mount_refcnt, cached, marked, ring,
               mount_taken, cpu, raw, gone, acc, panic>>
pollVars == <<poll_state, polling, pollcnt, poll_pc, req, poll_at, target,
              poll_sig, poll_cpu, poll_panic>>
ptyVars == <<alloc, locked, icanon, ptm, pts, canon_count, canon_eot, in_count,
             out_count, mstate, sstate, pty_pc, pty_call, pty_sig, pty_cpu,
             fault, leaked>>
mqVars == <<mq_buf, first, curcnt, putq, getq, mq_at, item, mq_wait, mq_sig,
            waking, puts, queue, got>>
serialVars == <<serial_pc, serial_cpu, serial_fd, fso, refcnt, linked,
                port_open, serial_state, fstate, serial_out, serial_in, thr,
                txint, rx, wire, put, read, lost, serial_got, stuck, hidden,
                bad>>
waitVars == <<part, mutexVars, pipeVars, mountVars, pollVars, ptyVars, mqVars,
              serialVars>>

\* Two tasks with requests larger than the buffer.
Pipes == INSTANCE Pipe WITH
    Task <- {t1, t2}, Main <- t1, PIPE_BUF <- 2, OPEN_MAX <- 2, Byte <- {0},
    MaxCount <- 3, Calls <- {"fork", "close", "exit"}, Interrupts <- {},
    Faults <- {}, at <- pipe_at

\* One removable medium.
Table == INSTANCE Mount WITH
    MaxFs <- 1, Bdev <- {fd0}, UDelay <- 2, MaxFso <- 2, MaxAcc <- 2,
    refs <- mount_refs, refcnt <- mount_refcnt, taken <- mount_taken

\* Two tasks poll one object.
Polls == INSTANCE Poll WITH
    Poller <- {t1, t2}, NoPoller <- NoTask, Obj <- {f1}, Event <- {"R"},
    MaxFds <- 1, MayErr <- FALSE

\* Two tasks at the ends of a terminal.
Terminal == INSTANCE Pty WITH
    PtyTask <- {t1, t2}, NoPtyTask <- NoTask, InMax <- 1, OutMax <- 1,
    CanonMax <- 1, MaxReq <- 1, MayFail <- TRUE

\* Two tasks, an interrupt handler and a queue of two items.
Queue == INSTANCE MsgQueue WITH
    Task <- {t1, t2}, Item <- {1}, maxcnt <- 2, MaxPut <- 1, buf <- mq_buf,
    at <- mq_at, wait <- mq_wait, sig <- mq_sig

\* Two tasks and a port, with copies that do not fail.
Port == INSTANCE Serial WITH
    Caller <- {t1, t2}, None <- NoTask, BUF_SIZE <- 2, MaxOut <- 4, MaxIn <- 1,
    MaxCount <- 3, Faults <- FALSE, OpenWhileClosing <- FALSE, pc <- serial_pc,
    cpu <- serial_cpu, fd <- serial_fd, state <- serial_state,
    out <- serial_out, in <- serial_in, arrived <- serial_got

\* What the modules ask of their constants.
ASSUME Instances ==
    /\ Pipes!PipeAssumption
    /\ Table!MountAssumption
    /\ Polls!PollAssumption
    /\ Terminal!PtyAssumption
    /\ MutexAssumption
    /\ Queue!MsgQueueAssumption
    /\ Port!SerialAssumption

\* The variables of a component that does not run mean nothing; the mutex
\* stays as it starts.
NoPipe ==
    /\ buf = 0 /\ read_p = 0 /\ write_p = 0 /\ size = 0 /\ state = 0
    /\ readers = 0 /\ writers = 0 /\ refs = 0 /\ ndelay = 0 /\ fd = 0
    /\ pipe_at = 0 /\ busy = 0 /\ want = 0 /\ todo = 0 /\ nodelay = 0 /\ pending = 0
    /\ unseen = 0 /\ taken = 0 /\ unsaid = 0
NoMount ==
    /\ fs = 0 /\ left = 0 /\ mount_refs = 0 /\ mount_refcnt = 0 /\ cached = 0
    /\ marked = 0 /\ ring = 0 /\ mount_taken = 0 /\ cpu = 0 /\ raw = 0
    /\ gone = 0 /\ acc = 0 /\ panic = 0
NoPoll ==
    /\ poll_state = 0 /\ polling = 0 /\ pollcnt = 0 /\ poll_pc = 0 /\ req = 0
    /\ poll_at = 0 /\ target = 0 /\ poll_sig = 0 /\ poll_cpu = 0 /\ poll_panic = 0
NoPty ==
    /\ alloc = 0 /\ locked = 0 /\ icanon = 0 /\ ptm = 0 /\ pts = 0
    /\ canon_count = 0 /\ canon_eot = 0 /\ in_count = 0 /\ out_count = 0
    /\ mstate = 0 /\ sstate = 0 /\ pty_pc = 0 /\ pty_call = 0 /\ pty_sig = 0
    /\ pty_cpu = 0 /\ fault = 0 /\ leaked = 0
NoMutex == MutexInit
NoMsgQueue ==
    /\ mq_buf = 0 /\ first = 0 /\ curcnt = 0 /\ putq = 0 /\ getq = 0
    /\ mq_at = 0 /\ item = 0 /\ mq_wait = 0 /\ mq_sig = 0 /\ waking = 0
    /\ puts = 0 /\ queue = 0 /\ got = 0
NoSerial ==
    /\ serial_pc = 0 /\ serial_cpu = 0 /\ serial_fd = 0 /\ fso = 0
    /\ refcnt = 0 /\ linked = 0 /\ port_open = 0 /\ serial_state = 0
    /\ fstate = 0 /\ serial_out = 0 /\ serial_in = 0 /\ thr = 0 /\ txint = 0
    /\ rx = 0 /\ wire = 0 /\ put = 0 /\ read = 0 /\ lost = 0 /\ serial_got = 0
    /\ stuck = 0 /\ hidden = 0 /\ bad = 0

WaitInit ==
    \/ /\ part = "pipe" /\ Pipes!Init
       /\ NoMount /\ NoPoll /\ NoPty /\ NoMutex /\ NoMsgQueue /\ NoSerial
    \/ /\ part = "mount" /\ Table!MountInit
       /\ NoPipe /\ NoPoll /\ NoPty /\ NoMutex /\ NoMsgQueue /\ NoSerial
    \/ /\ part = "poll" /\ Polls!PollInit
       /\ NoPipe /\ NoMount /\ NoPty /\ NoMutex /\ NoMsgQueue /\ NoSerial
    \/ /\ part = "pty" /\ Terminal!PtyInit
       /\ NoPipe /\ NoMount /\ NoPoll /\ NoMutex /\ NoMsgQueue /\ NoSerial
    \/ /\ part = "mutex" /\ MutexInit
       /\ NoPipe /\ NoMount /\ NoPoll /\ NoPty /\ NoMsgQueue /\ NoSerial
    \/ /\ part = "mq" /\ Queue!Init
       /\ NoPipe /\ NoMount /\ NoPoll /\ NoPty /\ NoMutex /\ NoSerial
    \/ /\ part = "serial" /\ Port!SerialInit
       /\ NoPipe /\ NoMount /\ NoPoll /\ NoPty /\ NoMutex /\ NoMsgQueue

PipesNext ==
    /\ part = "pipe"
    /\ Pipes!Next
    /\ UNCHANGED <<part, mountVars, pollVars, ptyVars, mutexVars, mqVars,
                   serialVars>>

TableNext ==
    /\ part = "mount"
    /\ Table!MountNext
    /\ UNCHANGED <<part, pipeVars, pollVars, ptyVars, mutexVars, mqVars,
                   serialVars>>

PollsNext ==
    /\ part = "poll"
    /\ Polls!PollNext
    /\ UNCHANGED <<part, pipeVars, mountVars, ptyVars, mutexVars, mqVars,
                   serialVars>>

TerminalNext ==
    /\ part = "pty"
    /\ Terminal!PtyNext
    /\ UNCHANGED <<part, pipeVars, mountVars, pollVars, mutexVars, mqVars,
                   serialVars>>

LockNext ==
    /\ part = "mutex"
    /\ MutexNext
    /\ UNCHANGED <<part, pipeVars, mountVars, pollVars, ptyVars, mqVars,
                   serialVars>>

QueueNext ==
    /\ part = "mq"
    /\ Queue!Next
    /\ UNCHANGED <<part, pipeVars, mountVars, pollVars, ptyVars, mutexVars,
                   serialVars>>

PortNext ==
    /\ part = "serial"
    /\ Port!SerialNext
    /\ UNCHANGED <<part, pipeVars, mountVars, pollVars, ptyVars, mutexVars,
                   mqVars>>

WaitNext ==
    \/ PipesNext \/ TableNext \/ PollsNext \/ TerminalNext \/ LockNext
    \/ QueueNext \/ PortNext

\* A step of one component, as a step of all.
InPipe(A) ==
    /\ part = "pipe" /\ A
    /\ UNCHANGED <<part, mountVars, pollVars, ptyVars, mutexVars, mqVars,
                   serialVars>>
InMount(A) ==
    /\ part = "mount" /\ A
    /\ UNCHANGED <<part, pipeVars, pollVars, ptyVars, mutexVars, mqVars,
                   serialVars>>
InPoll(A) ==
    /\ part = "poll" /\ A
    /\ UNCHANGED <<part, pipeVars, mountVars, ptyVars, mutexVars, mqVars,
                   serialVars>>
InPty(A) ==
    /\ part = "pty" /\ A
    /\ UNCHANGED <<part, pipeVars, mountVars, pollVars, mutexVars, mqVars,
                   serialVars>>
InMutex(A) ==
    /\ part = "mutex" /\ A
    /\ UNCHANGED <<part, pipeVars, mountVars, pollVars, ptyVars, mqVars,
                   serialVars>>
InMsgQueue(A) ==
    /\ part = "mq" /\ A
    /\ UNCHANGED <<part, pipeVars, mountVars, pollVars, ptyVars, mutexVars,
                   serialVars>>
InSerial(A) ==
    /\ part = "serial" /\ A
    /\ UNCHANGED <<part, pipeVars, mountVars, pollVars, ptyVars, mutexVars,
                   mqVars>>

\* A task that is ready, or that calls sched() in a loop, gets the processor
\* again and again though others do in between (ReadyRuns of module Task), and
\* tasks return to user mode again and again (init's timer sees to that).
Dispatched(t) ==
    \/ InPipe(Pipes!Step(t))
    \/ InPoll(Polls!Dispatch(t))
    \/ InPty(Terminal!PtyDispatch(t))
    \/ InMsgQueue(Queue!Resume(t))
    \/ InSerial(\/ serial_cpu = NoTask /\ Port!CloseSched(t)
                \/ Port!WriteByte(t)
                \/ Port!ReadAgain(t))
    \/ t = t1 /\ InMount(Table!Return)

\* What a task has begun in the kernel goes on.
GoesOn(t) ==
    \/ InPoll(Polls!Going(t))
    \/ InPty(Terminal!PtyStep(t))
    \/ InSerial(Port!Steps(t))
    \/ t = t1 /\ InMsgQueue(Queue!Wakes)
    \/ t = t1 /\ InMount(Table!Take)
    \/ t = t2 /\ InMount(Table!Run)

\* The clock ticks, intr_leave comes to its end, and the port sends what it is
\* given and interrupts.
Machine ==
    /\ WF_waitVars(InMount(Table!Tick) \/ InSerial(Port!Shift))
    /\ WF_waitVars(InMount(Table!RunDone) \/ InSerial(Port!IrqTx))
    /\ WF_waitVars(InMount(Table!ToUser) \/ InSerial(Port!IrqRx))

\* A task woken in mtx_enter goes on, and whoever has a mutex leaves it.
Fairness ==
    /\ \A t \in {t1, t2} :
          /\ SF_waitVars(Dispatched(t))
          /\ WF_waitVars(GoesOn(t))
    /\ \A t \in Locker :
          /\ WF_waitVars(InMutex(LoopAgain(t)))
          /\ WF_waitVars(InMutex(mtx_leave(t)))
    /\ Machine

WaitSpec == WaitInit /\ [][WaitNext]_waitVars /\ Fairness

----------------------------------------------------------------------------
(* Properties, besides MutexRight of the mutex.                             *)

\* Nobody waits for ever for what is there. A reader does not stay in read()
\* while the pipe has bytes, nor a writer in write() while it has room; a poll
\* of an object that becomes and stays ready returns, whoever else polls it;
\* once the master end of a terminal is closed, no task stays in a read or a
\* write of the slave end; a task that waits interruptibly for a mutex and gets
\* a signal comes back; a task in mq_get gets an item unless the queue runs
\* empty before; the last close of the serial port ends, no writer of it sleeps
\* for ever, and poll() comes to know of room to write.
SleepersGoOn ==
    /\ \A t \in {t1, t2} :
          /\ []<>(part = "pipe" => Pipes!ReadMayWait(t))
          /\ []<>(part = "pipe" => Pipes!WriteMayWait(t))
          /\ <>[](part = "poll" => Polls!Outside(t) \/ Polls!Ready(t))
             => []<>(part = "poll" => Polls!Outside(t))
          /\ []<>(part = "pty" => ~Terminal!Stranded(t))
          /\ []<>(part = "mq" => ~Queue!Due(t))
          /\ []<>(part = "serial" => serial_pc[t].op # "close")
          /\ []<>(part = "serial" => serial_pc[t].op # "wsleep")
    /\ \A t \in Locker : []<>(part = "mutex" => ~Interrupted(t))
    /\ []<>(part = "serial" => ~Port!RoomHidden)

\* A removable file system that is no longer looked up, and whose objects are
\* all closed, is unmounted (fs_clock, fs_dumount).
IdleUnmounted ==
    /\ <>[][part = "mount" => ~Table!Access(1)]_waitVars
    /\ <>[](part = "mount" => mount_refs[1] = 0)
    => []<>(part = "mount" => ~Table!Active(1))

===============================================================================
