-------------------------------- MODULE Pipe --------------------------------
(***************************************************************************)
(* A pipe (kern/fs/pipe.c) with the files and descriptors that refer to    *)
(* it (kern/fs/fdesc.c, kern/fs/main.c, kern/fs/syscall.c).                *)
(*                                                                         *)
(* The kernel does not preempt itself: a task in a call keeps the          *)
(* processor (busy) until it returns or sleeps in task_suspend.  Signals   *)
(* come between any two steps.                                             *)
(***************************************************************************)
EXTENDS Integers, Sequences, FiniteSets

CONSTANTS
    Task,        \* task slots
    Main,        \* the task that exists at first
    NoTask,
    PIPE_BUF,    \* capacity of the buffer
    OPEN_MAX,    \* descriptors of a task
    Byte,        \* the values a byte can have
    MaxCount,    \* bound on the size of a request
    Calls,       \* optional calls programs make: "dup", "fork", "exit", "close", "setfl"
    Interrupts,  \* what may arrive at any moment: "signal", "event"
    Faults       \* where pipe() may fail: "fso", "file0", "file1", "tucpy"

\* What the constants of an instance satisfy.
PipeAssumption ==
    /\ Main \in Task /\ NoTask \notin Task /\ IsFiniteSet(Task)
    /\ PIPE_BUF \in Nat \ {0} /\ OPEN_MAX \in Nat \ {0} /\ MaxCount \in Nat
    /\ Byte # {}
    /\ Faults \subseteq {"fso", "file0", "file1", "tucpy"}

End == {"rd", "wr"}      \* the two files of a pipe: file0 (O_RDONLY), file1 (O_WRONLY)
NoFile == "none"
Fd == 0 .. OPEN_MAX - 1
Index == 0 .. PIPE_BUF - 1

(***************************************************************************)
(* Where a task is: not there, in user mode, in the loop of pipe_read or   *)
(* pipe_write, about to enter task_suspend, asleep, or in fs_clean.        *)
(***************************************************************************)
Place == {"none", "user", "read", "rsusp", "rsleep", "write", "wsusp", "wsleep", "exit"}

VARIABLES
    buf, read_p, write_p, size,   \* the ring buffer of the fso
    state,                        \* fso->state: what poll() reports
    readers, writers,             \* the wait queues of the fso
    refs,                         \* reference counts of the fso and its files
    ndelay,                       \* O_NDELAY in the omode of each file
    fd,                           \* the descriptors of each task
    at, busy,                     \* where each task is, and who has the processor
    want, todo, nodelay,          \* a call's request: bytes to read, bytes to write, no_delay
    pending, unseen,              \* signal_pending and unseen_events of each task
    taken,                        \* the bytes the last step copied to a reader
    unsaid                        \* history: a write left without pipe_ustate for its bytes

ring == <<buf, read_p, write_p, size>>
queues == <<state, readers, writers>>
files == <<refs, ndelay, fd>>
request == <<want, todo, nodelay>>
signals == <<pending, unseen>>
vars == <<ring, queues, files, at, busy, request, signals, taken, unsaid>>

(***************************************************************************)
(* Reference counts.  fs_getfile takes over a reference to the object that *)
(* its caller holds; fs_putfile gives it up with the file's last           *)
(* descriptor.  Both panic on a count that is 0 already.                   *)
(***************************************************************************)
NoRefs == [fso |-> 0, count |-> [e \in End |-> 0], file |-> [e \in End |-> 0], panics |-> 0]

GetFile(r, e) == [r EXCEPT !.file[e] = 1, !.count[e] = @ + 1]

PutFso(r) ==
    IF r.fso = 0 THEN [r EXCEPT !.panics = 1] ELSE [r EXCEPT !.fso = @ - 1]

PutFile(r, e) ==
    IF r.file[e] = 0 THEN [r EXCEPT !.panics = 1]
    ELSE IF r.file[e] = 1 THEN PutFso([r EXCEPT !.file[e] = 0, !.count[e] = @ - 1])
    ELSE [r EXCEPT !.file[e] = @ - 1]

\* The object pipe() starts from: one reference from fs_getfso, one for the second file.
NewFso == [NoRefs EXCEPT !.fso = 2]
NewFiles == GetFile(GetFile(NewFso, "rd"), "wr")

\* Mutant: the failure of the second fs_getfile keeps the object's second reference.
PipeFailed_Leak(f) ==
    CASE f = "fso"   -> NoRefs
      [] f = "file0" -> PutFso(PutFso(NewFso))
      [] f = "file1" -> PutFile(GetFile(NewFso, "rd"), "rd")
      [] f \in {"fd", "tucpy"} -> PutFile(PutFile(NewFiles, "rd"), "wr")

\* What the counts are after pipe() failed at a step and undid the earlier ones.
PipeFailed(f) ==
    CASE f = "fso"   -> NoRefs
      [] f = "file0" -> PutFso(PutFso(NewFso))
      [] f = "file1" -> PutFso(PutFile(GetFile(NewFso, "rd"), "rd"))
      [] f \in {"fd", "tucpy"} -> PutFile(PutFile(NewFiles, "rd"), "wr")

(***************************************************************************)
(* Sleeping and waking.                                                    *)
(***************************************************************************)
StateOf(n) == (IF n < PIPE_BUF THEN {"W_OK"} ELSE {}) \cup (IF n > 0 THEN {"R_OK"} ELSE {})

InQueue(s, t) == \E i \in 1 .. Len(s) : s[i] = t

\* A queue without a task, which is in it at most once.
Without(s, t) ==
    IF InQueue(s, t)
    THEN LET k == CHOOSE i \in 1 .. Len(s) : s[i] = t
         IN  [i \in 1 .. Len(s) - 1 |-> IF i < k THEN s[i] ELSE s[i + 1]]
    ELSE s

\* A sleeper that is resumed goes on at the top of its loop.
Resumed(p) == IF p = "rsleep" THEN "read" ELSE IF p = "wsleep" THEN "write" ELSE p

\* Mutant: one sleeper of each queue is woken, not all.
Ustate_One(n, places) ==
    /\ state' = StateOf(n) /\ unsaid' = FALSE
    /\ readers' = IF "R_OK" \in StateOf(n) /\ readers # <<>> THEN Tail(readers) ELSE readers
    /\ writers' = IF "W_OK" \in StateOf(n) /\ writers # <<>> THEN Tail(writers) ELSE writers
    /\ at' = [t \in Task |->
                IF \/ "R_OK" \in StateOf(n) /\ readers # <<>> /\ t = Head(readers)
                   \/ "W_OK" \in StateOf(n) /\ writers # <<>> /\ t = Head(writers)
                THEN Resumed(places[t]) ELSE places[t]]

\* pipe_ustate: publish the new state and wake everybody who may have something to do.
Ustate(n, places) ==
    /\ state' = StateOf(n) /\ unsaid' = FALSE
    /\ readers' = IF "R_OK" \in StateOf(n) THEN <<>> ELSE readers
    /\ writers' = IF "W_OK" \in StateOf(n) THEN <<>> ELSE writers
    /\ at' = [t \in Task |->
                IF \/ "R_OK" \in StateOf(n) /\ InQueue(readers, t)
                   \/ "W_OK" \in StateOf(n) /\ InQueue(writers, t)
                THEN Resumed(places[t]) ELSE places[t]]

(***************************************************************************)
(* The ring buffer: the two memcpy of pipe_read and of pipe_write.         *)
(***************************************************************************)
ToWrap(p, n) == IF n + p > PIPE_BUF THEN PIPE_BUF - p ELSE n

CopyOut(n) ==
    LET l == ToWrap(read_p, n)
    IN  [k \in 1 .. n |-> IF k <= l THEN buf[read_p + k - 1] ELSE buf[k - l - 1]]

CopyIn(d) ==
    LET l == ToWrap(write_p, Len(d))
    IN  [i \in Index |-> IF i < Len(d) - l THEN d[l + i + 1]
                         ELSE IF write_p <= i /\ i < write_p + l THEN d[i - write_p + 1]
                         ELSE buf[i]]
(***************************************************************************)
(* Calls.  A program makes one when the kernel is idle and its signals     *)
(* have been handled, as intr_leave does before every return to user mode. *)
(***************************************************************************)
Enter(t) == busy = NoTask /\ at[t] = "user" /\ ~pending[t]

Runs(t, p) == busy \in {NoTask, t} /\ at[t] = p

Free(t) == {i \in Fd : fd[t][i] = NoFile}

\* pipe_getfso, and the part of fs_getfile that clears the file.
Fresh ==
    /\ read_p' = 0 /\ write_p' = 0 /\ size' = 0
    /\ state' = {"W_OK"} /\ readers' = <<>> /\ writers' = <<>>
    /\ ndelay' = [e \in End |-> FALSE]
    /\ unsaid' = FALSE
    /\ UNCHANGED buf

\* pipe(): one object is enough, so a task makes a pipe when there is none.
SysPipe(t) ==
    /\ Enter(t) /\ refs.fso = 0
    /\ Cardinality(Free(t)) >= 2
    /\ Fresh
    /\ refs' = NewFiles
    /\ \E i, j \in Free(t) :
        /\ i < j /\ \A k \in Free(t) : k = i \/ k >= j
        /\ fd' = [fd EXCEPT ![t][i] = "rd", ![t][j] = "wr"]
    /\ taken' = <<>>
    /\ UNCHANGED <<at, busy, request, signals>>

SysPipeFails(t) ==
    /\ Enter(t) /\ refs.fso = 0
    /\ \E f \in (Faults \ {"tucpy"}) \cup
                (IF Cardinality(Free(t)) < 2 THEN {"fd"} ELSE Faults \cap {"tucpy"}) :
        /\ refs' = PipeFailed(f)
        /\ IF f = "fso" THEN UNCHANGED <<ring, queues, ndelay, unsaid>> ELSE Fresh
    /\ taken' = <<>>
    /\ UNCHANGED <<fd, at, busy, request, signals>>

SysClose(t, i) ==
    /\ Enter(t) /\ "close" \in Calls
    /\ fd[t][i] # NoFile
    /\ refs' = PutFile(refs, fd[t][i])
    /\ fd' = [fd EXCEPT ![t][i] = NoFile]
    /\ taken' = <<>>
    /\ UNCHANGED <<ring, queues, ndelay, at, busy, request, signals, unsaid>>

\* fcntl(F_DUPFD): the caller's argument selects the free descriptor.
SysDup(t, i, j) ==
    /\ Enter(t) /\ "dup" \in Calls
    /\ fd[t][i] # NoFile /\ j \in Free(t)
    /\ refs' = [refs EXCEPT !.file[fd[t][i]] = @ + 1]
    /\ fd' = [fd EXCEPT ![t][j] = fd[t][i]]
    /\ taken' = <<>>
    /\ UNCHANGED <<ring, queues, ndelay, at, busy, request, signals, unsaid>>

\* fcntl(F_SETFL).
SysSetFl(t, i, b) ==
    /\ Enter(t) /\ "setfl" \in Calls
    /\ fd[t][i] # NoFile
    /\ ndelay' = [ndelay EXCEPT ![fd[t][i]] = b]
    /\ taken' = <<>>
    /\ UNCHANGED <<ring, queues, refs, fd, at, busy, request, signals, unsaid>>

\* fs_newtask, called by fork and newtask: the child shares the parent's files.
SysFork(t, u) ==
    /\ Enter(t) /\ "fork" \in Calls
    /\ at[u] = "none"
    /\ fd' = [fd EXCEPT ![u] = fd[t]]
    /\ refs' = [refs EXCEPT !.file =
                  [e \in End |-> @[e] + Cardinality({i \in Fd : fd[t][i] = e})]]
    /\ at' = [at EXCEPT ![u] = "user"]
    /\ pending' = [pending EXCEPT ![u] = FALSE]
    /\ unseen' = [unseen EXCEPT ![u] = FALSE]
    /\ taken' = <<>>
    /\ UNCHANGED <<ring, queues, ndelay, busy, request, unsaid>>

SysExit(t) ==
    /\ Enter(t) /\ "exit" \in Calls
    /\ at' = [at EXCEPT ![t] = "exit"]
    /\ busy' = t
    /\ taken' = <<>>
    /\ UNCHANGED <<ring, queues, files, request, signals, unsaid>>

\* One iteration of fs_clean.
Clean(t) ==
    /\ Runs(t, "exit")
    /\ \E i \in Fd \ Free(t) :
        /\ \A j \in Fd \ Free(t) : i <= j
        /\ refs' = PutFile(refs, fd[t][i])
        /\ fd' = [fd EXCEPT ![t][i] = NoFile]
    /\ taken' = <<>>
    /\ UNCHANGED <<ring, queues, ndelay, at, busy, request, signals, unsaid>>

CleanDone(t) ==
    /\ Runs(t, "exit") /\ Free(t) = Fd
    /\ at' = [at EXCEPT ![t] = "none"]
    /\ busy' = NoTask
    /\ taken' = <<>>
    /\ UNCHANGED <<ring, queues, files, request, signals, unsaid>>

(***************************************************************************)
(* Signals.                                                                *)
(***************************************************************************)
\* signal_send_k from an interrupt or another task; sleepers here are WAIT_INTR.
SignalSend(t, ev) ==
    /\ at[t] \notin {"none", "exit"}
    /\ ~pending[t] \/ ev # unseen[t]
    /\ pending' = [pending EXCEPT ![t] = TRUE]
    /\ unseen' = [unseen EXCEPT ![t] = ev]
    /\ at' = [at EXCEPT ![t] = Resumed(@)]
    /\ readers' = Without(readers, t)
    /\ writers' = Without(writers, t)
    /\ taken' = <<>>
    /\ UNCHANGED <<ring, state, files, busy, request, unsaid>>

Signal(t) == "signal" \in Interrupts /\ SignalSend(t, unseen[t])

\* send_event: counts the event, then sends SIGEVT.
Event(t) == "event" \in Interrupts /\ SignalSend(t, TRUE)

\* signal_handle on the way to user mode: a handler, the default action, or death.
SignalHandle(t) ==
    /\ busy = NoTask /\ at[t] = "user" /\ pending[t]
    /\ pending' = [pending EXCEPT ![t] = FALSE]
    /\ \/ UNCHANGED <<at, busy>>
       \/ at' = [at EXCEPT ![t] = "exit"] /\ busy' = t
    /\ taken' = <<>>
    /\ UNCHANGED <<ring, queues, files, request, unseen, unsaid>>

(***************************************************************************)
(* Reading and writing.                                                    *)
(***************************************************************************)
\* The call is over and its request forgotten.
Finish(t) ==
    /\ busy' = NoTask
    /\ want' = [want EXCEPT ![t] = 0]
    /\ todo' = [todo EXCEPT ![t] = <<>>]
    /\ nodelay' = [nodelay EXCEPT ![t] = FALSE]

\* Back to user mode with a result, nothing else having changed since the last step.
Return(t) ==
    /\ at' = [at EXCEPT ![t] = "user"]
    /\ Finish(t)
    /\ taken' = <<>>
    /\ UNCHANGED <<ring, queues, files>>

SysRead(t, i, n) ==
    /\ Enter(t) /\ fd[t][i] = "rd"
    /\ at' = [at EXCEPT ![t] = "read"]
    /\ busy' = t
    /\ want' = [want EXCEPT ![t] = n]
    /\ nodelay' = [nodelay EXCEPT ![t] = ndelay["rd"]]
    /\ taken' = <<>>
    /\ UNCHANGED <<ring, queues, files, todo, signals, unsaid>>

\* Nothing to read: end of file, or a reader that does not wait.
ReadNothing(t) ==
    /\ Runs(t, "read") /\ size = 0
    /\ refs.count["wr"] = 0 \/ nodelay[t]
    /\ Return(t)
    /\ UNCHANGED <<signals, unsaid>>

ReadIntr(t) ==
    /\ Runs(t, "read") /\ size = 0
    /\ refs.count["wr"] # 0 /\ ~nodelay[t] /\ pending[t]
    /\ Return(t)
    /\ UNCHANGED <<signals, unsaid>>

ReadWait(t) ==
    /\ Runs(t, "read") /\ size = 0
    /\ refs.count["wr"] # 0 /\ ~nodelay[t] /\ ~pending[t]
    /\ at' = [at EXCEPT ![t] = "rsusp"]
    /\ busy' = t
    /\ taken' = <<>>
    /\ UNCHANGED <<ring, queues, files, request, signals, unsaid>>

ReadTake(t) ==
    /\ Runs(t, "read") /\ size > 0
    /\ LET cnt == IF want[t] > size THEN size ELSE want[t]
       IN  /\ taken' = CopyOut(cnt)
           /\ read_p' = (read_p + cnt) % PIPE_BUF
           /\ size' = size - cnt
    /\ Ustate(size', [at EXCEPT ![t] = "user"])
    /\ Finish(t)
    /\ UNCHANGED <<buf, write_p, files, signals>>

\* task_suspend, with interrupts off.
Interrupted(t) == pending[t] \/ unseen[t]

SuspendIntr(t) ==
    /\ Runs(t, "rsusp") \/ Runs(t, "wsusp")
    /\ Interrupted(t)
    /\ unseen' = [unseen EXCEPT ![t] = FALSE]
    /\ Return(t)
    /\ UNCHANGED <<pending, unsaid>>

Suspend(t) ==
    /\ Runs(t, "rsusp") \/ Runs(t, "wsusp")
    /\ ~Interrupted(t)
    /\ at' = [at EXCEPT ![t] = IF @ = "rsusp" THEN "rsleep" ELSE "wsleep"]
    /\ readers' = IF at[t] = "rsusp" THEN Append(readers, t) ELSE readers
    /\ writers' = IF at[t] = "wsusp" THEN Append(writers, t) ELSE writers
    /\ busy' = NoTask
    /\ taken' = <<>>
    /\ UNCHANGED <<ring, state, files, request, signals, unsaid>>

SysWrite(t, i, d) ==
    /\ Enter(t) /\ fd[t][i] = "wr"
    /\ refs.count["rd"] # 0
    /\ at' = [at EXCEPT ![t] = "write"]
    /\ busy' = t
    /\ todo' = [todo EXCEPT ![t] = d]
    /\ nodelay' = [nodelay EXCEPT ![t] = ndelay["wr"]]
    /\ taken' = <<>>
    /\ UNCHANGED <<ring, queues, files, want, signals, unsaid>>

\* No reader: SIGPIPE, which the task may ignore, and EPIPE.
WriteBroken(t, i) ==
    /\ Enter(t) /\ fd[t][i] = "wr"
    /\ refs.count["rd"] = 0
    /\ pending' = [pending EXCEPT ![t] = TRUE]
    /\ taken' = <<>>
    /\ UNCHANGED <<ring, queues, files, at, busy, request, unseen, unsaid>>

Full(t) == Runs(t, "write") /\ todo[t] # <<>> /\ size >= PIPE_BUF

\* The bytes copied so far are in the buffer, but nobody has been told of them.
Untold == unsaid' = (unsaid \/ state # StateOf(size))

WriteNoDelay(t) ==
    /\ Full(t) /\ nodelay[t]
    /\ Return(t)
    /\ Untold
    /\ UNCHANGED signals

WriteIntr(t) ==
    /\ Full(t) /\ ~nodelay[t] /\ pending[t]
    /\ Return(t)
    /\ Untold
    /\ UNCHANGED signals

WriteWait(t) ==
    /\ Full(t) /\ ~nodelay[t] /\ ~pending[t]
    /\ Ustate(size, [at EXCEPT ![t] = "wsusp"])
    /\ busy' = t
    /\ taken' = <<>>
    /\ UNCHANGED <<ring, files, request, signals>>

\* The bytes that fit.
Chunk(t) == IF Len(todo[t]) + size > PIPE_BUF THEN PIPE_BUF - size ELSE Len(todo[t])

\* Mutant: write_p is advanced by the whole rest of the request.
WriteChunk_Resid(t) ==
    /\ Runs(t, "write") /\ todo[t] # <<>> /\ size < PIPE_BUF
    /\ LET cnt == Chunk(t)
       IN  /\ buf' = CopyIn(SubSeq(todo[t], 1, cnt))
           /\ write_p' = (write_p + Len(todo[t])) % PIPE_BUF
           /\ size' = size + cnt
           /\ todo' = [todo EXCEPT ![t] = SubSeq(@, cnt + 1, Len(@))]
    /\ busy' = t
    /\ taken' = <<>>
    /\ UNCHANGED <<read_p, queues, files, at, want, nodelay, signals, unsaid>>

WriteChunk(t) ==
    /\ Runs(t, "write") /\ todo[t] # <<>> /\ size < PIPE_BUF
    /\ LET cnt == Chunk(t)
       IN  /\ buf' = CopyIn(SubSeq(todo[t], 1, cnt))
           /\ write_p' = (write_p + cnt) % PIPE_BUF
           /\ size' = size + cnt
           /\ todo' = [todo EXCEPT ![t] = SubSeq(@, cnt + 1, Len(@))]
    /\ busy' = t
    /\ taken' = <<>>
    /\ UNCHANGED <<read_p, queues, files, at, want, nodelay, signals, unsaid>>

WriteDone(t) ==
    /\ Runs(t, "write") /\ todo[t] = <<>>
    /\ Ustate(size, [at EXCEPT ![t] = "user"])
    /\ Finish(t)
    /\ taken' = <<>>
    /\ UNCHANGED <<ring, files, signals>>

Init ==
    /\ buf \in {[i \in Index |-> b] : b \in Byte}
    /\ read_p = 0 /\ write_p = 0 /\ size = 0
    /\ state = {"W_OK"} /\ readers = <<>> /\ writers = <<>>
    /\ refs = NoRefs
    /\ ndelay = [e \in End |-> FALSE]
    /\ fd = [t \in Task |-> [i \in Fd |-> NoFile]]
    /\ at = [t \in Task |-> IF t = Main THEN "user" ELSE "none"]
    /\ busy = NoTask
    /\ want = [t \in Task |-> 0]
    /\ todo = [t \in Task |-> <<>>]
    /\ nodelay = [t \in Task |-> FALSE]
    /\ pending = [t \in Task |-> FALSE]
    /\ unseen = [t \in Task |-> FALSE]
    /\ taken = <<>> /\ unsaid = FALSE

\* What the kernel goes on with by itself for a task.
Step(t) ==
    \/ ReadNothing(t) \/ ReadIntr(t) \/ ReadWait(t) \/ ReadTake(t)
    \/ Suspend(t) \/ SuspendIntr(t)
    \/ WriteNoDelay(t) \/ WriteIntr(t) \/ WriteWait(t) \/ WriteChunk(t) \/ WriteDone(t)
    \/ Clean(t) \/ CleanDone(t) \/ SignalHandle(t)

Call(t) ==
    \/ SysPipe(t) \/ SysPipeFails(t) \/ SysExit(t)
    \/ \E i \in Fd :
        \/ SysClose(t, i) \/ WriteBroken(t, i)
        \/ \E j \in Fd : SysDup(t, i, j)
        \/ \E b \in BOOLEAN : SysSetFl(t, i, b)
        \/ \E n \in 0 .. MaxCount :
            \/ SysRead(t, i, n)
            \/ \E d \in [1 .. n -> Byte] : SysWrite(t, i, d)
    \/ \E u \in Task : SysFork(t, u)

Next == \E t \in Task : Step(t) \/ Call(t) \/ Signal(t) \/ Event(t)

Spec == Init /\ [][Next]_vars

-----------------------------------------------------------------------------
(***************************************************************************)
(* Properties.                                                             *)
(***************************************************************************)
(* The fields of the pipe, its files and its tasks stay in range. *)
TypeOK ==
    /\ buf \in [Index -> Byte] /\ read_p \in Index /\ write_p \in Index
    /\ size \in 0 .. PIPE_BUF
    /\ state \subseteq {"R_OK", "W_OK"}
    /\ readers \in Seq(Task) /\ writers \in Seq(Task)
    /\ refs \in [fso : 0 .. 2, count : [End -> 0 .. 1], file : [End -> Nat], panics : 0 .. 1]
    /\ ndelay \in [End -> BOOLEAN]
    /\ fd \in [Task -> [Fd -> End \cup {NoFile}]]
    /\ at \in [Task -> Place] /\ busy \in Task \cup {NoTask}
    /\ want \in [Task -> 0 .. MaxCount]
    /\ todo \in [Task -> Seq(Byte)]
    /\ nodelay \in [Task -> BOOLEAN]
    /\ pending \in [Task -> BOOLEAN] /\ unseen \in [Task -> BOOLEAN]
    /\ taken \in Seq(Byte) /\ unsaid \in BOOLEAN

(***************************************************************************)
(* The counts are right whoever shares, duplicates and closes descriptors, *)
(* and whichever step of pipe() fails: the object has one reference for    *)
(* each open file, a file one for each descriptor, reader_count and        *)
(* writer_count tell whether their file is open, and fs_putfile and        *)
(* fs_putfso do not panic.                                                 *)
(***************************************************************************)
Uses(e) == {x \in Task \X Fd : fd[x[1]][x[2]] = e}

RefsRight ==
    /\ refs.panics = 0
    /\ refs.fso = Cardinality({e \in End : refs.file[e] > 0})
    /\ \A e \in End :
        /\ refs.file[e] = Cardinality(Uses(e))
        /\ refs.count[e] = (IF refs.file[e] > 0 THEN 1 ELSE 0)

(***************************************************************************)
(* Nobody reads, writes or sleeps on a pipe whose buffer was freed: a task *)
(* inside pipe_read or pipe_write keeps the object referenced, even when   *)
(* the other end is closed meanwhile.                                      *)
(***************************************************************************)
NoUseAfterFree ==
    \A t \in Task : at[t] \notin {"none", "user", "exit"} => refs.fso > 0

\* The object is counted right and not used after its end.
ObjectRight == TypeOK /\ RefsRight /\ NoUseAfterFree

(***************************************************************************)
(* No lost wake-up: between calls, no reader sleeps while there are bytes  *)
(* and no writer sleeps while there is room (pipe_ustate is called wherever*)
(* it has to be).  Between a chunk and its pipe_ustate the running writer  *)
(* is excused, and so are the bytes of a write that filled the buffer and  *)
(* then left it by O_NDELAY or EINTR: their reader sleeps on.              *)
(***************************************************************************)
Writing == busy # NoTask /\ at[busy] = "write"

NoLostWakeup ==
    ~Writing => /\ readers # <<>> => size = 0 \/ unsaid
                /\ writers # <<>> => size = PIPE_BUF

(***************************************************************************)
(* poll() sees the truth: between calls fso->state says whether there are  *)
(* bytes and whether there is room, but for such a write, after which the  *)
(* buffer is full.                                                         *)
(***************************************************************************)
StateFresh ==
    ~Writing => IF unsaid THEN size = PIPE_BUF ELSE state = StateOf(size)

(***************************************************************************)
(* A task is in a wait queue exactly if it sleeps there, and only once:    *)
(* signals take a task out of the queue it is in.                          *)
(***************************************************************************)
Once(s) == \A i, j \in 1 .. Len(s) : s[i] = s[j] => i = j

QueuesRight ==
    /\ Once(readers) /\ Once(writers)
    /\ \A t \in Task : /\ InQueue(readers, t) <=> at[t] = "rsleep"
                       /\ InQueue(writers, t) <=> at[t] = "wsleep"

(* Who sleeps is in a queue, who has something to do does not sleep, and   *)
(* poll() is told the truth.                                               *)
WaitersRight == QueuesRight /\ NoLostWakeup /\ StateFresh

(***************************************************************************)
(* End of file is seen: nobody sleeps reading an empty pipe that has no    *)
(* writer any more.                                                        *)
(***************************************************************************)
EofSeen == readers # <<>> /\ size = 0 => refs.count["wr"] # 0

(***************************************************************************)
(* The ring buffer implements a stream of bytes.                           *)
(***************************************************************************)
Contents == [k \in 1 .. size |-> buf[(read_p + k - 1) % PIPE_BUF]]

Stream == INSTANCE ByteStream WITH Capacity <- PIPE_BUF, stream <- Contents

(* The pipe is a byte stream: bytes come out in the order they went in,    *)
(* across the wrap of the ring, partial writes, interrupted calls and      *)
(* several readers and writers.                                            *)
IsStream == Stream!Spec

(* What a task in read() may wait for, and what a task in write(). *)
ReadMayWait(t) == size = 0 \/ at[t] \notin {"read", "rsusp", "rsleep"}
WriteMayWait(t) == size = PIPE_BUF \/ at[t] \notin {"write", "wsusp", "wsleep"}
=============================================================================
