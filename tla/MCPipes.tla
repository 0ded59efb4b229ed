------------------------------- MODULE MCPipes -------------------------------
(***************************************************************************)
(* The pipe under four loads, as one run: each takes some of the steps of  *)
(* module Pipe, by some of the tasks, with requests of its own.            *)
(***************************************************************************)
EXTENDS Pipe

CONSTANTS t1, t2, t3

ASSUME Instance == PipeAssumption

VARIABLE part    \* the load of this behaviour

loadVars == <<part, vars>>

\* Reads and writes of some sizes.
Transfer(t, sizes, bytes) ==
    \E i \in Fd, k \in sizes :
        SysRead(t, i, k) \/ \E d \in [1 .. k -> bytes] : SysWrite(t, i, d)

\* Two tasks make pipes, any step of which may fail, share, duplicate and close
\* descriptors, and get events; the buffer is full or empty.
RefsNext ==
    /\ part = "refs"
    /\ \E t \in {Main, t2} :
        \/ Step(t) \/ Event(t)
        \/ SysPipe(t) \/ SysPipeFails(t) \/ SysExit(t)
        \/ \E i \in Fd : SysClose(t, i) \/ WriteBroken(t, i) \/ \E j \in Fd : SysDup(t, i, j)
        \/ Transfer(t, {PIPE_BUF}, {0})
        \/ \E u \in {Main, t2} : SysFork(t, u)
    /\ UNCHANGED part

\* Three tasks with requests larger than the buffer.
IoNext ==
    /\ part = "io"
    /\ \E t \in Task :
        \/ Step(t) \/ SysPipe(t)
        \/ Transfer(t, 0 .. MaxCount, {0})
        \/ \E u \in Task : SysFork(t, u)
    /\ UNCHANGED part

\* All contents of a buffer of two bytes over two values, with signals.
BytesNext ==
    /\ part = "stream"
    /\ \E t \in {Main, t2} :
        \/ Step(t) \/ Signal(t) \/ SysPipe(t)
        \/ Transfer(t, 0 .. MaxCount, Byte)
        \/ \E u \in {Main, t2} : SysFork(t, u)
    /\ UNCHANGED part

\* Non-blocking calls among the others.
NoDelayNext ==
    /\ part = "ndelay"
    /\ \E t \in {Main, t2} :
        \/ Step(t) \/ SysPipe(t)
        \/ \E i \in Fd : \/ SysClose(t, i) \/ WriteBroken(t, i)
                         \/ \E b \in BOOLEAN : SysSetFl(t, i, b)
        \/ Transfer(t, 0 .. MaxCount, {0})
        \/ \E u \in {Main, t2} : SysFork(t, u)
    /\ UNCHANGED part

LoadInit ==
    /\ part \in {"refs", "io", "stream", "ndelay"}
    /\ Init
    /\ part # "stream" => buf = [i \in Index |-> 0]

LoadNext == RefsNext \/ IoNext \/ BytesNext \/ NoDelayNext

LoadSpec == LoadInit /\ [][LoadNext]_loadVars
===============================================================================
