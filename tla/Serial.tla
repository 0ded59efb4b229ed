------------------------------- MODULE Serial -------------------------------
(***************************************************************************)
(* The serial port: its driver (src/drv-pc/serial.drv.c), the layer of     *)
(* character devices above it (src/kern/cio.c) and the file object of its  *)
(* device file (fs_getfso, fs_putfso, devfs_getfso, devfs_putfso).         *)
(*                                                                         *)
(* One task is in the kernel at a time and stays there until it returns or *)
(* sleeps; the port's interrupt may come wherever the driver has           *)
(* interrupts on, which is between the steps of this model.  The port      *)
(* itself holds one byte to send and one received; it is external.         *)
(*                                                                         *)
(* Bytes are numbers in the order they are written, or arrive.  The ring   *)
(* buffers are the sequences they hold.  Speed and the other settings are  *)
(* left out.                                                               *)
(***************************************************************************)
EXTENDS Integers, Sequences, FiniteSets

CONSTANTS
  Caller, None,
  BUF_SIZE,
  MaxOut, MaxIn,      \* bytes written and received, at most
  MaxCount,           \* bytes one call reads or writes, at most
  Faults,             \* whether copying from and to a program's memory may fail
  OpenWhileClosing    \* whether the port is opened while the last close waits

\* What the constants of an instance satisfy.
SerialAssumption == None \notin Caller /\ BUF_SIZE \in Nat \ {0} /\ {MaxOut, MaxIn, MaxCount} \subseteq Nat

VARIABLES
  pc,                 \* where each task is in its call, and how many bytes are left
  cpu,                \* the task in the kernel
  fd,                 \* tasks with the port open
  fso,                \* fso->refcnt of the device file
  refcnt, linked,     \* cdev.refcnt, and whether cdev.fso is set
  port_open,
  state, fstate,      \* cdev.state and fso->state: "R", "W"
  out, in,            \* out_buf and in_buf
  thr, txint, rx,     \* the port: byte being sent, "transmitter empty" pending, byte received
  wire, put,          \* bytes sent; how many the driver has taken
  read, lost, arrived,    \* bytes read, bytes dropped; how many have arrived
  stuck,              \* a write has failed half way, and nothing has been started since
  hidden,             \* "R" was cleared after a byte had come
  bad                 \* a panic() was reached

port == <<thr, txint, rx>>
files == <<fd, fso, refcnt, linked, port_open>>
serialVars == <<pc, cpu, files, state, fstate, out, in, port, wire, put, read, lost, arrived, stuck, hidden, bad>>

At(op, left) == [op |-> op, left |-> left]
Idle == At("idle", 0)
Ops == {"idle", "open", "close", "rsleep", "rwoken", "rcopy", "rend", "rclear",
        "wcopy", "wsleep", "wwoken", "wend", "wcheck", "wclear"}

SerialTypes ==
  /\ \A t \in Caller : pc[t].op \in Ops /\ pc[t].left \in 0..MaxCount
  /\ cpu \in Caller \cup {None}
  /\ fd \subseteq Caller
  /\ fso \in Nat
  /\ refcnt \in 0..1 /\ linked \in BOOLEAN /\ port_open \in 0..1
  /\ state \subseteq {"R", "W"} /\ fstate \subseteq {"R", "W"}
  /\ Len(out) <= BUF_SIZE /\ Len(in) <= BUF_SIZE
  /\ Len(thr) <= 1 /\ Len(rx) <= 1 /\ txint \in BOOLEAN

SerialInit ==
  /\ pc = [t \in Caller |-> Idle] /\ cpu = None
  /\ fd = {} /\ fso = 0 /\ refcnt = 0 /\ linked = FALSE /\ port_open = 0
  /\ state = {} /\ fstate = {}
  /\ out = <<>> /\ in = <<>>
  /\ thr = <<>> /\ txint = FALSE /\ rx = <<>>
  /\ wire = <<>> /\ put = 0 /\ read = <<>> /\ lost = {} /\ arrived = 0
  /\ stuck = FALSE /\ hidden = FALSE /\ bad = FALSE

----------------------------------------------------------------------------
(* States of the device and the tasks *)

\* cio_state
SetState(S) == state' = S /\ fstate' = IF linked THEN S ELSE fstate

Enter(t) == cpu = None /\ ~bad /\ pc[t] = Idle
RunsIn(t, op) == cpu = t /\ pc[t].op = op
Go(t, op, left) == pc' = [pc EXCEPT ![t] = At(op, left)] /\ cpu' = t
Leave(t) == pc' = [pc EXCEPT ![t] = Idle] /\ cpu' = None
SleepsIn(t, op, left) == pc' = [pc EXCEPT ![t] = At(op, left)] /\ cpu' = None

\* resume_rx and resume_tx
Awake(p, from, to) == [t \in Caller |-> IF p[t].op = from THEN [p[t] EXCEPT !.op = to] ELSE p[t]]

----------------------------------------------------------------------------
(* Opening and closing *)

Closing == \E t \in Caller : pc[t].op = "close"

\* fs_getfso finds the object, or devfs_getfso, cio_open and sio_open begin.
Open(t) ==
  /\ Enter(t) /\ t \notin fd
  /\ OpenWhileClosing \/ ~Closing
  /\ IF fso > 0
     THEN /\ fso' = fso + 1 /\ fd' = fd \cup {t}
          /\ UNCHANGED <<pc, cpu, refcnt, linked, port_open, state, fstate>>
     ELSE /\ fso' = 1 /\ linked' = TRUE /\ refcnt' = refcnt + 1
          /\ state' = IF port_open = 0 THEN {"W"} ELSE state
          /\ fstate' = state'
          /\ Go(t, "open", 0)
          /\ UNCHANGED <<fd, port_open>>
  /\ UNCHANGED <<out, in, port, wire, put, read, lost, arrived, stuck, hidden, bad>>

\* port_open++, after the state has been set with interrupts on
OpenEnd(t) ==
  /\ RunsIn(t, "open")
  /\ port_open' = port_open + 1
  /\ fd' = fd \cup {t}
  /\ Leave(t)
  /\ UNCHANGED <<fso, refcnt, linked, state, fstate, out, in, port, wire, put, read, lost, arrived, stuck, hidden, bad>>

\* fs_putfso, down to sio_close's loop for the last reference
Close(t) ==
  /\ Enter(t) /\ t \in fd
  /\ IF fso > 1
     THEN /\ fso' = fso - 1 /\ fd' = fd \ {t}
          /\ UNCHANGED <<pc, cpu, bad>>
     ELSE /\ bad' = (refcnt = 0)       \* panic("cio_close: device not open")
          /\ Go(t, "close", 0)
          /\ UNCHANGED <<fso, fd>>
  /\ UNCHANGED <<refcnt, linked, port_open, state, fstate, out, in, port, wire, put, read, lost, arrived, stuck, hidden>>

\* `while (out_count) sched()': others run, and the task comes back to look again.
CloseSched(t) ==
  /\ \/ RunsIn(t, "close") /\ ~bad /\ out # <<>> /\ cpu' = None
     \/ cpu = None /\ pc[t].op = "close" /\ cpu' = t
  /\ UNCHANGED <<pc, files, state, fstate, out, in, port, wire, put, read, lost, arrived, stuck, hidden, bad>>

\* The rest, when the loop finds everything sent
CloseEnd(t) ==
  /\ RunsIn(t, "close") /\ ~bad
  /\ out = <<>>
  /\ port_open' = port_open - 1
  /\ IF port_open = 1
     THEN /\ SetState({}) /\ in' = <<>>
          /\ lost' = lost \cup {in[i] : i \in DOMAIN in}
     ELSE UNCHANGED <<state, fstate, in, lost>>
  /\ refcnt' = refcnt - 1 /\ linked' = FALSE
  /\ fso' = fso - 1 /\ fd' = fd \ {t}
  /\ hidden' = FALSE
  /\ Leave(t)
  /\ UNCHANGED <<out, port, wire, put, read, arrived, stuck, bad>>

\* sio_ioctl's assertion
Ioctl(t) ==
  /\ Enter(t) /\ t \in fd
  /\ bad' = (port_open = 0)          \* panic("serial.drv: sio_ioctl: !port_open")
  /\ UNCHANGED <<pc, cpu, files, state, fstate, out, in, port, wire, put, read, lost, arrived, stuck, hidden>>

----------------------------------------------------------------------------
(* sio_read *)

\* Something is there, or the task sleeps, or the call returns EAGAIN.
ReadLook(t, n, no_delay) ==
  IF in # <<>> THEN Go(t, "rcopy", IF n < Len(in) THEN n ELSE Len(in))
  ELSE IF no_delay THEN Leave(t)
  ELSE SleepsIn(t, "rsleep", n)

Read(t, n, no_delay) ==
  /\ Enter(t) /\ t \in fd
  /\ ReadLook(t, n, no_delay)
  /\ UNCHANGED <<files, state, fstate, out, in, port, wire, put, read, lost, arrived, stuck, hidden, bad>>

ReadAgain(t) ==
  /\ cpu = None /\ ~bad /\ pc[t].op = "rwoken"
  /\ ReadLook(t, pc[t].left, FALSE)
  /\ UNCHANGED <<files, state, fstate, out, in, port, wire, put, read, lost, arrived, stuck, hidden, bad>>

ReadByte(t) ==
  /\ RunsIn(t, "rcopy")
  /\ \/ /\ pc[t].left > 0
        /\ read' = Append(read, Head(in)) /\ in' = Tail(in)
        /\ Go(t, "rcopy", pc[t].left - 1)
     \/ /\ pc[t].left = 0 \/ Faults
        /\ Go(t, "rend", 0)
        /\ UNCHANGED <<read, in>>
  /\ UNCHANGED <<files, state, fstate, out, port, wire, put, lost, arrived, stuck, hidden, bad>>

\* ic = in_count, and after interrupts are on again the state is cleared.
ReadEnd(t) ==
  /\ RunsIn(t, "rend")
  /\ IF in = <<>> THEN Go(t, "rclear", 0) ELSE Leave(t)
  /\ UNCHANGED <<files, state, fstate, out, in, port, wire, put, read, lost, arrived, stuck, hidden, bad>>

ReadClear(t) ==
  /\ RunsIn(t, "rclear")
  /\ SetState(state \ {"R"})
  /\ hidden' = (in # <<>>)
  /\ Leave(t)
  /\ UNCHANGED <<files, out, in, port, wire, put, read, lost, arrived, stuck, bad>>

----------------------------------------------------------------------------
(* sio_write *)

\* Mutant: the port is not asked whether it can take a byte.
StartW_Blind ==
  IF out # <<>>
  THEN thr' = <<Head(out)>> /\ txint' = FALSE /\ out' = Tail(out)
  ELSE UNCHANGED <<thr, txint, out>>

\* sio_startw: a byte goes to the port if it can take one.
StartW ==
  IF out # <<>> /\ thr = <<>>
  THEN thr' = <<Head(out)>> /\ txint' = FALSE /\ out' = Tail(out)
  ELSE UNCHANGED <<thr, txint, out>>

Room == BUF_SIZE - Len(out)

Write(t, n, no_delay) ==
  /\ Enter(t) /\ t \in fd /\ put + n <= MaxOut
  /\ LET count == IF no_delay /\ n > Room THEN Room ELSE n
     IN  IF count = 0 THEN Leave(t) ELSE Go(t, "wcopy", count)
  /\ UNCHANGED <<files, state, fstate, out, in, port, wire, put, read, lost, arrived, stuck, hidden, bad>>

\* One byte into the buffer; the task sleeps while it is full.  A byte that cannot be
\* fetched ends the call at once, and what is in the buffer is not started.
WriteByte(t) ==
  /\ \/ RunsIn(t, "wcopy")
     \/ cpu = None /\ ~bad /\ pc[t].op = "wwoken"
  /\ \/ /\ Room = 0
        /\ StartW
        /\ SleepsIn(t, "wsleep", pc[t].left)
        /\ stuck' = FALSE
        /\ UNCHANGED put
     \/ /\ Room > 0
        /\ put' = put + 1 /\ out' = Append(out, put + 1)
        /\ Go(t, IF pc[t].left = 1 THEN "wend" ELSE "wcopy", pc[t].left - 1)
        /\ UNCHANGED <<thr, txint, stuck>>
     \/ /\ Faults /\ pc[t].op = "wcopy"
        /\ Leave(t)
        /\ stuck' = TRUE
        /\ UNCHANGED <<put, out, thr, txint>>
  /\ UNCHANGED <<files, state, fstate, in, rx, wire, read, lost, arrived, hidden, bad>>

WriteEnd(t) ==
  /\ RunsIn(t, "wend")
  /\ StartW
  /\ stuck' = FALSE
  /\ Go(t, "wcheck", 0)
  /\ UNCHANGED <<files, state, fstate, in, rx, wire, put, read, lost, arrived, hidden, bad>>

WriteCheck(t) ==
  /\ RunsIn(t, "wcheck")
  /\ IF Room > 0
     THEN pc' = [Awake(pc, "wsleep", "wwoken") EXCEPT ![t] = Idle] /\ cpu' = None
     ELSE Go(t, "wclear", 0)
  /\ UNCHANGED <<files, state, fstate, out, in, port, wire, put, read, lost, arrived, stuck, hidden, bad>>

WriteClear(t) ==
  /\ RunsIn(t, "wclear")
  /\ SetState(state \ {"W"})
  /\ Leave(t)
  /\ UNCHANGED <<files, out, in, port, wire, put, read, lost, arrived, stuck, hidden, bad>>

\* A signal ends a sleep: the reader returns EINTR, the writer what it has written.
EndSleep(t) ==
  /\ cpu = None /\ ~bad
  /\ \/ pc[t].op \in {"rsleep", "rwoken"} /\ Leave(t)
     \/ pc[t].op \in {"wsleep", "wwoken"} /\ Go(t, "wend", 0)
  /\ UNCHANGED <<files, state, fstate, out, in, port, wire, put, read, lost, arrived, stuck, hidden, bad>>

----------------------------------------------------------------------------
(* The port and its interrupt *)

\* The byte has left the port.  Sending a byte takes far longer than the way from WriteCheck to
\* WriteClear: after an interrupt between the two, the next byte leaves later.
Shift ==
  /\ thr # <<>>
  /\ ~\E t \in Caller : pc[t].op = "wclear" /\ Room > 0
  /\ wire' = Append(wire, thr[1]) /\ thr' = <<>> /\ txint' = TRUE
  /\ UNCHANGED <<pc, cpu, files, state, fstate, out, in, rx, put, read, lost, arrived, stuck, hidden, bad>>

\* A byte arrives; one that has not been fetched is overwritten.
Arrive ==
  /\ arrived < MaxIn
  /\ arrived' = arrived + 1 /\ rx' = <<arrived + 1>>
  /\ lost' = lost \cup {rx[i] : i \in DOMAIN rx}
  /\ UNCHANGED <<pc, cpu, files, state, fstate, out, in, thr, txint, wire, put, read, stuck, hidden, bad>>

\* irq: transmitter empty
IrqTx ==
  /\ txint /\ ~bad
  /\ IF out # <<>>
     THEN thr' = <<Head(out)>> /\ out' = Tail(out)
     ELSE UNCHANGED <<thr, out>>
  /\ txint' = FALSE
  /\ SetState(state \cup {"W"})
  /\ pc' = Awake(pc, "wsleep", "wwoken")
  /\ UNCHANGED <<cpu, files, in, rx, wire, put, read, lost, arrived, stuck, hidden, bad>>

\* irq: received data; dropped when the buffer is full or the port closed
IrqRx ==
  /\ rx # <<>> /\ ~bad
  /\ IF Len(in) < BUF_SIZE /\ port_open # 0
     THEN in' = Append(in, rx[1]) /\ UNCHANGED lost
     ELSE lost' = lost \cup {rx[1]} /\ UNCHANGED in
  /\ rx' = <<>>
  /\ hidden' = FALSE
  /\ SetState(state \cup {"R"})
  /\ pc' = Awake(pc, "rsleep", "rwoken")
  /\ UNCHANGED <<cpu, files, out, thr, txint, wire, put, read, arrived, stuck, bad>>

SerialNext ==
  \/ \E t \in Caller :
       \/ Open(t) \/ OpenEnd(t) \/ Close(t) \/ CloseSched(t) \/ CloseEnd(t) \/ Ioctl(t)
       \/ \E n \in 1..MaxCount, nd \in BOOLEAN : Read(t, n, nd) \/ Write(t, n, nd)
       \/ ReadAgain(t) \/ ReadByte(t) \/ ReadEnd(t) \/ ReadClear(t)
       \/ WriteByte(t) \/ WriteEnd(t) \/ WriteCheck(t) \/ WriteClear(t)
       \/ EndSleep(t)
  \/ Shift \/ Arrive \/ IrqTx \/ IrqRx

SerialSpec == SerialInit /\ [][SerialNext]_serialVars

\* What a task has begun in the kernel and does without waiting.
Steps(t) == OpenEnd(t) \/ CloseEnd(t) \/ (RunsIn(t, "close") /\ CloseSched(t)) \/ ReadByte(t) \/ ReadEnd(t) \/ ReadClear(t) \/ WriteEnd(t) \/ WriteCheck(t) \/ WriteClear(t)

----------------------------------------------------------------------------
(* Properties *)

Ascending(s) == \A i, j \in DOMAIN s : i < j => s[i] < s[j]
Elems(s) == {s[i] : i \in DOMAIN s}

\* Every byte sio_write has taken is sent once and in order: what is on the wire, in the
\* port and in out_buf is exactly what has been taken (sio_startw and irq both send).
OutRight == wire \o thr \o out = [i \in 1..put |-> i]

\* Bytes are read in the order they arrived, and each that arrived is read, or in in_buf or
\* in the port, or was dropped because the buffer was full or the port closed (sio_read, irq).
InRight ==
  LET all == read \o in \o rx
  IN  Ascending(all) /\ Elems(all) \cup lost = 1..arrived /\ Elems(all) \cap lost = {}

\* A reader sleeps only while in_buf is empty, a writer only while the port has a byte to
\* send or an interrupt to give (task_suspend against resume_rx and resume_tx).
SleepersRight ==
  \A t \in Caller : /\ pc[t].op = "rsleep" => in = <<>>
                  /\ pc[t].op = "wsleep" => thr # <<>> \/ txint

\* Bytes in out_buf are on their way: the port is busy, or an interrupt is due, or a writer is
\* about to start it, except after a write that failed half way (sio_write's `return err').
OutMoves ==
  out = <<>> \/ thr # <<>> \/ txint \/ stuck
  \/ \E t \in Caller : pc[t].op \in {"wcopy", "wwoken", "wend"}

\* poll() can tell that there is something to read, except after sio_read cleared the state
\* for a buffer that an interrupt had just filled (serial.drv.c, the end of sio_read).
ReadySeen ==
  in # <<>> /\ linked => "R" \in fstate \/ hidden

\* The file object counts the descriptors and the open that is on its way (fs_getfso,
\* fs_putfso), and no panic() of cio_close or sio_ioctl is reached, unless the port was
\* opened while its last close waited.
OpensRight ==
  /\ fso = Cardinality(fd) + Cardinality({t \in Caller : pc[t].op = "open"})
  /\ OpenWhileClosing \/ ~bad

\* Every byte written is sent once and in order and every byte that arrived is accounted for,
\* nobody sleeps on what is there, poll() is told, and users are counted, at every step of
\* sio_open, sio_close, sio_read, sio_write and irq.
SerialRight == SerialTypes /\ OutRight /\ InRight /\ SleepersRight /\ OutMoves /\ ReadySeen /\ OpensRight

\* There is room to write that poll() does not know of.
RoomHidden == linked /\ Room > 0 /\ "W" \notin fstate
=============================================================================
