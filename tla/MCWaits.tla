------------------------------- MODULE MCWaits -------------------------------
(***************************************************************************)
(* Whatever tasks wait for, as one run: a behaviour is a behaviour of      *)
(* poll(), of a pseudo terminal, of a message queue or of the serial       *)
(* driver, all of them this module's own: three tasks poll two objects,    *)
(* also one of them twice; two tasks, an interrupt handler and room for    *)
(* two items; two tasks and a port with buffers of two bytes.  The         *)
(* terminal has two loads: three tasks with requests of one character, and *)
(* two tasks with requests that the buffers take in pieces.                *)
(***************************************************************************)
EXTENDS MsgQueue, Serial, Poll, Pty, TLC

CONSTANTS t1, t2, t3, s1, s2, f1, f2

VARIABLE part  \* the component this behaviour is of, and the terminal's load

waitVars == <<part, vars, pollVars, ptyVars, serialVars>>

\* What the modules ask of their constants.
ASSUME Instances ==
    /\ PollAssumption
    /\ PtyAssumption
    /\ MsgQueueAssumption
    /\ SerialAssumption

\* The components that do not run stay as they start.
NoPoll == PollInit /\ poll_state = [f \in Obj |-> {}]
NoPty == PtyInit
NoMsgQueue == Init
NoSerial == SerialInit

WaitInit ==
    \/ /\ part = "poll" /\ PollInit
       /\ NoPty /\ NoMsgQueue /\ NoSerial
    \/ /\ part \in {"pty", "line"} /\ PtyInit
       /\ NoPoll /\ NoMsgQueue /\ NoSerial
    \/ /\ part = "mq" /\ Init
       /\ NoPoll /\ NoPty /\ NoSerial
    \/ /\ part = "serial" /\ SerialInit
       /\ NoPoll /\ NoPty /\ NoMsgQueue

PollsNext ==
    /\ part = "poll"
    /\ PollNext
    /\ UNCHANGED <<part, ptyVars, vars, serialVars>>

\* What a load leaves out: larger requests, or a third task.
Load ==
    \/ /\ part = "pty"
       /\ \A t \in PtyTask : pty_call'[t].left <= 1
    \/ /\ part = "line"
       /\ Cardinality(ptm' \cup pts') <= 2

TerminalNext ==
    /\ part \in {"pty", "line"}
    /\ PtyNext
    /\ Load
    /\ UNCHANGED <<part, pollVars, vars, serialVars>>

QueueNext ==
    /\ part = "mq"
    /\ Next
    /\ UNCHANGED <<part, pollVars, ptyVars, serialVars>>

PortNext ==
    /\ part = "serial"
    /\ SerialNext
    /\ UNCHANGED <<part, pollVars, ptyVars, vars>>

WaitNext == PollsNext \/ TerminalNext \/ QueueNext \/ PortNext

WaitSpec == WaitInit /\ [][WaitNext]_waitVars

----------------------------------------------------------------------------
\* Tasks and objects are only compared.
Symmetry ==
    {p @@ q : p \in Permutations({t1, t2, t3}), q \in Permutations({f1, f2})}
        \cup Permutations({s1, s2})
===============================================================================
