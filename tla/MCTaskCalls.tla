---------------------------- MODULE MCTaskCalls ----------------------------
(***************************************************************************)
(* Task under two loads, as one run: programs that start others and set    *)
(* alarms, with calls that fail half way (the constants of the             *)
(* configuration), and programs that signal each other and wait for        *)
(* children.                                                               *)
(***************************************************************************)
EXTENDS Task

VARIABLE load      \* "exec" or "signal", for the whole of a behaviour

Signals == INSTANCE Task WITH
    Calls <- {"fork", "wait", "pause"},
    Faults <- {},
    KillSig <- {SIGKILL}, TrapSig <- {SIGKILL, SIGCHLD}

\* The module's assumption for the second load.
ASSUME SignalsAssumption == Signals!TaskAssumption

LoadInit == load \in {"exec", "signal"} /\ Init

ExecNext == load = "exec" /\ Next /\ UNCHANGED load

SignalNext == load = "signal" /\ Signals!Next /\ UNCHANGED load

LoadNext == ExecNext \/ SignalNext

LoadSpec == LoadInit /\ [][LoadNext]_<<vars, load>>
=============================================================================
