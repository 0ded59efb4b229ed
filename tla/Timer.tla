------------------------------- MODULE Timer -------------------------------
(***************************************************************************)
(* The timers of the C library (src/lib/timer.c) over the kernel's alarms  *)
(* (module Alarm) and signals turned into events (src/kern/signal.c).       *)
(*                                                                         *)
(* A process keeps a list of timers ordered by the time they are due, and  *)
(* one alarm for the first of them.  SIGALRM puts an event into the        *)
(* process's queue and takes the handler away; the event is handled when   *)
(* the process next waits for events, by tmr_sig_alrm, which sets the      *)
(* handler and the alarm again.  A SIGALRM that finds no handler ends the  *)
(* process.  Timers' callbacks are taken to call no timer function, as is  *)
(* so in the repository.                                                   *)
(***************************************************************************)
EXTENDS Alarm, SequencesExt

CONSTANTS Lib,       \* the process
          Timer,     \* its timers
          Period,    \* repeat, of each timer, in microseconds
          Delays,    \* delays asked for
          EvtMax,    \* bound: E_SIGNAL events in the queue
          MaxStart   \* bound: calls of tmr_start and tmr_stop

\* What the constants of an instance satisfy.
TimerAssumption ==
    /\ Lib \in Task
    /\ Period \in [Timer -> Nat \ {0}]
    /\ Delays \subseteq Nat
    /\ {EvtMax, MaxStart} \subseteq Nat

VARIABLES
    list,      \* tmr_list
    delay,     \* of each timer: the time it is due
    lpc,       \* where the process is in tmr_sig_alrm; "app" outside
    tv,        \* the time tmr_sig_alrm has read
    handler,   \* the handler of SIGALRM is tmr_sig_alrm, not SIG_DFL
    events,    \* events of SIGALRM in the queue
    dropped,   \* history: the queue was full and an event was lost
    slip,      \* history: how late the alarm was asked for, after the clock was read
    dead,      \* the process was ended by SIGALRM
    calls      \* calls so far

lvars == <<list, delay, lpc, tv, handler, events, dropped, slip, dead, calls>>
tvars == <<alarmVars, lvars>>

Places == {"app", "set", "clock1", "loop", "clock2", "arm", "call"}

TimerTypeOK ==
    /\ AlarmTypes
    /\ list \in Seq(Timer)
    /\ delay \in [Timer -> Nat]
    /\ lpc \in Places
    /\ {tv, slip} \subseteq Nat
    /\ {handler, dropped, dead} \subseteq BOOLEAN
    /\ events \in 0..EvtMax
    /\ calls \in 0..MaxStart

TimerInit ==
    /\ AlarmInit
    /\ list = <<>>
    /\ delay = [t \in Timer |-> 0]
    /\ lpc = "app"
    /\ tv = 0
    /\ handler = FALSE
    /\ events = 0
    /\ dropped = FALSE
    /\ slip = 0
    /\ dead = FALSE
    /\ calls = 0

\* sys_gettimeofday, in microseconds.
Now == time * U + (U * ticks) \div HZ

\* User code runs: the process lives and no signal waits to be taken.
Runs == ~dead /\ call = NoCall /\ Lib \notin sig

At(p) == Runs /\ lpc = p

----------------------------------------------------------------------------
(* The list.                                                                *)

\* tmr_insert: before the first timer that is due later.
Inserted(s, due, t) ==
    LET n == Cardinality({i \in 1..Len(s) : \A j \in 1..i : due[t] >= due[s[j]]})
    IN  SubSeq(s, 1, n) \o <<t>> \o SubSeq(s, n + 1, Len(s))

Without(s, t) == SelectSeq(s, LAMBDA x : x # t)

\* tmr_creat and tmr_start, tmr_reset of a listed timer, which stops it first and
\* starts it again, or tmr_start of a stopped one, which keeps its time.  tmr_start
\* ends with a call of tmr_sig_alrm.
Start(t) ==
    /\ At("app")
    /\ calls < MaxStart
    /\ calls' = calls + 1
    /\ \E due \in {Now + d : d \in Delays}
                 \cup (IF t \in Range(list) \/ delay[t] = 0 THEN {} ELSE {delay[t]}) :
           /\ delay' = [delay EXCEPT ![t] = due]
           /\ list' = Inserted(Without(list, t), delay', t)
    /\ lpc' = "set"
    /\ UNCHANGED <<alarmVars, tv, handler, events, dropped, slip, dead>>

\* tmr_stop.
Stop(t) ==
    /\ At("app")
    /\ calls < MaxStart
    /\ calls' = calls + 1
    /\ t \in Range(list)
    /\ list' = Without(list, t)
    /\ UNCHANGED <<alarmVars, delay, lpc, tv, handler, events, dropped, slip, dead>>

----------------------------------------------------------------------------
(* tmr_sig_alrm.                                                            *)

\* evt_wait takes an event and calls its procedure.
Wait ==
    /\ At("app")
    /\ events > 0
    /\ events' = events - 1
    /\ lpc' = "set"
    /\ UNCHANGED <<alarmVars, list, delay, tv, handler, dropped, slip, dead, calls>>

\* evt_signal.
SetHandler ==
    /\ At("set")
    /\ handler' = TRUE
    /\ lpc' = "clock1"
    /\ UNCHANGED <<alarmVars, list, delay, tv, events, dropped, slip, dead, calls>>

ReadClock ==
    /\ At("clock1")
    /\ tv' = Now
    /\ lpc' = "loop"
    /\ UNCHANGED <<alarmVars, list, delay, handler, events, dropped, slip, dead, calls>>

\* When timer t is due next after the loop has called it as often as it was due.
NextDue(t) == delay[t] + Period[t] * (1 + (tv - delay[t]) \div Period[t])

\* The loop stays with the timer that was first.
Fire ==
    /\ At("loop")
    /\ lpc' = "clock2"
    /\ IF list # <<>> /\ delay[Head(list)] <= tv
       THEN /\ delay' = [delay EXCEPT ![Head(list)] = NextDue(Head(list))]
            /\ list' = Inserted(Tail(list), delay', Head(list))
       ELSE UNCHANGED <<list, delay>>
    /\ UNCHANGED <<alarmVars, tv, handler, events, dropped, slip, dead, calls>>

\* Mutant: a timer that became due meanwhile is left for the next signal.
Again_Return ==
    /\ At("clock2")
    /\ tv' = IF list = <<>> THEN tv ELSE Now
    /\ lpc' = IF list = <<>> \/ Now >= delay[Head(list)] THEN "app" ELSE "arm"
    /\ UNCHANGED <<alarmVars, list, delay, handler, events, dropped, slip, dead, calls>>

\* Nothing to wait for, more to call, or an alarm to set.
Again ==
    /\ At("clock2")
    /\ tv' = IF list = <<>> THEN tv ELSE Now
    /\ lpc' = IF list = <<>> THEN "app"
              ELSE IF Now >= delay[Head(list)] THEN "loop" ELSE "arm"
    /\ UNCHANGED <<alarmVars, list, delay, handler, events, dropped, slip, dead, calls>>

\* alarm() for whole seconds, ualarm() for less.
Arm ==
    /\ At("arm")
    /\ LET d == delay[Head(list)] - tv
       IN  IF d >= U THEN Enter(Lib, FALSE, d \div U, FALSE)
                     ELSE Enter(Lib, TRUE, d, FALSE)
    /\ lpc' = "call"
    /\ slip' = Now - tv
    /\ UNCHANGED <<list, delay, tv, handler, events, dropped, dead, calls>>

\* The steps of the call.
InCall ==
    /\ Cancel \/ StoreAlarm \/ StoreUalarm \/ SetGlobal
    /\ lpc' = IF call' = NoCall THEN "app" ELSE "call"
    /\ UNCHANGED <<list, delay, tv, handler, events, dropped, slip, dead, calls>>

----------------------------------------------------------------------------
(* Signals.                                                                 *)

\* signal_dispatch: an event for the handler, which is then SIG_DFL; without a
\* handler the process ends.  What send_event returns is not looked at: the event
\* is lost when other events fill the queue.
Dispatch ==
    /\ ~dead
    /\ TakeSignal(Lib)
    /\ \/ /\ handler
          /\ events < EvtMax
          /\ events' = events + 1
          /\ UNCHANGED <<dropped, dead>>
       \/ /\ handler
          /\ dropped' = TRUE
          /\ UNCHANGED <<events, dead>>
       \/ /\ ~handler
          /\ dead' = TRUE
          /\ UNCHANGED <<events, dropped>>
    /\ handler' = FALSE
    /\ UNCHANGED <<list, delay, lpc, tv, slip, calls>>

Clock == ~dead /\ Tick /\ UNCHANGED lvars

TimerNext ==
    \/ \E t \in Timer : Start(t) \/ Stop(t)
    \/ Wait
    \/ SetHandler
    \/ ReadClock
    \/ Fire
    \/ Again
    \/ Arm
    \/ InCall
    \/ Dispatch
    \/ Clock

TimerSpec == TimerInit /\ [][TimerNext]_tvars

----------------------------------------------------------------------------
(* Properties.                                                              *)

\* The list is ordered by due times and holds a timer once, so that the alarm for
\* its first timer is in time for all.
Sorted ==
    /\ IsInjective(list)
    /\ \A i, j \in 1..Len(list) : i < j => delay[list[i]] <= delay[list[j]]

\* A process that is back in its own code is not forgotten: with a timer listed
\* there is a SIGALRM, an event in the queue, or an alarm, set for no later than
\* the first timer is due but for the time that passed before the alarm was asked
\* for.  (An event lost to a full queue is the exception.)
Armed ==
    lpc = "app" /\ list # <<>> /\ ~dropped =>
        \/ Lib \in sig
        \/ events > 0
        \/ dead
        \/ /\ alarm[Lib] # 0
           /\ alarm[Lib] * U + (U * aticks[Lib]) \div HZ <= delay[Head(list)] + slip

\* An alarm without a handler exists only while a SIGALRM event waits or has just
\* been taken, whose handling sets the handler.
Guarded ==
    alarm[Lib] # 0 /\ ~handler /\ ~dropped /\ ~dead => events > 0 \/ lpc = "set"

\* The list of timers and the alarm behind it agree.
TimerRight == TimerTypeOK /\ Sorted /\ Armed /\ Guarded

=============================================================================
