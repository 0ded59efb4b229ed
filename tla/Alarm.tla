------------------------------- MODULE Alarm -------------------------------
(***************************************************************************)
(* Alarms: the alarm of each task, the one global time the clock compares  *)
(* with (alarm_time, alarm_ticks), and the calls that set them.            *)
(*   src/kern/clock.c    set_alarm, chk_alarm, clock_intr                  *)
(*   src/kern/syscall.c  sys_alarm, sys_ualarm, sys_settimeofday           *)
(*                                                                         *)
(* Calls run with interrupts on but for short sections, and the clock      *)
(* interrupts them between those; the kernel is not preemptive, so at most *)
(* one task is inside a call.                                              *)
(***************************************************************************)
EXTENDS Integers, FiniteSets

CONSTANTS Task,
          HZ,        \* clock_hz: ticks of a second
          U,         \* microseconds of a second
          Secs,      \* delays asked of alarm()
          Usecs,     \* delays asked of ualarm()
          Clocks,    \* seconds settimeofday sets
          MaxTime,   \* bound: the last second
          MaxIn      \* bound: ticks during one call

\* What the constants of an instance satisfy.
AlarmAssumption ==
    /\ {HZ, U} \subseteq Nat \ {0}
    /\ MaxTime \in Nat \ {0}
    /\ MaxIn \in Nat
    /\ Secs \subseteq Nat
    /\ Usecs \subseteq 0..U
    /\ Clocks \subseteq 1..MaxTime

\* A delay of ualarm() is longer than the ticks that can come during the call.  If the
\* alarm goes off before the call has set the global time, that is set to none and the
\* other alarms are not looked at.
LongDelays == \A d \in Usecs \ {0} : (d * HZ) \div U > MaxIn

VARIABLES
    time, ticks,      \* the clock
    alarm, aticks,    \* of each task: alarm (0 for none), alarm_ticks
    repeat,           \* alarm_repeat
    gtime, gticks,    \* alarm_time (0 for none), alarm_ticks of the clock
    sig,              \* tasks that were sent SIGALRM and have not taken it
    call,             \* the call in progress
    age, want,        \* history: ticks since the alarm was asked for, ticks asked
    jumped            \* history: the clock was set

alarmVars == <<time, ticks, alarm, aticks, repeat, gtime, gticks, sig, call, age, want, jumped>>

NoCall == [step |-> "none"]
Steps == {"cancel", "store", "global"}

AlarmTypes ==
    /\ time \in 1..MaxTime
    /\ ticks \in 0..(HZ - 1)
    /\ alarm \in [Task -> Nat]
    /\ aticks \in [Task -> 0..(HZ - 1)]
    /\ repeat \in [Task -> Nat]
    /\ gtime \in Nat
    /\ gticks \in 0..(HZ - 1)
    /\ sig \subseteq Task
    /\ call \in {NoCall} \cup
           [step : Steps, t : Task, micro : BOOLEAN, rep : BOOLEAN, d : Secs \cup Usecs,
            tm : 1..MaxTime, tc : 0..(HZ - 1), in : 0..MaxIn]
    /\ age \in [Task -> Nat]
    /\ want \in [Task -> Nat]
    /\ jumped \in BOOLEAN

\* The clock starts at 1 (`volatile time_t time = 1').
AlarmInit ==
    /\ time = 1
    /\ ticks = 0
    /\ alarm = [t \in Task |-> 0]
    /\ aticks = [t \in Task |-> 0]
    /\ repeat = [t \in Task |-> 0]
    /\ gtime = 0
    /\ gticks = 0
    /\ sig = {}
    /\ call = NoCall
    /\ age = [t \in Task |-> 0]
    /\ want = [t \in Task |-> 0]
    /\ jumped = FALSE

----------------------------------------------------------------------------
(* The global time.                                                         *)

Before(tm, tc, tm2, tc2) == tm < tm2 \/ (tm = tm2 /\ tc < tc2)

\* set_alarm takes a time that is before the global one.  It does not ask whether
\* the time stands for no alarm at all.
Sooner(tm, tc) == gtime = 0 \/ Before(tm, tc, gtime, gticks)

set_alarm(tm, tc) ==
    /\ gtime' = IF Sooner(tm, tc) THEN tm ELSE gtime
    /\ gticks' = IF Sooner(tm, tc) THEN tc ELSE gticks

----------------------------------------------------------------------------
(* Calls.                                                                   *)

\* sys_alarm and sys_ualarm read the clock.
Enter(t, micro, d, rep) ==
    /\ call = NoCall
    /\ call' = [step |-> "cancel", t |-> t, micro |-> micro, d |-> d, rep |-> rep,
                tm |-> time, tc |-> ticks, in |-> 0]
    /\ UNCHANGED <<time, ticks, alarm, aticks, repeat, gtime, gticks, sig, age, want, jumped>>

\* The interval of a repeated ualarm().
Interval(d, rep) == IF rep THEN (d * HZ + HZ - 1) \div U ELSE 0

\* The task's alarm is cancelled; a delay of zero asks for no more.  Only ualarm()
\* sets the interval.
Cancel ==
    /\ call.step = "cancel"
    /\ alarm' = [alarm EXCEPT ![call.t] = 0]
    /\ IF call.d = 0
       THEN /\ aticks' = [aticks EXCEPT ![call.t] = 0]
            /\ call' = NoCall
            /\ age' = [age EXCEPT ![call.t] = 0]
            /\ want' = [want EXCEPT ![call.t] = 0]
            /\ UNCHANGED repeat
       ELSE /\ call' = [call EXCEPT !.step = "store"]
            /\ repeat' = IF call.micro
                         THEN [repeat EXCEPT ![call.t] = Interval(call.d, call.rep)]
                         ELSE repeat
            /\ age' = [age EXCEPT ![call.t] = call.in]
            /\ want' = [want EXCEPT ![call.t] =
                            IF call.micro THEN (call.d * HZ) \div U ELSE call.d * HZ]
            /\ UNCHANGED aticks
    /\ UNCHANGED <<time, ticks, gtime, gticks, sig, jumped>>

\* alarm(): the alarm and the global time are set at once.
StoreAlarm ==
    /\ call.step = "store"
    /\ ~call.micro
    /\ alarm' = [alarm EXCEPT ![call.t] = call.tm + call.d]
    /\ aticks' = [aticks EXCEPT ![call.t] = call.tc]
    /\ set_alarm(call.tm + call.d, call.tc)
    /\ call' = NoCall
    /\ UNCHANGED <<time, ticks, repeat, sig, age, want, jumped>>

\* Whole seconds are carried out of a number of ticks.
Carried(tm, tc) == [tm |-> tm + tc \div HZ, tc |-> tc % HZ]

\* Mutant: the ticks that make a second are not carried.
StoreUalarm_NoCarry ==
    /\ call.step = "store"
    /\ call.micro
    /\ alarm' = [alarm EXCEPT ![call.t] = call.tm]
    /\ aticks' = [aticks EXCEPT ![call.t] = (call.tc + (call.d * HZ) \div U) % HZ]
    /\ call' = [call EXCEPT !.step = "global"]
    /\ UNCHANGED <<time, ticks, repeat, gtime, gticks, sig, age, want, jumped>>

\* ualarm(): the alarm is set first.
StoreUalarm ==
    /\ call.step = "store"
    /\ call.micro
    /\ LET at == Carried(call.tm, call.tc + (call.d * HZ) \div U)
       IN  /\ alarm' = [alarm EXCEPT ![call.t] = at.tm]
           /\ aticks' = [aticks EXCEPT ![call.t] = at.tc]
    /\ call' = [call EXCEPT !.step = "global"]
    /\ UNCHANGED <<time, ticks, repeat, gtime, gticks, sig, age, want, jumped>>

\* ualarm(): then the global time, from what the task's alarm is by now.
SetGlobal ==
    /\ call.step = "global"
    /\ set_alarm(alarm[call.t], aticks[call.t])
    /\ call' = NoCall
    /\ UNCHANGED <<time, ticks, alarm, aticks, repeat, sig, age, want, jumped>>

\* do_exec and task_creat: a new program has no alarm.
Renew(t) ==
    /\ call = NoCall
    /\ alarm[t] # 0 \/ repeat[t] # 0
    /\ alarm' = [alarm EXCEPT ![t] = 0]
    /\ repeat' = [repeat EXCEPT ![t] = 0]
    /\ age' = [age EXCEPT ![t] = 0]
    /\ want' = [want EXCEPT ![t] = 0]
    /\ UNCHANGED <<time, ticks, aticks, gtime, gticks, sig, call, jumped>>

\* sys_settimeofday, to the beginning of a second (bound: once).
SetTime ==
    /\ call = NoCall
    /\ ~jumped
    /\ \E c \in Clocks : time' = c
    /\ ticks' = 0
    /\ jumped' = TRUE
    /\ UNCHANGED <<alarm, aticks, repeat, gtime, gticks, sig, call, age, want>>

\* A task takes its SIGALRM on its way to user mode.
TakeSignal(t) ==
    /\ t \in sig
    /\ call = NoCall
    /\ sig' = sig \ {t}
    /\ UNCHANGED <<time, ticks, alarm, aticks, repeat, gtime, gticks, call, age, want, jumped>>

----------------------------------------------------------------------------
(* The clock interrupt.                                                     *)

Reached(tm, tc, now) == tm < now.tm \/ (tm = now.tm /\ tc <= now.tc)

\* clock_intr: when the global time has come, chk_alarm is called for every task;
\* it sends the signal, sets a repeated alarm again, and the global time becomes
\* the first of the alarms that remain.
Tick ==
    LET now == IF ticks + 1 = HZ THEN [tm |-> time + 1, tc |-> 0]
                                 ELSE [tm |-> time, tc |-> ticks + 1]
        look == gtime # 0 /\ Reached(gtime, gticks, now)
        due == {t \in Task : look /\ alarm[t] # 0 /\ Reached(alarm[t], aticks[t], now)}
        again == [t \in Task |-> Carried(now.tm, now.tc + repeat[t])]
        next == [t \in Task |->
                    IF t \notin due THEN [tm |-> alarm[t], tc |-> aticks[t]]
                    ELSE IF repeat[t] # 0 THEN again[t] ELSE [tm |-> 0, tc |-> aticks[t]]]
        left == {next[t] : t \in {x \in Task : next[x].tm # 0}}
    IN  /\ now.tm <= MaxTime
        /\ call # NoCall => call.in < MaxIn
        /\ time' = now.tm
        /\ ticks' = now.tc
        /\ alarm' = [t \in Task |-> next[t].tm]
        /\ aticks' = [t \in Task |-> next[t].tc]
        /\ sig' = sig \cup due
        /\ IF ~look THEN UNCHANGED <<gtime, gticks>>
           ELSE IF left = {} THEN gtime' = 0 /\ UNCHANGED gticks
           ELSE \E g \in left : /\ \A x \in left : ~Before(x.tm, x.tc, g.tm, g.tc)
                                /\ gtime' = g.tm
                                /\ gticks' = g.tc
        /\ age' = [t \in Task |-> IF t \in due \/ want[t] = 0 THEN 0 ELSE age[t] + 1]
        /\ want' = [t \in Task |-> IF t \in due THEN repeat[t] ELSE want[t]]
        /\ call' = IF call = NoCall THEN call ELSE [call EXCEPT !.in = @ + 1]
        /\ UNCHANGED <<repeat, jumped>>

AlarmNext ==
    \/ \E t \in Task, d \in Secs : Enter(t, FALSE, d, FALSE)
    \/ \E t \in Task, d \in Usecs, rep \in BOOLEAN : Enter(t, TRUE, d, rep)
    \/ Cancel
    \/ StoreAlarm
    \/ StoreUalarm
    \/ SetGlobal
    \/ \E t \in Task : Renew(t)
    \/ SetTime
    \/ \E t \in Task : TakeSignal(t)
    \/ Tick

AlarmSpec == AlarmInit /\ [][AlarmNext]_alarmVars

----------------------------------------------------------------------------
(* Properties.                                                              *)

\* The clock looks in time for every alarm there is: the global time is set and is
\* not after it.  The alarm a ualarm() call has just stored is looked for when the
\* call is over.
Covered ==
    \A t \in Task : alarm[t] # 0 /\ ~(call # NoCall /\ call.t = t /\ call.step = "global") =>
        gtime # 0 /\ ~Before(alarm[t], aticks[t], gtime, gticks)

\* After a tick nobody's alarm is overdue, also when the clock was set forward.
NoneOverdue ==
    Tick => \A t \in Task : alarm'[t] # 0 /\ ~(call # NoCall /\ call.t = t) =>
                Before(time', ticks', alarm'[t], aticks'[t])

\* No SIGALRM before the ticks asked for have passed, unless the clock was set.
NotEarly ==
    \A t \in sig' \ sig : jumped \/ age[t] + 1 >= want[t]

\* Alarms are not forgotten, not late, and not early (set_alarm and its callers,
\* clock_intr, sys_settimeofday).
AlarmRight ==
    /\ [](AlarmTypes /\ Covered)
    /\ [][NoneOverdue /\ NotEarly]_alarmVars
=============================================================================
