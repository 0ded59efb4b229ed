------------------------------ MODULE MCLibrary ------------------------------
(***************************************************************************)
(* Alarms, and the C library's timers, calendar and buffered files, as one *)
(* run.  The alarms, of two tasks and a clock that may be set, and the     *)
(* files, read or written, with transfers that are short or fail, are this *)
(* module's own; each of the others is an instance of its module with      *)
(* bounds of its own.                                                      *)
(***************************************************************************)
EXTENDS Alarm, Stdio, TLC

CONSTANTS t1, t2, t3, tm1, tm2

VARIABLES
    part,  \* the component this behaviour is of
    \* Timer, and the alarms under it
    tm_time, tm_ticks, tm_alarm, tm_aticks, tm_repeat, tm_gtime, tm_gticks,
    tm_sig, tm_call, tm_age, tm_want, tm_jumped,
    list, delay, lpc, tv, handler, events, dropped, slip, dead, calls,
    \* Calendar
    t, date

timerVars == <<tm_time, tm_ticks, tm_alarm, tm_aticks, tm_repeat, tm_gtime,
               tm_gticks, tm_sig, tm_call, tm_age, tm_want, tm_jumped, list,
               delay, lpc, tv, handler, events, dropped, slip, dead, calls>>
dateVars == <<t, date>>
libraryVars == <<part, alarmVars, timerVars, dateVars, stdioVars>>

Periods == tm1 :> 3 @@ tm2 :> 5

\* Values outside every field of a date, and inside some.
WildFields == {-200, -1, 0, 2, 12, 29, 31, 40, 71, 1000}

\* Byte 1 is the newline.
Files == {<<>>, <<2>>, <<2, 1, 3, 2>>, <<3, 1, 2>>}

\* Two timers of a process.
Timers == INSTANCE Timer WITH
    Task <- {t3}, Lib <- t3, Timer <- {tm1, tm2}, Period <- Periods,
    Delays <- {1, 4}, EvtMax <- 2, MaxStart <- 3, HZ <- 2, U <- 4,
    Secs <- {1, 2}, Usecs <- {0, 1, 2, 3}, Clocks <- {}, MaxTime <- 3,
    MaxIn <- 1, time <- tm_time, ticks <- tm_ticks, alarm <- tm_alarm,
    aticks <- tm_aticks, repeat <- tm_repeat, gtime <- tm_gtime,
    gticks <- tm_gticks, sig <- tm_sig, call <- tm_call, age <- tm_age,
    want <- tm_want, jumped <- tm_jumped

\* Every day from the first year of the source to 2003; a day is one moment.
Dates == INSTANCE Calendar WITH
    Hours <- 1, Minutes <- 1, Seconds <- 1, YEAR_MIN <- -147, YEAR_MAX <- 103,
    Wild <- {}

\* Every moment of four years, and fields with any value.
Clean == INSTANCE Calendar WITH
    Hours <- 2, Minutes <- 3, Seconds <- 2, YEAR_MIN <- 68, YEAR_MAX <- 71,
    Wild <- WildFields

\* What the modules ask of their constants.
ASSUME Instances ==
    /\ AlarmAssumption
    /\ LongDelays
    /\ StdioAssumption
    /\ Timers!TimerAssumption
    /\ Dates!CalendarAssumption
    /\ Clean!CalendarAssumption

\* The variables of a component that does not run mean nothing; the alarms and
\* an empty file stay as they start.
NoTimer ==
    /\ tm_time = 0 /\ tm_ticks = 0 /\ tm_alarm = 0 /\ tm_aticks = 0
    /\ tm_repeat = 0 /\ tm_gtime = 0 /\ tm_gticks = 0 /\ tm_sig = 0
    /\ tm_call = 0 /\ tm_age = 0 /\ tm_want = 0 /\ tm_jumped = 0
    /\ list = 0 /\ delay = 0 /\ lpc = 0 /\ tv = 0 /\ handler = 0 /\ events = 0
    /\ dropped = 0 /\ slip = 0 /\ dead = 0 /\ calls = 0
NoCalendar ==
    /\ t = 0 /\ date = 0
NoStdio ==
    /\ StdioInit
    /\ content = <<>> /\ fmode = "r" /\ buf_mode = "full"

LibraryInit ==
    /\ AlarmInit
    /\ \/ /\ part = "alarm"
          /\ NoTimer /\ NoCalendar /\ NoStdio
       \/ /\ part = "timer" /\ Timers!TimerInit
          /\ NoCalendar /\ NoStdio
       \/ /\ part = "dates" /\ Dates!Init
          /\ NoTimer /\ NoStdio
       \/ /\ part = "clean" /\ Clean!Init
          /\ NoTimer /\ NoStdio
       \/ /\ part = "stdio" /\ StdioInit
          /\ NoTimer /\ NoCalendar

AlarmsNext ==
    /\ part = "alarm"
    /\ AlarmNext
    /\ UNCHANGED <<part, timerVars, dateVars, stdioVars>>

TimersNext ==
    /\ part = "timer"
    /\ Timers!TimerNext
    /\ UNCHANGED <<part, alarmVars, dateVars, stdioVars>>

DatesNext ==
    /\ part = "dates"
    /\ Dates!Next
    /\ UNCHANGED <<part, alarmVars, timerVars, stdioVars>>

CleanNext ==
    /\ part = "clean"
    /\ Clean!Next
    /\ UNCHANGED <<part, alarmVars, timerVars, stdioVars>>

StreamsNext ==
    /\ part = "stdio"
    /\ StdioNext
    /\ UNCHANGED <<part, alarmVars, timerVars, dateVars>>

LibraryNext ==
    \/ AlarmsNext \/ TimersNext \/ DatesNext \/ CleanNext \/ StreamsNext

LibrarySpec == LibraryInit /\ [][LibraryNext]_libraryVars

----------------------------------------------------------------------------
(* Properties, besides AlarmRight of the alarms and StdioRight of the files. *)

\* The library's list of timers is ordered by due times and holds a timer once;
\* a process that is back in its own code is not forgotten: with a timer listed
\* there is a SIGALRM, an event, or an alarm in time for the first timer,
\* unless a full queue lost the event; and an alarm without a handler exists
\* only while a SIGALRM event waits or has just been taken (tmr_start,
\* tmr_stop, tmr_insert, tmr_sigalrm).
TimerRight == part = "timer" => Timers!TimerRight

\* gmtime tells the date and the weekday the calendar shows and refuses the
\* moments outside its years, mktime is its inverse and takes months past the
\* year's end for those of the next years, and a date cltime has cleaned
\* exists.
CalendarRight ==
    /\ part = "dates" => Dates!GmtimeRight /\ Dates!MktimeRight /\ Dates!GmtimeEnds
    /\ part = "clean" => Clean!GmtimeRight /\ Clean!CltimeRight

\* Tasks are only compared.
Symmetry == Permutations({t1, t2})
===============================================================================
