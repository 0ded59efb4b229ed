------------------------------ MODULE Calendar ------------------------------
(***************************************************************************)
(* Broken-down time in the C library (src/lib/time.c): gmtime, mktime and  *)
(* cltime, against a calendar that turns its pages: a state is a moment,   *)
(* reached from 1970-01-01 by going on or back a year, a month, a day or a *)
(* second at a time by the rules of the Gregorian calendar, and the two    *)
(* functions must agree with it there.                                     *)
(*                                                                         *)
(* How many hours, minutes and seconds there are is a parameter, so that   *)
(* centuries can be walked with few moments a day.  The widths of the      *)
(* integers are left out.  Years count from 1900, as tm_year does.         *)
(***************************************************************************)
EXTENDS Integers, Sequences, SequencesExt, FiniteSetsExt

CONSTANTS
  Hours, Minutes, Seconds,   \* in a day, an hour, a minute: 24, 60, 60
  YEAR_MIN, YEAR_MAX,        \* -147 and 8099
  Wild                       \* values given to cltime's fields

\* What the constants of an instance satisfy.
CalendarAssumption ==
  /\ {Hours, Minutes, Seconds} \subseteq Nat \ {0}
  /\ YEAR_MIN \in Int /\ YEAR_MAX \in Int /\ YEAR_MIN < 70 /\ YEAR_MAX > 70

VARIABLES
  t,     \* seconds since 1970-01-01
  date   \* the same moment on the calendar's pages

vars == <<t, date>>

Hour == Minutes * Seconds
DAY == Hours * Hour

----------------------------------------------------------------------------
(* The functions *)

isleap(y) == y % 4 = 0 /\ (y % 100 # 0 \/ (y + 300) % 400 = 0)
yearsecs(y) == (365 + (IF isleap(y) THEN 1 ELSE 0)) * DAY

monthlen == <<31, 28, 31, 30, 31, 30, 31, 31, 30, 31, 30, 31>>
monthacc == <<0, 31, 59, 90, 120, 151, 181, 212, 243, 273, 304, 334>>
monthdays(y, m) == monthlen[m + 1] + (IF isleap(y) /\ m = 1 THEN 1 ELSE 0)

\* What gmtime's loops come to: the year and the seconds left in it; a year outside the
\* limits when they give up.
RECURSIVE Back(_, _)
Back(s, y) == IF s >= 0 \/ y < YEAR_MIN THEN <<y, s>> ELSE Back(s + yearsecs(y - 1), y - 1)

RECURSIVE On(_, _)
On(s, y) == IF s < yearsecs(y) \/ y > YEAR_MAX THEN <<y, s>> ELSE On(s - yearsecs(y), y + 1)

\* The month, and the day of the month.
RECURSIVE Month(_, _, _)
Month(day, y, m) == IF day < monthdays(y, m) THEN <<m, day + 1>> ELSE Month(day - monthdays(y, m), y, m + 1)

\* NULL is a record without a date.
NULL == [year |-> YEAR_MIN - 1]

gmtime(s) ==
  LET b == Back(s, 70)
      n == On(b[2], b[1])
      yday == n[2] \div DAY
      m == Month(yday, n[1], 0)
      t7 == s % (7 * DAY)
  IN  IF b[1] < YEAR_MIN \/ n[1] > YEAR_MAX THEN NULL ELSE
      [year |-> n[1], mon |-> m[1], mday |-> m[2],
       hour |-> (t7 \div Hour) % Hours, min |-> (t7 \div Seconds) % Minutes, sec |-> t7 % Seconds,
       wday |-> (t7 \div DAY + 4) % 7, yday |-> yday]

\* Division that rounds down, as divrd does.
divrd(a, b) == a \div b

\* Mutant: months past the end of the year are not carried into the year.
mktime_NoCarry(tm) ==
  IF tm.year < YEAR_MIN \/ \E f \in {"mon", "mday", "hour", "min", "sec"} : tm[f] < 0 THEN -1 ELSE
  LET year == tm.year
      mon == tm.mon % 12
      ly == year + (IF mon > 1 THEN 1 ELSE 0)
  IN  DAY * (tm.mday - 1 + monthacc[mon + 1] + 365 * (year - 70)
             + divrd(ly - 69, 4) - divrd(ly - 1, 100) + divrd(ly + 299, 400))
      + tm.hour * Hour + tm.min * Seconds + tm.sec

mktime(tm) ==
  IF tm.year < YEAR_MIN \/ \E f \in {"mon", "mday", "hour", "min", "sec"} : tm[f] < 0 THEN -1 ELSE
  LET year == tm.year + tm.mon \div 12
      mon == tm.mon % 12
      ly == year + (IF mon > 1 THEN 1 ELSE 0)
  IN  DAY * (tm.mday - 1 + monthacc[mon + 1] + 365 * (year - 70)
             + divrd(ly - 69, 4) - divrd(ly - 1, 100) + divrd(ly + 299, 400))
      + tm.hour * Hour + tm.min * Seconds + tm.sec

\* The last and the first moment of a date's year, month, day, ...: fields from `from' on.
Fields == <<"year", "mon", "mday", "hour", "min", "sec">>
Limit(tm, f) ==
  CASE f = "year" -> <<YEAR_MIN, YEAR_MAX>>
    [] f = "mon"  -> <<0, 11>>
    [] f = "mday" -> <<1, monthdays(tm.year, tm.mon)>>
    [] f = "hour" -> <<0, Hours - 1>>
    [] f = "min"  -> <<0, Minutes - 1>>
    [] f = "sec"  -> <<0, Seconds - 1>>

\* Every field from the i-th on at its lower (1) or upper (2) end.
Filled(tm, i, end) ==
  FoldLeft(LAMBDA d, f : [d EXCEPT ![f] = Limit(d, f)[end]], tm, SubSeq(Fields, i, Len(Fields)))

\* cltime: the first field out of range, and those after it, go to the end that was passed.
cltime(tm) ==
  LET Low(i) == tm[Fields[i]] < Limit(tm, Fields[i])[1]
      High(i) == tm[Fields[i]] > Limit(tm, Fields[i])[2]
      wrong == {i \in DOMAIN Fields : (\A j \in 1..(i - 1) : ~Low(j) /\ ~High(j)) /\ (Low(i) \/ High(i))}
  IN  IF wrong = {} THEN tm ELSE LET i == Min(wrong) IN Filled(tm, i, IF Low(i) THEN 1 ELSE 2)

----------------------------------------------------------------------------
(* The calendar *)

Leap(y) == LET a == y + 1900 IN (a % 4 = 0 /\ a % 100 # 0) \/ a % 400 = 0
Length(y, m) == IF m = 1 THEN (IF Leap(y) THEN 29 ELSE 28) ELSE IF m \in {3, 5, 8, 10} THEN 30 ELSE 31
YearDays(y) == IF Leap(y) THEN 366 ELSE 365

Date(y, m, d, wd, yd) ==
  [year |-> y, mon |-> m, mday |-> d, hour |-> 0, min |-> 0, sec |-> 0, wday |-> wd, yday |-> yd]
Midnight == date.hour = 0 /\ date.min = 0 /\ date.sec = 0
Turn(days, y, m, d, yd) == t' = t + days * DAY /\ date' = Date(y, m, d, (date.wday + days) % 7, yd)

Init == t = 0 /\ date = Date(70, 0, 1, 4, 0)

NextYear ==
  /\ Midnight /\ date.mon = 0 /\ date.mday = 1 /\ date.year < YEAR_MAX
  /\ Turn(YearDays(date.year), date.year + 1, 0, 1, 0)

LastYear ==
  /\ Midnight /\ date.mon = 0 /\ date.mday = 1 /\ date.year > YEAR_MIN
  /\ Turn(-YearDays(date.year - 1), date.year - 1, 0, 1, 0)

NextMonth ==
  /\ Midnight /\ date.mday = 1 /\ date.mon < 11
  /\ LET n == Length(date.year, date.mon) IN Turn(n, date.year, date.mon + 1, 1, date.yday + n)

NextDay ==
  /\ Midnight /\ date.mday < Length(date.year, date.mon)
  /\ Turn(1, date.year, date.mon, date.mday + 1, date.yday + 1)

\* The second after, within the day.
Tick ==
  /\ t' = t + 1
  /\ \/ date.sec < Seconds - 1 /\ date' = [date EXCEPT !.sec = @ + 1]
     \/ date.sec = Seconds - 1 /\ date.min < Minutes - 1 /\ date' = [date EXCEPT !.sec = 0, !.min = @ + 1]
     \/ /\ date.sec = Seconds - 1 /\ date.min = Minutes - 1 /\ date.hour < Hours - 1
        /\ date' = [date EXCEPT !.sec = 0, !.min = 0, !.hour = @ + 1]

Next == NextYear \/ LastYear \/ NextMonth \/ NextDay \/ Tick

Spec == Init /\ [][Next]_vars

----------------------------------------------------------------------------
(* Properties *)

\* gmtime tells the date and the weekday the calendar shows, all the years it knows.
GmtimeRight == gmtime(t) = date

\* gmtime refuses the moment before the first year and the one after the last.
GmtimeEnds ==
  LET first == Midnight /\ date.mon = 0 /\ date.mday = 1 /\ date.year = YEAR_MIN
      last == date.mon = 11 /\ date.mday = 31 /\ date.year = YEAR_MAX
              /\ date.hour = Hours - 1 /\ date.min = Minutes - 1 /\ date.sec = Seconds - 1
  IN  (first => gmtime(t - 1) = NULL) /\ (last => gmtime(t + 1) = NULL)

\* mktime is gmtime's inverse, and takes months past the year's end for those of the next
\* years, as the library's callers add to tm_mon.
MktimeRight ==
  /\ mktime(date) = t
  /\ date.year > YEAR_MIN => mktime([date EXCEPT !.year = @ - 1, !.mon = @ + 12]) = t

\* A date cltime has cleaned exists: gmtime gives it for some moment, and mktime is that
\* moment.  Dates that exist are left alone (cltime).
Exists(tm) ==
  \A i \in DOMAIN Fields : LET l == Limit(tm, Fields[i]) IN l[1] <= tm[Fields[i]] /\ tm[Fields[i]] <= l[2]

CltimeRight ==
  /\ cltime(date) = date
  /\ \A f \in {"year", "mon", "mday", "hour", "min", "sec"}, v \in Wild :
       LET c == cltime([date EXCEPT ![f] = v])
           g == gmtime(mktime(c))
       IN  Exists(c) /\ \A k \in {"year", "mon", "mday", "hour", "min", "sec"} : g[k] = c[k]
=============================================================================
