---- MODULE CalendarTime ----
(***************************************************************************)
(* The calendar of ec/user/user_time.c: ec_mktime makes a timestamp of the *)
(* date the server tells in China Standard Time, ec_gmtime makes a date of *)
(* the timestamp for the alarms.  The two are written independently, with  *)
(* tables of their own.  The module walks from one midnight to the next,   *)
(* with a calendar that only knows the date that follows a date, and       *)
(* compares.  C's long and time_t have 32 bits here and the walk stays     *)
(* inside them.                                                            *)
(***************************************************************************)
EXTENDS Integers

CONSTANTS
    LastYear,               \* bound: the walk ends with this year
    Moments                 \* the seconds of the day that are looked at

SECSPERMIN  == 60
SECSPERHOUR == 3600
SECSPERDAY  == 86400
SECSPEGMT8  == 8 * SECSPERHOUR
EPOCH_YEAR  == 1970
EPOCH_WDAY  == 4
YEAR_BASE   == 1900

ASSUME CalendarAssumption ==
    /\ LastYear \in EPOCH_YEAR .. 2037
    /\ Moments \subseteq 0 .. SECSPERDAY - 1

isleap(y) == (y % 4 = 0 /\ y % 100 # 0) \/ y % 400 = 0

mon_lengths(y) == IF isleap(y)
                  THEN <<31, 29, 31, 30, 31, 30, 31, 31, 30, 31, 30, 31>>
                  ELSE <<31, 28, 31, 30, 31, 30, 31, 31, 30, 31, 30, 31>>

mon_yday(y) == IF isleap(y)
               THEN <<0, 31, 60, 91, 121, 152, 182, 213, 244, 274, 305, 335>>
               ELSE <<0, 31, 59, 90, 120, 151, 181, 212, 243, 273, 304, 334>>

year_lengths(y) == IF isleap(y) THEN 366 ELSE 365

---------------------------------------------------------------------------
(* ec_gmtime.                                                              *)

\* The days from the epoch to the first of January of y, which the two loops
\* of ec_gmtime add up or take off year by year.
YearStart[y \in EPOCH_YEAR - 1 .. LastYear + 1] ==
    IF y < EPOCH_YEAR THEN -year_lengths(y)
    ELSE IF y = EPOCH_YEAR THEN 0
    ELSE YearStart[y - 1] + year_lengths(y - 1)

YearOf(days) ==
    CHOOSE y \in DOMAIN YearStart :
        YearStart[y] <= days /\ days < YearStart[y] + year_lengths(y)

\* The days of the year y before each month, which the loop over mon_lengths
\* takes off.
MonthStart(y) ==
    LET ip == mon_lengths(y)
        Before[m \in 1 .. 13] == IF m = 1 THEN 0 ELSE Before[m - 1] + ip[m - 1]
    IN  Before

\* The date in Greenwich.  tm_mon counts from 0, tm_mday from 1.
Greenwich(t) ==
    LET days == t \div SECSPERDAY
        rem  == t % SECSPERDAY
        y    == YearOf(days)
        yday == days - YearStart[y]
        before == MonthStart(y)
        mon  == CHOOSE m \in 1 .. 12 :
                    before[m] <= yday /\ yday < before[m + 1]
    IN  [tm_hour |-> rem \div SECSPERHOUR,
         tm_min  |-> (rem % SECSPERHOUR) \div SECSPERMIN,
         tm_sec  |-> rem % SECSPERMIN,
         tm_wday |-> (EPOCH_WDAY + days) % 7,
         tm_year |-> y - YEAR_BASE,
         tm_mon  |-> mon - 1,
         tm_mday |-> yday - before[mon] + 1]

\* Slip: the day after Saturday is not Sunday.
NextDay_NoSunday(tm) ==
    LET len == mon_lengths(tm.tm_year + YEAR_BASE)[tm.tm_mon + 1]
        w   == [tm EXCEPT !.tm_wday = @ + 1]
    IN  IF tm.tm_mday + 1 <= len THEN [w EXCEPT !.tm_mday = @ + 1]
        ELSE IF tm.tm_mon + 1 < 12
        THEN [w EXCEPT !.tm_mday = @ + 1 - len, !.tm_mon = @ + 1]
        ELSE [w EXCEPT !.tm_mday = @ + 1 - len, !.tm_mon = 0, !.tm_year = @ + 1]

\* The carry of ec_gmtime when the hour passes midnight; tm_yday is left out,
\* nobody reads it.
NextDay(tm) ==
    LET len == mon_lengths(tm.tm_year + YEAR_BASE)[tm.tm_mon + 1]
        w   == [tm EXCEPT !.tm_wday = IF @ = 6 THEN 0 ELSE @ + 1]
    IN  IF tm.tm_mday + 1 <= len THEN [w EXCEPT !.tm_mday = @ + 1]
        ELSE IF tm.tm_mon + 1 < 12
        THEN [w EXCEPT !.tm_mday = @ + 1 - len, !.tm_mon = @ + 1]
        ELSE [w EXCEPT !.tm_mday = @ + 1 - len, !.tm_mon = 0, !.tm_year = @ + 1]

\* The offset of eight hours has no minutes and no seconds.
ec_gmtime(t) ==
    LET tm == Greenwich(t)
        h  == tm.tm_hour + SECSPEGMT8 \div SECSPERHOUR
    IN  IF h >= 24 THEN [NextDay(tm) EXCEPT !.tm_hour = h - 24]
                   ELSE [tm EXCEPT !.tm_hour = h]

---------------------------------------------------------------------------
(* ec_mktime.                                                              *)

get_day(year) ==
    LET y == year - 1
    IN  y * 365 + y \div 4 - y \div 100 + y \div 400

ec_mktime(year, mon, day, hour, min, sec) ==
    LET tol_day == get_day(year) - get_day(EPOCH_YEAR)
                       + mon_yday(year)[mon] + day - 1
    IN  tol_day * SECSPERDAY + hour * SECSPERHOUR + min * SECSPERMIN + sec
            - SECSPEGMT8

---------------------------------------------------------------------------
(* The walk over the days.                                                 *)

VARIABLES
    year, month, mday, wday,
    days                    \* days walked

calVars == <<year, month, mday, wday, days>>

CalInit == year = EPOCH_YEAR /\ month = 1 /\ mday = 1 /\ wday = EPOCH_WDAY /\ days = 0

LengthOfMonth ==
    IF month = 2 THEN IF year % 4 # 0 \/ (year % 100 = 0 /\ year % 400 # 0) THEN 28 ELSE 29
    ELSE IF month \in {4, 6, 9, 11} THEN 30 ELSE 31

SameMonth ==
    /\ mday < LengthOfMonth
    /\ mday' = mday + 1
    /\ UNCHANGED <<year, month>>

NextMonth ==
    /\ mday = LengthOfMonth /\ month < 12
    /\ mday' = 1 /\ month' = month + 1
    /\ UNCHANGED year

NextYear ==
    /\ mday = LengthOfMonth /\ month = 12 /\ year < LastYear
    /\ mday' = 1 /\ month' = 1 /\ year' = year + 1

CalNext ==
    /\ SameMonth \/ NextMonth \/ NextYear
    /\ wday' = (wday + 1) % 7
    /\ days' = days + 1

CalSpec == CalInit /\ [][CalNext]_calVars

---------------------------------------------------------------------------
(* Properties.                                                             *)

\* The ranges of the variables.
CalTypeOK ==
    /\ year \in EPOCH_YEAR .. LastYear /\ month \in 1 .. 12 /\ mday \in 1 .. LengthOfMonth
    /\ wday \in 0 .. 6 /\ days \in Nat

\* The date at the second s of this day, as ec_gmtime should give it.
Expected(s) ==
    [tm_hour |-> s \div 3600, tm_min |-> (s % 3600) \div 60, tm_sec |-> s % 60,
     tm_wday |-> wday, tm_year |-> year - 1900, tm_mon |-> month - 1,
     tm_mday |-> mday]

\* The timestamp of a date that the server tells (ec_mktime) counts the seconds
\* since the epoch, so that the difference of two is a time to wait, and is
\* turned back into that date (ec_gmtime), with the day of the week the alarms
\* go by.
RoundTrip ==
    \A s \in Moments :
        LET t == days * SECSPERDAY + s - SECSPEGMT8
        IN  /\ ec_mktime(year, month, mday, s \div 3600, (s % 3600) \div 60, s % 60) = t
            /\ ec_gmtime(t) = Expected(s)
====
