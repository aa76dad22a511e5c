---- MODULE LibraryProofs ----
(***************************************************************************)
(* Proofs about what the firmware is built on: the calendar                *)
(* (CalendarTime), the packet filter (IksFilter) and the object stack      *)
(* (IksStack).  A date becomes a timestamp and the timestamp that date     *)
(* again, in every year up to the end of the 32 bits.  For every set of    *)
(* rules, hooks and packets and any number of calls the list of rules      *)
(* stays sound, the hooks are asked by score, and iks_filter_remove_hook   *)
(* leaves what it has to.  For every size of chunks, structs and strings   *)
(* and any number of calls what the callers of a stack hold lies in its    *)
(* chunk, keeps its bytes and meets no other block.                        *)
(***************************************************************************)
EXTENDS CalendarTime, IksFilter, IksStack, ModArith, SequenceTheorems

---------------------------------------------------------------------------
(* Years.                                                                  *)

\* The years a date in Greenwich may have.
Years == EPOCH_YEAR - 1 .. LastYear

\* Between 1968 and 2038 only one year is a whole century, and it is leap.
LEMMA Centuries ==
    ASSUME NEW y \in 1968 .. 2038
    PROVE  /\ isleap(y) <=> y % 4 = 0
           /\ y \div 100 = IF y < 2000 THEN 19 ELSE 20
           /\ y \div 400 = IF y < 2000 THEN 4 ELSE 5
<1>1. y % 100 = IF y < 2000 THEN y - 1900 ELSE y - 2000
  BY SMTT(60)
<1>2. y % 400 = IF y < 2000 THEN y - 1600 ELSE y - 2000
  BY SMTT(60)
<1>3. /\ y \div 100 = IF y < 2000 THEN 19 ELSE 20
      /\ y \div 400 = IF y < 2000 THEN 4 ELSE 5
  <2>1. y \div 100 = IF y < 2000 THEN 19 ELSE 20
    BY SMTT(60)
  <2>2. y \div 400 = IF y < 2000 THEN 4 ELSE 5
    BY SMTT(60)
  <2> QED
    BY <2>1, <2>2
<1>4. y = 2000 => y % 4 = 0
  OBVIOUS
<1>5. isleap(y) <=> y % 4 = 0
  BY <1>1, <1>2, <1>4 DEF isleap
<1> QED
  BY <1>3, <1>5

\* The days before the first of January of y, counted by ec_mktime.
FirstDay(y) == get_day(y) - get_day(EPOCH_YEAR)

\* The closed form of ec_mktime grows by the length of the year.
LEMMA YearLength ==
    ASSUME NEW y \in 1969 .. 2037
    PROVE  /\ FirstDay(y) \in Int
           /\ FirstDay(y + 1) = FirstDay(y) + year_lengths(y)
           /\ year_lengths(y) \in 365 .. 366
<1> DEFINE x == y - 1
<1>1. /\ x \in 1968 .. 2038 /\ y \in 1968 .. 2038 /\ y + 1 - 1 = y
  OBVIOUS
<1>2. y \div 4 = IF y % 4 = 0 THEN x \div 4 + 1 ELSE x \div 4
  OBVIOUS
<1>3. x \div 4 \in Int
  OBVIOUS
<1>4. get_day(y) = x * 365 + x \div 4 - x \div 100 + x \div 400
  BY DEF get_day
<1>5. get_day(y + 1) = y * 365 + y \div 4 - y \div 100 + y \div 400
  BY <1>1 DEF get_day
<1>6. year_lengths(y) = IF y % 4 = 0 THEN 366 ELSE 365
  BY <1>1, Centuries DEF year_lengths
<1>7. x \div 100 \in {19, 20} /\ x \div 400 \in {4, 5}
  BY <1>1, Centuries
<1>8. y \div 100 - y \div 400 = x \div 100 - x \div 400
  BY <1>1, Centuries
<1>9. get_day(y) \in Int
  BY <1>3, <1>4, <1>7
<1>10. get_day(EPOCH_YEAR) \in Int
  BY DEF get_day, EPOCH_YEAR
<1>11. get_day(y + 1) = get_day(y) + year_lengths(y)
  <2>1. y \div 100 \in {19, 20} /\ y \div 400 \in {4, 5}
    BY <1>1, Centuries
  <2> QED
    BY <1>2, <1>3, <1>4, <1>5, <1>6, <1>7, <1>8, <2>1
<1>12. year_lengths(y) \in 365 .. 366
  BY <1>6
<1> QED
  BY <1>9, <1>10, <1>11, <1>12 DEF FirstDay

LEMMA YearInts ==
    ASSUME NEW y \in 1969 .. 2037
    PROVE  FirstDay(y) \in Int /\ year_lengths(y) \in 365 .. 366
BY YearLength, SMTT(30)

\* A later year begins after an earlier one has ended.
LEMMA YearsInOrder ==
    ASSUME NEW y \in 1969 .. 2037, NEW z \in 1969 .. 2038, y < z
    PROVE  FirstDay(z) \in Int /\ FirstDay(z) >= FirstDay(y) + year_lengths(y)
<1>1. ASSUME NEW u \in 1969 .. 2038
      PROVE  FirstDay(u) = 365 * (u - 1970) + (u - 1) \div 4 - 492
  <2> DEFINE x == u - 1
  <2>1. x \in 1968 .. 2038 /\ x \div 4 \in Int
    OBVIOUS
  <2>2. x \div 100 - x \div 400 = 15 /\ x \div 100 \in Int /\ x \div 400 \in Int
    BY <2>1, Centuries
  <2>3. get_day(u) = x * 365 + x \div 4 - x \div 100 + x \div 400
    BY DEF get_day
  <2>4. get_day(EPOCH_YEAR) = 1969 * 365 + 492 - 19 + 4
    BY DEF get_day, EPOCH_YEAR
  <2> QED
    BY <2>1, <2>2, <2>3, <2>4 DEF FirstDay
<1>2. y \div 4 <= (z - 1) \div 4 /\ (z - 1) \div 4 \in Int /\ y \div 4 \in Int
  OBVIOUS
<1>3. FirstDay(z) >= FirstDay(y + 1)
  <2>1. FirstDay(y + 1) = 365 * (y + 1 - 1970) + y \div 4 - 492
    BY <1>1
  <2>2. FirstDay(z) = 365 * (z - 1970) + (z - 1) \div 4 - 492
    BY <1>1
  <2> QED
    BY <1>2, <2>1, <2>2
<1>4. FirstDay(z) \in Int
  BY <1>1, <1>2
<1>5. FirstDay(y + 1) = FirstDay(y) + year_lengths(y)
  BY YearLength, SMTT(30)
<1> QED
  BY <1>3, <1>4, <1>5

\* What the loops of ec_gmtime add up year by year is what ec_mktime counts.
LEMMA YearStarts ==
    ASSUME NEW y \in EPOCH_YEAR - 1 .. LastYear + 1
    PROVE  /\ YearStart[y] = FirstDay(y)
           /\ DOMAIN YearStart = EPOCH_YEAR - 1 .. LastYear + 1
<1> DEFINE D == EPOCH_YEAR - 1 .. LastYear + 1
<1> DEFINE Sum(f, u) == IF u < EPOCH_YEAR THEN -year_lengths(u)
                        ELSE IF u = EPOCH_YEAR THEN 0
                        ELSE f[u - 1] + year_lengths(u - 1)
<1> DEFINE Rec(f) == f = [u \in D |-> Sum(f, u)]
<1> DEFINE g == [u \in D |-> FirstDay(u)]
<1>0. EPOCH_YEAR = 1970 /\ LastYear \in 1970 .. 2037
  BY CalendarAssumption DEF EPOCH_YEAR
<1>1. ASSUME NEW u \in D, NEW f, u > EPOCH_YEAR => f[u - 1] = FirstDay(u - 1)
      PROVE  Sum(f, u) = FirstDay(u)
  <2>1. CASE u < EPOCH_YEAR
    <3>1. u = 1969 /\ u \in 1969 .. 2037
      BY <1>0, <2>1
    <3>2. FirstDay(1969 + 1) = FirstDay(1969) + year_lengths(1969) /\ FirstDay(1969) \in Int
      BY <3>1, YearLength
    <3>3. FirstDay(1970) = 0
      BY <1>0 DEF FirstDay, get_day
    <3>4. year_lengths(1969) \in Int
      BY <3>1, YearInts
    <3> QED
      BY <1>0, <2>1, <3>1, <3>2, <3>3, <3>4
  <2>2. CASE u = EPOCH_YEAR
    BY <1>0, <2>2 DEF FirstDay, get_day
  <2>3. CASE u > EPOCH_YEAR
    <3>1. u - 1 \in 1969 .. 2037 /\ (u - 1) + 1 = u
      BY <1>0, <2>3
    <3>2. FirstDay((u - 1) + 1) = FirstDay(u - 1) + year_lengths(u - 1)
      BY <3>1, YearLength, SMTT(30)
    <3> QED
      BY <1>0, <1>1, <2>3, <3>1, <3>2
  <2> QED
    BY <1>0, <2>1, <2>2, <2>3
<1>2. Rec(g)
  <2>1. ASSUME NEW u \in D
        PROVE  Sum(g, u) = FirstDay(u)
    <3>1. u > EPOCH_YEAR => u - 1 \in D
      BY <1>0
    <3>2. u > EPOCH_YEAR => g[u - 1] = FirstDay(u - 1)
      BY <3>1
    <3> HIDE DEF g, Sum
    <3> QED
      BY <3>2, <1>1
  <2> HIDE DEF Sum
  <2> QED
    BY <2>1
<1>3. YearStart = CHOOSE f : Rec(f)
  BY DEF YearStart
<1>4. Rec(YearStart)
  BY <1>2, <1>3
<1> HIDE DEF Sum
<1>5. /\ \A u \in D : YearStart[u] = Sum(YearStart, u)
      /\ DOMAIN YearStart = D
  BY <1>4
<1> DEFINE Bad == {u \in Nat : u \in D /\ YearStart[u] # FirstDay(u)}
<1>6. ASSUME Bad # {} PROVE FALSE
  <2>1. PICK u \in Bad : \A v \in Bad : v >= u
    BY <1>6, LeastNatural
  <2>2. u \in D /\ YearStart[u] # FirstDay(u)
    OBVIOUS
  <2>3. u > EPOCH_YEAR => u - 1 \in D /\ u - 1 \in Nat /\ ~(u - 1 >= u)
    BY <1>0, <2>2
  <2>4. u > EPOCH_YEAR => YearStart[u - 1] = FirstDay(u - 1)
    BY <2>1, <2>3
  <2> QED
    BY <1>1, <1>5, <2>2, <2>4
<1>7. y \in Nat
  BY <1>0
<1> QED
  BY <1>5, <1>6, <1>7

\* A day of the year y is in that year and no other.
LEMMA YearFound ==
    ASSUME NEW y \in Years, NEW yday \in 0 .. year_lengths(y) - 1
    PROVE  YearOf(FirstDay(y) + yday) = y
<1> DEFINE d == FirstDay(y) + yday
<1> DEFINE In(z) == YearStart[z] <= d /\ d < YearStart[z] + year_lengths(z)
<1>0. EPOCH_YEAR = 1970 /\ LastYear \in 1970 .. 2037 /\ y \in 1969 .. 2037
  BY CalendarAssumption DEF EPOCH_YEAR, Years
<1>1. FirstDay(y) \in Int /\ year_lengths(y) \in Int
  BY <1>0, YearInts
<1>2. /\ y \in DOMAIN YearStart /\ YearStart[y] = FirstDay(y)
      /\ DOMAIN YearStart = 1969 .. LastYear + 1
  <2>1. EPOCH_YEAR - 1 = 1969 /\ y \in EPOCH_YEAR - 1 .. LastYear + 1
    BY <1>0 DEF Years
  <2>2. YearStart[y] = FirstDay(y) /\ DOMAIN YearStart = EPOCH_YEAR - 1 .. LastYear + 1
    BY <2>1, YearStarts
  <2> QED
    BY <2>1, <2>2
<1>3. In(y)
  BY <1>1, <1>2
<1>4. ASSUME NEW z \in DOMAIN YearStart, In(z)
      PROVE  z = y
  <2>1. z \in 1969 .. 2038 /\ YearStart[z] = FirstDay(z)
    <3>1. z \in 1969 .. LastYear + 1
      BY <1>2
    <3>2. z \in EPOCH_YEAR - 1 .. LastYear + 1 /\ z \in 1969 .. 2038
      BY <1>0, <3>1
    <3> QED
      BY <3>2, YearStarts
  <2>2. CASE z < y
    <3>1. z \in 1969 .. 2037
      BY <1>0, <2>1, <2>2
    <3>2. FirstDay(y) >= FirstDay(z) + year_lengths(z)
      BY <1>0, <2>2, <3>1, YearsInOrder
    <3>3. FirstDay(z) \in Int /\ year_lengths(z) \in Int
      BY <3>1, YearInts
    <3> QED
      BY <1>1, <1>4, <2>1, <3>2, <3>3
  <2>3. CASE z > y
    <3>1. FirstDay(z) \in Int /\ FirstDay(z) >= FirstDay(y) + year_lengths(y)
      BY <1>0, <2>1, <2>3, YearsInOrder
    <3> QED
      BY <1>1, <1>4, <2>1, <3>1
  <2> QED
    BY <1>0, <2>1, <2>2, <2>3
<1>5. YearOf(d) = CHOOSE z \in DOMAIN YearStart : In(z)
  BY DEF YearOf
<1> HIDE DEF In
<1> QED
  BY <1>2, <1>3, <1>4, <1>5

---------------------------------------------------------------------------
(* Months.                                                                 *)

\* The days of y before the month m, by the table of ec_mktime; those of the
\* whole year for the month after the last.
Elapsed(y, m) == IF m = 13 THEN year_lengths(y) ELSE mon_yday(y)[m]

\* The two tables agree.
LEMMA MonthLength ==
    ASSUME NEW y, NEW m \in 1 .. 12
    PROVE  /\ mon_lengths(y)[m] \in 28 .. 31
           /\ Elapsed(y, m) \in Nat /\ Elapsed(y, 1) = 0
           /\ Elapsed(y, m + 1) = Elapsed(y, m) + mon_lengths(y)[m]
           /\ Elapsed(y, m) = mon_yday(y)[m]
<1>1. m \in {1, 2, 3, 4, 5, 6, 7, 8, 9, 10, 11, 12}
  OBVIOUS
<1>2. CASE isleap(y)
  <2>1. /\ mon_lengths(y) = <<31, 29, 31, 30, 31, 30, 31, 31, 30, 31, 30, 31>>
        /\ mon_yday(y) = <<0, 31, 60, 91, 121, 152, 182, 213, 244, 274, 305, 335>>
        /\ year_lengths(y) = 366
    BY <1>2 DEF mon_lengths, mon_yday, year_lengths
  <2> QED
    BY <1>1, <2>1 DEF Elapsed
<1>3. CASE ~isleap(y)
  <2>1. /\ mon_lengths(y) = <<31, 28, 31, 30, 31, 30, 31, 31, 30, 31, 30, 31>>
        /\ mon_yday(y) = <<0, 31, 59, 90, 120, 151, 181, 212, 243, 273, 304, 334>>
        /\ year_lengths(y) = 365
    BY <1>3 DEF mon_lengths, mon_yday, year_lengths
  <2> QED
    BY <1>1, <2>1 DEF Elapsed
<1> QED
  BY <1>2, <1>3

\* A later month begins after an earlier one has ended.
LEMMA MonthsInOrder ==
    ASSUME NEW y, NEW m \in 1 .. 12, NEW n \in 1 .. 13, m < n
    PROVE  Elapsed(y, n) \in Int /\ Elapsed(y, n) >= Elapsed(y, m + 1)
<1> DEFINE e(k) == Elapsed(y, k)
<1>1. \A k \in 1 .. 12 : e(k) \in Int /\ e(k + 1) \in Int /\ e(k) <= e(k + 1)
  <2> SUFFICES ASSUME NEW k \in 1 .. 12
               PROVE  e(k) \in Int /\ e(k + 1) \in Int /\ e(k) <= e(k + 1)
    OBVIOUS
  <2>1. /\ mon_lengths(y)[k] \in 28 .. 31 /\ e(k) \in Nat
        /\ e(k + 1) = e(k) + mon_lengths(y)[k]
    BY MonthLength
  <2> QED
    BY <2>1
<1> HIDE DEF e
<1>2. /\ e(2) <= e(3) /\ e(3) <= e(4) /\ e(4) <= e(5) /\ e(5) <= e(6)
      /\ e(6) <= e(7) /\ e(7) <= e(8) /\ e(8) <= e(9) /\ e(9) <= e(10)
      /\ e(10) <= e(11) /\ e(11) <= e(12) /\ e(12) <= e(13)
  <2>1. /\ e(2) <= e(2 + 1) /\ e(3) <= e(3 + 1) /\ e(4) <= e(4 + 1) /\ e(5) <= e(5 + 1)
        /\ e(6) <= e(6 + 1) /\ e(7) <= e(7 + 1) /\ e(8) <= e(8 + 1) /\ e(9) <= e(9 + 1)
        /\ e(10) <= e(10 + 1) /\ e(11) <= e(11 + 1) /\ e(12) <= e(12 + 1)
    BY <1>1
  <2> QED
    BY <2>1
<1>3. /\ e(2) \in Int /\ e(3) \in Int /\ e(4) \in Int /\ e(5) \in Int /\ e(6) \in Int
      /\ e(7) \in Int /\ e(8) \in Int /\ e(9) \in Int /\ e(10) \in Int
      /\ e(11) \in Int /\ e(12) \in Int /\ e(12 + 1) \in Int
  BY <1>1
<1>4. /\ m + 1 \in {2, 3, 4, 5, 6, 7, 8, 9, 10, 11, 12, 13}
      /\ n \in {2, 3, 4, 5, 6, 7, 8, 9, 10, 11, 12, 13}
      /\ m + 1 <= n
  OBVIOUS
<1>5. e(n) \in Int /\ e(n) >= e(m + 1)
  <2> DEFINE k == m + 1
  <2>1. /\ k \in {2, 3, 4, 5, 6, 7, 8, 9, 10, 11, 12, 13} /\ k <= n
    BY <1>4
  <2> HIDE DEF k
  <2>2. e(n) \in Int /\ e(n) >= e(k)
    BY <1>2, <1>3, <1>4, <2>1
  <2> QED
    BY <2>2 DEF k
<1> QED
  BY <1>5 DEF e

\* What the loop over mon_lengths takes off is what the table of ec_mktime
\* says.
LEMMA MonthStarts ==
    ASSUME NEW y, NEW m \in 1 .. 13
    PROVE  MonthStart(y)[m] = Elapsed(y, m)
<1> DEFINE ip == mon_lengths(y)
<1> DEFINE Rec(f) == f = [k \in 1 .. 13 |-> IF k = 1 THEN 0 ELSE f[k - 1] + ip[k - 1]]
<1> DEFINE g == [k \in 1 .. 13 |-> Elapsed(y, k)]
<1>1. \A k \in 2 .. 13 : Elapsed(y, k) = Elapsed(y, k - 1) + ip[k - 1]
  <2> SUFFICES ASSUME NEW k \in 2 .. 13
               PROVE  Elapsed(y, k) = Elapsed(y, k - 1) + ip[k - 1]
    OBVIOUS
  <2>1. k - 1 \in 1 .. 12 /\ (k - 1) + 1 = k
    OBVIOUS
  <2> QED
    BY <2>1, MonthLength
<1>2. Elapsed(y, 1) = 0
  BY MonthLength
<1> HIDE DEF ip
<1>3. Rec(g)
  <2>1. ASSUME NEW k \in 1 .. 13
        PROVE  Elapsed(y, k) = IF k = 1 THEN 0 ELSE g[k - 1] + ip[k - 1]
    <3>1. CASE k = 1
      BY <1>2, <3>1
    <3>2. CASE k # 1
      <4>1. k \in 2 .. 13 /\ k - 1 \in 1 .. 13
        BY <3>2
      <4> QED
        BY <1>1, <3>2, <4>1
    <3> QED
      BY <3>1, <3>2
  <2> QED
    BY <2>1
<1>4. MonthStart(y) = CHOOSE f : Rec(f)
  BY DEF MonthStart, ip
<1>5. PICK f : Rec(f) /\ f = MonthStart(y)
  BY <1>3, <1>4
<1>6. f[1] = Elapsed(y, 1)
  BY <1>2, <1>5
<1>7. \A k \in 2 .. 13 : f[k] = f[k - 1] + ip[k - 1]
  BY <1>5
<1>8. ASSUME NEW k \in 2 .. 13, f[k - 1] = Elapsed(y, k - 1)
      PROVE  f[k] = Elapsed(y, k)
  BY <1>1, <1>7, <1>8
<1>9. /\ f[2 - 1] = Elapsed(y, 2 - 1) => f[2] = Elapsed(y, 2)
      /\ f[3 - 1] = Elapsed(y, 3 - 1) => f[3] = Elapsed(y, 3)
      /\ f[4 - 1] = Elapsed(y, 4 - 1) => f[4] = Elapsed(y, 4)
      /\ f[5 - 1] = Elapsed(y, 5 - 1) => f[5] = Elapsed(y, 5)
      /\ f[6 - 1] = Elapsed(y, 6 - 1) => f[6] = Elapsed(y, 6)
      /\ f[7 - 1] = Elapsed(y, 7 - 1) => f[7] = Elapsed(y, 7)
      /\ f[8 - 1] = Elapsed(y, 8 - 1) => f[8] = Elapsed(y, 8)
      /\ f[9 - 1] = Elapsed(y, 9 - 1) => f[9] = Elapsed(y, 9)
      /\ f[10 - 1] = Elapsed(y, 10 - 1) => f[10] = Elapsed(y, 10)
      /\ f[11 - 1] = Elapsed(y, 11 - 1) => f[11] = Elapsed(y, 11)
      /\ f[12 - 1] = Elapsed(y, 12 - 1) => f[12] = Elapsed(y, 12)
      /\ f[13 - 1] = Elapsed(y, 13 - 1) => f[13] = Elapsed(y, 13)
  BY <1>8
<1>10. f[m] = Elapsed(y, m)
  <2>1. m \in {1, 2, 3, 4, 5, 6, 7, 8, 9, 10, 11, 12, 13}
    OBVIOUS
  <2>2. /\ 2 - 1 = 1 /\ 3 - 1 = 2 /\ 4 - 1 = 3 /\ 5 - 1 = 4 /\ 6 - 1 = 5 /\ 7 - 1 = 6
        /\ 8 - 1 = 7 /\ 9 - 1 = 8 /\ 10 - 1 = 9 /\ 11 - 1 = 10 /\ 12 - 1 = 11
        /\ 13 - 1 = 12
    OBVIOUS
  <2> QED
    BY <1>6, <1>9, <2>1, <2>2
<1> QED
  BY <1>5, <1>10

---------------------------------------------------------------------------
(* Dates.                                                                  *)

\* The days from the epoch to a date, as ec_mktime counts them.
Day(y, m, d) == FirstDay(y) + mon_yday(y)[m] + d - 1

LEMMA DayIsInt ==
    ASSUME NEW y \in Years, NEW m \in 1 .. 12, NEW d \in Int
    PROVE  Day(y, m, d) \in Int
<1>1. y \in 1969 .. 2037
  BY CalendarAssumption DEF EPOCH_YEAR, Years
<1>2. FirstDay(y) \in Int
  BY <1>1, YearInts
<1>3. mon_yday(y)[m] \in Int
  <2>1. Elapsed(y, m) \in Nat /\ Elapsed(y, m) = mon_yday(y)[m]
    BY MonthLength
  <2> QED
    BY <2>1
<1> QED
  BY <1>2, <1>3 DEF Day

\* A second of a day is told in hours, minutes and seconds, and they make up
\* the second again.
LEMMA Clock ==
    ASSUME NEW s \in Int, 0 <= s, s < SECSPERDAY
    PROVE  /\ s \div 3600 \in 0 .. 23
           /\ (s \div 3600) * SECSPERHOUR + ((s % 3600) \div 60) * SECSPERMIN + (s % 60) = s
<1>1. s \div 3600 \in 0 .. 23
  BY SMT DEF SECSPERDAY
<1>2. s % 3600 = 60 * ((s % 3600) \div 60) + (s % 60)
  BY SMT
<1>3. s = 3600 * (s \div 3600) + (s % 3600)
  BY SMT
<1>4. (s \div 3600) * 3600 + ((s % 3600) \div 60) * 60 + (s % 60) = s
  BY <1>2, <1>3, SMT
<1>5. SECSPERHOUR = 3600 /\ SECSPERMIN = 60
  BY DEF SECSPERHOUR, SECSPERMIN
<1> QED
  BY <1>1, <1>4, <1>5

\* A number of whole days and the seconds of a day.
LEMMA DayAndRest ==
    ASSUME NEW d \in Int, NEW r \in Int, 0 <= r, r < SECSPERDAY
    PROVE  /\ (d * SECSPERDAY + r) \div SECSPERDAY = d
           /\ (d * SECSPERDAY + r) % SECSPERDAY = r
<1> DEFINE t == d * 86400 + r
<1>1. t \div 86400 = d
  BY SMT DEF SECSPERDAY
<1>2. t \in Int
  BY SMT
<1> HIDE DEF t
<1>3. t = 86400 * (t \div 86400) + (t % 86400) /\ t % 86400 \in Int
  BY <1>2, SMT
<1>4. t % 86400 = t - 86400 * d
  BY <1>1, <1>2, <1>3, SMT
<1>5. t - 86400 * d = r
  BY SMT DEF t
<1> QED
  BY <1>1, <1>4, <1>5 DEF t, SECSPERDAY

\* The clock of a moment some hours later.
LEMMA HoursLater ==
    ASSUME NEW r \in Int, NEW k \in Int
    PROVE  /\ (r + 3600 * k) \div 3600 = (r \div 3600) + k
           /\ (r + 3600 * k) % 3600 = r % 3600
           /\ (r + 3600 * k) % 60 = r % 60
BY SMT

\* The second r of the day n, which is the date y, m, d.
Told(r, n, y, m, d) ==
    [tm_hour |-> r \div SECSPERHOUR, tm_min |-> (r % SECSPERHOUR) \div SECSPERMIN,
     tm_sec |-> r % SECSPERMIN, tm_wday |-> (EPOCH_WDAY + n) % 7,
     tm_year |-> y - YEAR_BASE, tm_mon |-> m - 1, tm_mday |-> d]

\* The date of a moment in Greenwich.
LEMMA GreenwichDate ==
    ASSUME NEW y \in Years, NEW m \in 1 .. 12, NEW d \in 1 .. mon_lengths(y)[m],
           NEW r \in Int, 0 <= r, r < SECSPERDAY
    PROVE  Greenwich(Day(y, m, d) * SECSPERDAY + r) = Told(r, Day(y, m, d), y, m, d)
<1> DEFINE t == Day(y, m, d) * SECSPERDAY + r
<1> DEFINE yday == Elapsed(y, m) + d - 1
<1>0. EPOCH_YEAR = 1970 /\ LastYear \in 1970 .. 2037 /\ y \in 1969 .. 2037
  BY CalendarAssumption DEF EPOCH_YEAR, Years
<1>1. /\ mon_lengths(y)[m] \in 28 .. 31 /\ Elapsed(y, m) \in Nat
      /\ Elapsed(y, m + 1) = Elapsed(y, m) + mon_lengths(y)[m]
      /\ Elapsed(y, m) = mon_yday(y)[m]
  BY MonthLength
<1>2. FirstDay(y) \in Int /\ year_lengths(y) \in 365 .. 366
  BY <1>0, YearInts
<1>3. d \in Int /\ d >= 1 /\ d <= mon_lengths(y)[m] /\ mon_lengths(y)[m] \in Int
  BY <1>1
<1>4. /\ yday \in Int /\ Elapsed(y, m) <= yday /\ yday < Elapsed(y, m + 1)
      /\ yday - Elapsed(y, m) + 1 = d
  BY <1>1, <1>3
<1>5. yday \in 0 .. year_lengths(y) - 1
  <2>1. m + 1 \in 2 .. 13 /\ m < 13
    OBVIOUS
  <2>2. Elapsed(y, 13) = year_lengths(y)
    BY DEF Elapsed
  <2>3. Elapsed(y, 13) >= Elapsed(y, m + 1) /\ Elapsed(y, m + 1) \in Int
    BY <1>1, <2>1, MonthsInOrder
  <2> QED
    BY <1>1, <1>2, <1>4, <2>2, <2>3
<1>6. Day(y, m, d) \in Int /\ Day(y, m, d) = FirstDay(y) + yday
  BY <1>1, <1>2, <1>3 DEF Day
<1>7. YearOf(Day(y, m, d)) = y
  BY <1>5, <1>6, YearFound
<1>8. t \div SECSPERDAY = Day(y, m, d) /\ t % SECSPERDAY = r
  BY <1>6, DayAndRest
<1>9. YearStart[y] = FirstDay(y)
  <2>1. y \in EPOCH_YEAR - 1 .. LastYear + 1
    BY <1>0 DEF Years
  <2> QED
    BY <2>1, YearStarts
<1>10. Day(y, m, d) - YearStart[y] = yday
  BY <1>2, <1>4, <1>6, <1>9
<1> HIDE DEF yday
<1> DEFINE In(n) == MonthStart(y)[n] <= yday /\ yday < MonthStart(y)[n + 1]
<1>11. In(m)
  <2>1. MonthStart(y)[m] = Elapsed(y, m)
    BY MonthStarts
  <2>2. m + 1 \in 1 .. 13
    OBVIOUS
  <2>3. MonthStart(y)[m + 1] = Elapsed(y, m + 1)
    BY <2>2, MonthStarts
  <2> QED
    BY <1>4, <2>1, <2>3
<1>12. ASSUME NEW n \in 1 .. 12, In(n)
       PROVE  n = m
  <2>1. n + 1 \in 1 .. 13 /\ n \in 1 .. 13 /\ m \in 1 .. 13
    OBVIOUS
  <2>2. MonthStart(y)[n] = Elapsed(y, n) /\ MonthStart(y)[n + 1] = Elapsed(y, n + 1)
    BY <2>1, MonthStarts
  <2>3. CASE n < m
    <3>1. Elapsed(y, m) \in Int /\ Elapsed(y, m) >= Elapsed(y, n + 1)
      BY <2>1, <2>3, MonthsInOrder
    <3>2. Elapsed(y, n + 1) \in Int
      BY MonthLength
    <3> QED
      BY <1>4, <1>12, <2>2, <3>1, <3>2
  <2>4. CASE m < n
    <3>1. Elapsed(y, n) \in Int /\ Elapsed(y, n) >= Elapsed(y, m + 1)
      BY <2>1, <2>4, MonthsInOrder
    <3>2. Elapsed(y, m + 1) \in Int
      BY <1>1
    <3> QED
      BY <1>4, <1>12, <2>2, <3>1, <3>2
  <2> QED
    BY <2>3, <2>4
<1> DEFINE mon == CHOOSE n \in 1 .. 12 : In(n)
<1> HIDE DEF In
<1>13. mon = m
  BY <1>11, <1>12
<1> HIDE DEF mon
<1>14. yday - MonthStart(y)[mon] + 1 = d
  <2>1. MonthStart(y)[m] = Elapsed(y, m)
    BY MonthStarts
  <2> QED
    BY <1>4, <1>13, <2>1
<1>15. Greenwich(t) = Told(r, Day(y, m, d), y, mon, yday - MonthStart(y)[mon] + 1)
  <2> HIDE DEF t
  <2> QED
    BY <1>7, <1>8, <1>10, Zenon DEF Greenwich, In, Told, mon
<1>16. Greenwich(t) = Told(r, Day(y, m, d), y, m, d)
  BY <1>13, <1>14, <1>15
<1> QED
  BY <1>16

---------------------------------------------------------------------------
(* The walk.                                                               *)

\* The calendar that only knows the date that follows a date counts the days
\* as ec_mktime does.
CalInv ==
    /\ CalTypeOK
    /\ days = Day(year, month, mday)
    /\ wday = (EPOCH_WDAY + days) % 7

\* The months of the walk are as long as those of the table.
LEMMA LengthIs ==
    ASSUME year \in 1968 .. 2038, month \in 1 .. 12
    PROVE  LengthOfMonth = mon_lengths(year)[month]
<1>1. isleap(year) <=> ~(year % 4 # 0 \/ (year % 100 = 0 /\ year % 400 # 0))
  <2>1. year % 400 = 0 => year % 4 = 0
    BY SMT
  <2> QED
    BY <2>1 DEF isleap
<1>2. month \in {1, 2, 3, 4, 5, 6, 7, 8, 9, 10, 11, 12}
  OBVIOUS
<1>3. CASE isleap(year)
  <2>1. mon_lengths(year) = <<31, 29, 31, 30, 31, 30, 31, 31, 30, 31, 30, 31>>
    BY <1>3 DEF mon_lengths
  <2> QED
    BY <1>1, <1>2, <1>3, <2>1 DEF LengthOfMonth
<1>4. CASE ~isleap(year)
  <2>1. mon_lengths(year) = <<31, 28, 31, 30, 31, 30, 31, 31, 30, 31, 30, 31>>
    BY <1>4 DEF mon_lengths
  <2> QED
    BY <1>1, <1>2, <1>4, <2>1 DEF LengthOfMonth
<1> QED
  BY <1>3, <1>4

\* The day after the last one of a month is the first one of the next.
LEMMA MonthTurns ==
    ASSUME NEW y \in Years, NEW m \in 1 .. 11
    PROVE  Day(y, m + 1, 1) = Day(y, m, mon_lengths(y)[m]) + 1
<1>1. y \in 1969 .. 2037 /\ m \in 1 .. 12 /\ m + 1 \in 1 .. 12
  BY CalendarAssumption DEF EPOCH_YEAR, Years
<1>2. FirstDay(y) \in Int
  BY <1>1, YearInts
<1>3. /\ mon_lengths(y)[m] \in 28 .. 31 /\ Elapsed(y, m) \in Nat
      /\ Elapsed(y, m + 1) = Elapsed(y, m) + mon_lengths(y)[m]
      /\ Elapsed(y, m) = mon_yday(y)[m]
  BY <1>1, MonthLength
<1>4. Elapsed(y, m + 1) = mon_yday(y)[m + 1]
  BY <1>1, MonthLength
<1> QED
  BY <1>2, <1>3, <1>4 DEF Day

\* The day after the last one of a year is the first one of the next.
LEMMA YearTurns ==
    ASSUME NEW y \in Years
    PROVE  Day(y + 1, 1, 1) = Day(y, 12, mon_lengths(y)[12]) + 1
<1>1. y \in 1969 .. 2037
  BY CalendarAssumption DEF EPOCH_YEAR, Years
<1>2. /\ FirstDay(y) \in Int /\ year_lengths(y) \in 365 .. 366
      /\ FirstDay(y + 1) = FirstDay(y) + year_lengths(y)
  <2>1. FirstDay(y + 1) = FirstDay(y) + year_lengths(y)
    BY <1>1, YearLength, SMTT(30)
  <2>2. FirstDay(y) \in Int /\ year_lengths(y) \in 365 .. 366
    BY <1>1, YearInts
  <2> QED
    BY <2>1, <2>2
<1>3. /\ mon_lengths(y)[12] \in 28 .. 31 /\ Elapsed(y, 12) \in Nat
      /\ Elapsed(y, 12 + 1) = Elapsed(y, 12) + mon_lengths(y)[12]
      /\ Elapsed(y, 12) = mon_yday(y)[12]
  BY MonthLength
<1>4. Elapsed(y, 13) = year_lengths(y)
  BY DEF Elapsed
<1>5. mon_yday(y + 1)[1] = 0
  <2>1. Elapsed(y + 1, 1) = 0 /\ Elapsed(y + 1, 1) = mon_yday(y + 1)[1]
    BY MonthLength
  <2> QED
    BY <2>1
<1> QED
  BY <1>2, <1>3, <1>4, <1>5 DEF Day

\* One day later.
LEMMA DayTurns ==
    ASSUME NEW y \in Years, NEW m \in 1 .. 12, NEW d \in Int
    PROVE  Day(y, m, d + 1) = Day(y, m, d) + 1
<1>1. y \in 1969 .. 2037
  BY CalendarAssumption DEF EPOCH_YEAR, Years
<1>2. FirstDay(y) \in Int
  BY <1>1, YearInts
<1>3. mon_yday(y)[m] \in Int
  <2>1. Elapsed(y, m) \in Nat /\ Elapsed(y, m) = mon_yday(y)[m]
    BY MonthLength
  <2> QED
    BY <2>1
<1> QED
  BY <1>2, <1>3 DEF Day

\* And the day of the week after it.
LEMMA WeekTurns ==
    ASSUME NEW n \in Int
    PROVE  /\ (EPOCH_WDAY + (n + 1)) % 7 = IF (EPOCH_WDAY + n) % 7 = 6 THEN 0
                                           ELSE ((EPOCH_WDAY + n) % 7) + 1
           /\ (EPOCH_WDAY + n) % 7 \in 0 .. 6
           /\ (EPOCH_WDAY + (n + 1)) % 7 = (((EPOCH_WDAY + n) % 7) + 1) % 7
<1> DEFINE a == 4 + n
<1>1. a \in Int /\ 4 + (n + 1) = a + 1 /\ 7 \in Nat \ {0}
  OBVIOUS
<1> HIDE DEF a
<1>2. a % 7 \in 0 .. 6
  BY <1>1, SMT
<1>3. (a + 1) % 7 = IF a % 7 = 6 THEN 0 ELSE (a % 7) + 1
  BY <1>1, SMT
<1>4. (a + 1) % 7 = ((a % 7) + 1) % 7
  BY <1>1, SMT
<1> QED
  BY <1>1, <1>2, <1>3, <1>4 DEF a, EPOCH_WDAY

\* What the invariant says of the date.
LEMMA DateRanges ==
    ASSUME CalInv
    PROVE  /\ year \in Years /\ year \in 1970 .. 2037 /\ year \in Int /\ year <= LastYear
           /\ month \in 1 .. 12
           /\ LengthOfMonth = mon_lengths(year)[month]
           /\ mon_lengths(year)[month] \in 28 .. 31
           /\ mday \in 1 .. mon_lengths(year)[month]
           /\ days \in Nat
<1>1. year \in 1970 .. LastYear /\ LastYear \in 1970 .. 2037
  BY CalendarAssumption DEF CalInv, CalTypeOK, EPOCH_YEAR
<1>2. year \in Years /\ year \in 1970 .. 2037 /\ year \in Int /\ year <= LastYear
  BY <1>1 DEF Years, EPOCH_YEAR
<1>3. month \in 1 .. 12 /\ days \in Nat /\ mday \in 1 .. LengthOfMonth
  BY DEF CalInv, CalTypeOK
<1>4. LengthOfMonth = mon_lengths(year)[month]
  <2>1. year \in 1968 .. 2038
    BY <1>2
  <2> QED
    BY <1>3, <2>1, LengthIs
<1>5. mon_lengths(year)[month] \in 28 .. 31
  BY <1>3, MonthLength
<1> QED
  BY <1>2, <1>3, <1>4, <1>5

LEMMA CalInvInit == CalInit => CalInv
<1> SUFFICES ASSUME CalInit PROVE CalInv
  OBVIOUS
<1>1. year = 1970 /\ month = 1 /\ mday = 1 /\ wday = 4 /\ days = 0
  BY DEF CalInit, EPOCH_YEAR, EPOCH_WDAY
<1>2. year \in EPOCH_YEAR .. LastYear
  BY <1>1, CalendarAssumption DEF EPOCH_YEAR
<1>3. LengthOfMonth = 31
  BY <1>1 DEF LengthOfMonth
<1>4. Day(1970, 1, 1) = 0
  <2>1. FirstDay(1970) = 0
    BY DEF FirstDay, get_day, EPOCH_YEAR
  <2>2. Elapsed(1970, 1) = 0 /\ Elapsed(1970, 1) = mon_yday(1970)[1]
    BY MonthLength
  <2> QED
    BY <2>1, <2>2 DEF Day
<1>5. CalTypeOK
  BY <1>1, <1>2, <1>3 DEF CalTypeOK
<1> QED
  BY <1>1, <1>4, <1>5 DEF CalInv, EPOCH_WDAY

\* The next date is a date.
LEMMA CalInvNext == CalInv /\ CalNext => CalInv'
<1> SUFFICES ASSUME CalInv, CalNext PROVE CalInv'
  OBVIOUS
<1>1. /\ year \in Years /\ year \in 1970 .. 2037 /\ year \in Int /\ year <= LastYear
      /\ month \in 1 .. 12
      /\ LengthOfMonth = mon_lengths(year)[month]
      /\ mon_lengths(year)[month] \in 28 .. 31
      /\ mday \in 1 .. mon_lengths(year)[month]
      /\ days \in Nat
  BY DateRanges
<1>2. days = Day(year, month, mday) /\ wday = (EPOCH_WDAY + days) % 7
  BY DEF CalInv
<1>3. LastYear \in 1970 .. 2037
  BY CalendarAssumption DEF EPOCH_YEAR
<1>4. /\ year' \in 1970 .. LastYear /\ month' \in 1 .. 12
      /\ mday' \in 1 .. mon_lengths(year')[month']
      /\ Day(year', month', mday') = days + 1
  <2>1. CASE SameMonth
    <3>1. /\ year' = year /\ month' = month /\ mday' = mday + 1
          /\ mday < mon_lengths(year)[month]
      BY <1>1, <2>1 DEF SameMonth
    <3>2. mday \in Int /\ mday + 1 \in 1 .. mon_lengths(year)[month]
      BY <1>1, <3>1
    <3>3. Day(year, month, mday + 1) = Day(year, month, mday) + 1
      BY <1>1, <3>2, DayTurns
    <3> QED
      BY <1>1, <1>2, <1>3, <3>1, <3>2, <3>3
  <2>2. CASE NextMonth
    <3>1. /\ year' = year /\ month' = month + 1 /\ mday' = 1
          /\ mday = mon_lengths(year)[month] /\ month \in 1 .. 11
      BY <1>1, <2>2 DEF NextMonth
    <3>2. Day(year, month + 1, 1) = Day(year, month, mon_lengths(year)[month]) + 1
      BY <1>1, <3>1, MonthTurns
    <3>3. month + 1 \in 1 .. 12
      BY <3>1
    <3>4. mon_lengths(year)[month + 1] \in 28 .. 31
      BY <3>3, MonthLength
    <3>5. 1 \in 1 .. mon_lengths(year)[month + 1]
      BY <3>4
    <3> QED
      BY <1>1, <1>2, <1>3, <3>1, <3>2, <3>3, <3>5
  <2>3. CASE NextYear
    <3>1. /\ year' = year + 1 /\ month' = 1 /\ mday' = 1
          /\ mday = mon_lengths(year)[12] /\ month = 12 /\ year < LastYear
      BY <1>1, <2>3 DEF NextYear
    <3>2. Day(year + 1, 1, 1) = Day(year, 12, mon_lengths(year)[12]) + 1
      BY <1>1, YearTurns
    <3>3. mon_lengths(year + 1)[1] \in 28 .. 31
      BY MonthLength
    <3>4. 1 \in 1 .. mon_lengths(year + 1)[1]
      BY <3>3
    <3>5. year + 1 \in 1970 .. LastYear
      BY <1>1, <1>3, <3>1
    <3> QED
      BY <1>2, <3>1, <3>2, <3>4, <3>5
  <2> QED
    BY <2>1, <2>2, <2>3 DEF CalNext
<1>5. days' = days + 1 /\ wday' = (wday + 1) % 7
  BY DEF CalNext
<1>6. /\ wday' = (EPOCH_WDAY + days') % 7
      /\ wday' \in 0 .. 6
  <2>1. (EPOCH_WDAY + (days + 1)) % 7 = (((EPOCH_WDAY + days) % 7) + 1) % 7
    BY <1>1, WeekTurns
  <2>2. days + 1 \in Int
    BY <1>1
  <2>3. (EPOCH_WDAY + (days + 1)) % 7 \in 0 .. 6
    BY <2>2, WeekTurns
  <2> QED
    BY <1>2, <1>5, <2>1, <2>3
<1>7. LengthOfMonth' = mon_lengths(year')[month']
  <2>1. year' \in 1968 .. 2038
    BY <1>3, <1>4
  <2>2. (year \in 1968 .. 2038 /\ month \in 1 .. 12)'
        => (LengthOfMonth = mon_lengths(year)[month])'
    BY LengthIs, PTL
  <2> QED
    BY <1>4, <2>1, <2>2
<1>8. CalTypeOK'
  <2>1. days' \in Nat
    BY <1>1, <1>5
  <2> QED
    BY <1>4, <1>6, <1>7, <2>1 DEF CalTypeOK, EPOCH_YEAR
<1> QED
  BY <1>4, <1>5, <1>6, <1>8 DEF CalInv

\* Every date of the walk is one that ec_mktime counts the days of.
THEOREM CalendarCounts == CalSpec => []CalInv
<1>1. CalInit => CalInv
  BY CalInvInit
<1>2. CalInv /\ [CalNext]_calVars => CalInv'
  <2>1. CASE CalNext
    BY <2>1, CalInvNext
  <2>2. CASE UNCHANGED calVars
    BY <2>2, Zenon DEF calVars, CalInv, CalTypeOK, LengthOfMonth
  <2> QED
    BY <2>1, <2>2
<1> QED
  BY <1>1, <1>2, PTL DEF CalSpec

---------------------------------------------------------------------------
(* There and back.                                                         *)

\* Another date at the same time of the day.
LEMMA NewDate ==
    ASSUME NEW r, NEW n, NEW y, NEW m, NEW d, NEW z
    PROVE  /\ [Told(r, n, y, m, d) EXCEPT !.tm_mday = z] = Told(r, n, y, m, z)
           /\ [Told(r, n, y, m, d) EXCEPT !.tm_mon = z - 1] = Told(r, n, y, z, d)
           /\ [Told(r, n, y, m, d) EXCEPT !.tm_year = z - YEAR_BASE] = Told(r, n, z, m, d)
<1>1. [Told(r, n, y, m, d) EXCEPT !.tm_mday = z] = Told(r, n, y, m, z)
  BY DEF Told
<1>2. [Told(r, n, y, m, d) EXCEPT !.tm_mon = z - 1] = Told(r, n, y, z, d)
  BY DEF Told
<1>3. [Told(r, n, y, m, d) EXCEPT !.tm_year = z - YEAR_BASE] = Told(r, n, z, m, d)
  BY DEF Told
<1> QED
  BY <1>1, <1>2, <1>3

\* The carry of ec_gmtime makes a date that of the next day.
LEMMA Carried ==
    ASSUME NEW y \in Years, NEW m \in 1 .. 12, NEW d \in 1 .. mon_lengths(y)[m],
           NEW r \in Int, NEW n \in Int
    PROVE  NextDay(Told(r, n, y, m, d))
           = IF d < mon_lengths(y)[m] THEN Told(r, n + 1, y, m, d + 1)
             ELSE IF m < 12 THEN Told(r, n + 1, y, m + 1, 1)
             ELSE Told(r, n + 1, y + 1, 1, 1)
<1>1. y \in Int
  BY CalendarAssumption DEF Years, EPOCH_YEAR
<1>2. mon_lengths(y)[m] \in 28 .. 31
  BY MonthLength
<1> DEFINE tm == Told(r, n, y, m, d)
<1> DEFINE len == mon_lengths(y)[m]
<1>3. /\ tm.tm_year = y - YEAR_BASE /\ tm.tm_mon = m - 1 /\ tm.tm_mday = d
      /\ tm.tm_wday = (EPOCH_WDAY + n) % 7
      /\ tm.tm_year + YEAR_BASE = y /\ tm.tm_mon + 1 = m
  BY <1>1 DEF Told, YEAR_BASE
<1>4. (EPOCH_WDAY + (n + 1)) % 7 = IF (EPOCH_WDAY + n) % 7 = 6 THEN 0
                                   ELSE ((EPOCH_WDAY + n) % 7) + 1
  BY WeekTurns
<1> DEFINE w == [tm EXCEPT !.tm_wday = IF @ = 6 THEN 0 ELSE @ + 1]
<1>5. w = [tm EXCEPT !.tm_wday = (EPOCH_WDAY + (n + 1)) % 7]
  BY <1>3, <1>4
<1>6. w = Told(r, n + 1, y, m, d)
  BY <1>5 DEF Told
<1>7. NextDay(tm) = IF d + 1 <= len THEN [w EXCEPT !.tm_mday = @ + 1]
                    ELSE IF m < 12 THEN [w EXCEPT !.tm_mday = @ + 1 - len, !.tm_mon = @ + 1]
                    ELSE [w EXCEPT !.tm_mday = @ + 1 - len, !.tm_mon = 0, !.tm_year = @ + 1]
  <2> HIDE DEF tm
  <2> QED
    BY <1>3, Zenon DEF NextDay
<1> HIDE DEF tm, w, len
<1>8. CASE d < len
  <2>1. d + 1 <= len
    BY <1>2, <1>8 DEF len
  <2>2. [w EXCEPT !.tm_mday = @ + 1] = Told(r, n + 1, y, m, d + 1)
    BY <1>6 DEF Told
  <2> QED
    BY <1>7, <1>8, <2>1, <2>2 DEF tm, len
<1>9. CASE ~(d < len) /\ m < 12
  <2>1. ~(d + 1 <= len) /\ d + 1 - len = 1 /\ (m - 1) + 1 = (m + 1) - 1
    BY <1>2, <1>9 DEF len
  <2>2. w.tm_mday + 1 - len = 1 /\ w.tm_mon + 1 = (m + 1) - 1
    BY <1>6, <2>1 DEF Told
  <2>3. [w EXCEPT !.tm_mday = @ + 1 - len, !.tm_mon = @ + 1]
        = [[w EXCEPT !.tm_mday = 1] EXCEPT !.tm_mon = (m + 1) - 1]
    BY <2>2, Zenon
  <2>4. [w EXCEPT !.tm_mday = 1] = Told(r, n + 1, y, m, 1)
    BY <1>6, NewDate
  <2>5. [Told(r, n + 1, y, m, 1) EXCEPT !.tm_mon = (m + 1) - 1] = Told(r, n + 1, y, m + 1, 1)
    <3> DEFINE z == m + 1
    <3> HIDE DEF z
    <3>1. [Told(r, n + 1, y, m, 1) EXCEPT !.tm_mon = z - 1] = Told(r, n + 1, y, z, 1)
      BY DEF Told
    <3> QED
      BY <3>1 DEF z
  <2> QED
    BY <1>7, <1>9, <2>1, <2>3, <2>4, <2>5 DEF tm, len
<1>10. CASE ~(d < len) /\ ~(m < 12)
  <2>1. ~(d + 1 <= len) /\ d + 1 - len = 1 /\ (y - YEAR_BASE) + 1 = (y + 1) - YEAR_BASE
        /\ 1 - 1 = 0
    BY <1>1, <1>2, <1>10 DEF len, YEAR_BASE
  <2>2. w.tm_mday + 1 - len = 1 /\ 0 = 1 - 1 /\ w.tm_year + 1 = (y + 1) - YEAR_BASE
    BY <1>6, <2>1 DEF Told
  <2>3. [w EXCEPT !.tm_mday = @ + 1 - len, !.tm_mon = 0, !.tm_year = @ + 1]
        = [[[w EXCEPT !.tm_mday = 1] EXCEPT !.tm_mon = 1 - 1]
               EXCEPT !.tm_year = (y + 1) - YEAR_BASE]
    BY <2>2, Zenon
  <2>4. [w EXCEPT !.tm_mday = 1] = Told(r, n + 1, y, m, 1)
    BY <1>6, NewDate
  <2>5. [Told(r, n + 1, y, m, 1) EXCEPT !.tm_mon = 1 - 1] = Told(r, n + 1, y, 1, 1)
    BY NewDate
  <2>6. [Told(r, n + 1, y, 1, 1) EXCEPT !.tm_year = (y + 1) - YEAR_BASE]
        = Told(r, n + 1, y + 1, 1, 1)
    <3> DEFINE z == y + 1
    <3> HIDE DEF z
    <3>1. [Told(r, n + 1, y, 1, 1) EXCEPT !.tm_year = z - YEAR_BASE] = Told(r, n + 1, z, 1, 1)
      BY DEF Told
    <3> QED
      BY <3>1 DEF z
  <2> QED
    BY <1>7, <1>10, <2>1, <2>3, <2>4, <2>5, <2>6 DEF tm, len
<1> QED
  BY <1>8, <1>9, <1>10 DEF tm, len

\* Every date of the walk has one before it, of the year 1969 at the earliest,
\* which the carry leads on to it.
LEMMA DayBefore ==
    ASSUME CalInv
    PROVE  \E y \in Years, m \in 1 .. 12 : \E d \in 1 .. mon_lengths(y)[m] :
               /\ Day(y, m, d) = days - 1
               /\ \A r, n \in Int : NextDay(Told(r, n, y, m, d))
                                    = Told(r, n + 1, year, month, mday)
<1>1. /\ year \in Years /\ year \in 1970 .. 2037 /\ year \in Int /\ year <= LastYear
      /\ month \in 1 .. 12
      /\ mon_lengths(year)[month] \in 28 .. 31
      /\ mday \in 1 .. mon_lengths(year)[month]
      /\ days \in Nat
  BY DateRanges
<1>2. days = Day(year, month, mday)
  BY DEF CalInv
<1>0. year \in Years /\ month \in 1 .. 12
  BY <1>1
<1>3. CASE mday > 1
  <2> DEFINE d == mday - 1
  <2>1. d \in 1 .. mon_lengths(year)[month] /\ d \in Int /\ d + 1 = mday
        /\ d < mon_lengths(year)[month]
    BY <1>1, <1>3
  <2> HIDE DEF d
  <2>2. Day(year, month, d + 1) = Day(year, month, d) + 1
    BY <1>0, <2>1, DayTurns
  <2>3. Day(year, month, d) = days - 1
    <3>1. Day(year, month, d) \in Int
      BY <1>0, <2>1, DayIsInt
    <3> QED
      BY <1>2, <2>1, <2>2, <3>1
  <2>4. ASSUME NEW r \in Int, NEW n \in Int
        PROVE  NextDay(Told(r, n, year, month, d)) = Told(r, n + 1, year, month, mday)
    <3>1. NextDay(Told(r, n, year, month, d))
          = IF d < mon_lengths(year)[month] THEN Told(r, n + 1, year, month, d + 1)
            ELSE IF month < 12 THEN Told(r, n + 1, year, month + 1, 1)
            ELSE Told(r, n + 1, year + 1, 1, 1)
      BY <1>0, <2>1, <2>4, Carried, Zenon
    <3> QED
      BY <2>1, <3>1, Zenon
  <2> QED
    BY <1>0, <2>1, <2>3, <2>4
<1>4. CASE mday = 1 /\ month > 1
  <2> DEFINE m == month - 1
  <2> DEFINE d == mon_lengths(year)[m]
  <2>1. m \in 1 .. 12 /\ m \in 1 .. 11 /\ m + 1 = month /\ m < 12
    BY <1>1, <1>4
  <2>2. d \in 28 .. 31
    BY <2>1, MonthLength
  <2>3. d \in 1 .. mon_lengths(year)[m] /\ ~(d < mon_lengths(year)[m]) /\ d \in Int
    BY <2>2
  <2> HIDE DEF m
  <2>4. Day(year, m + 1, 1) = Day(year, m, d) + 1
    BY <1>0, <2>1, MonthTurns
  <2> HIDE DEF d
  <2>5. Day(year, m, d) = days - 1
    <3>1. Day(year, m, d) \in Int
      BY <1>0, <2>1, <2>3, DayIsInt
    <3> QED
      BY <1>2, <1>4, <2>1, <2>4, <3>1
  <2>6. ASSUME NEW r \in Int, NEW n \in Int
        PROVE  NextDay(Told(r, n, year, m, d)) = Told(r, n + 1, year, month, mday)
    <3>1. NextDay(Told(r, n, year, m, d))
          = IF d < mon_lengths(year)[m] THEN Told(r, n + 1, year, m, d + 1)
            ELSE IF m < 12 THEN Told(r, n + 1, year, m + 1, 1)
            ELSE Told(r, n + 1, year + 1, 1, 1)
      BY <1>0, <2>1, <2>3, <2>6, Carried, Zenon
    <3> QED
      BY <1>4, <2>1, <2>3, <3>1, Zenon
  <2> QED
    BY <1>0, <2>1, <2>3, <2>5, <2>6
<1>5. CASE mday = 1 /\ month = 1
  <2> DEFINE y == year - 1
  <2> DEFINE d == mon_lengths(y)[12]
  <2>1. y \in Years /\ y + 1 = year
    <3>1. year \in 1970 .. LastYear /\ LastYear \in Int
      BY <1>1, CalendarAssumption DEF EPOCH_YEAR
    <3>2. 1970 - 1 = 1969
      OBVIOUS
    <3>3. y \in 1969 .. LastYear /\ y + 1 = year
      BY <3>1
    <3> QED
      BY <3>2, <3>3 DEF Years, EPOCH_YEAR
  <2>2. d \in 28 .. 31
    BY MonthLength
  <2>3. d \in 1 .. mon_lengths(y)[12] /\ ~(d < mon_lengths(y)[12]) /\ d \in Int
    BY <2>2
  <2> HIDE DEF y
  <2>4. Day(y + 1, 1, 1) = Day(y, 12, d) + 1
    BY <2>1, YearTurns
  <2> HIDE DEF d
  <2>5. Day(y, 12, d) = days - 1
    <3>1. Day(y, 12, d) \in Int
      BY <2>1, <2>3, DayIsInt
    <3> QED
      BY <1>2, <1>5, <2>1, <2>4, <3>1
  <2>6. ASSUME NEW r \in Int, NEW n \in Int
        PROVE  NextDay(Told(r, n, y, 12, d)) = Told(r, n + 1, year, month, mday)
    <3>1. 12 \in 1 .. 12 /\ ~(12 < 12)
      OBVIOUS
    <3>2. NextDay(Told(r, n, y, 12, d))
          = IF d < mon_lengths(y)[12] THEN Told(r, n + 1, y, 12, d + 1)
            ELSE IF 12 < 12 THEN Told(r, n + 1, y, 12 + 1, 1)
            ELSE Told(r, n + 1, y + 1, 1, 1)
      BY <2>1, <2>3, <2>6, <3>1, Carried, Zenon
    <3> QED
      BY <1>5, <2>1, <2>3, <3>1, <3>2, Zenon
  <2> QED
    BY <2>1, <2>3, <2>5, <2>6
<1> QED
  BY <1>1, <1>3, <1>4, <1>5

\* The timestamp of a date.
LEMMA There ==
    ASSUME CalInv, NEW s \in Int, 0 <= s, s < SECSPERDAY
    PROVE  ec_mktime(year, month, mday, s \div 3600, (s % 3600) \div 60, s % 60)
           = days * SECSPERDAY + s - SECSPEGMT8
<1> DEFINE tol_day == get_day(year) - get_day(EPOCH_YEAR) + mon_yday(year)[month] + mday - 1
<1> DEFINE clock == (s \div 3600) * SECSPERHOUR + ((s % 3600) \div 60) * SECSPERMIN + (s % 60)
<1>1. tol_day = days /\ days \in Int
  BY DateRanges DEF CalInv, Day, FirstDay
<1>2. clock = s
  BY Clock
<1> DEFINE h == (s \div 3600) * SECSPERHOUR
<1> DEFINE i == ((s % 3600) \div 60) * SECSPERMIN
<1> DEFINE e == s % 60
<1>3. ec_mktime(year, month, mday, s \div 3600, (s % 3600) \div 60, s % 60)
      = tol_day * SECSPERDAY + h + i + e - SECSPEGMT8
  BY Zenon DEF ec_mktime
<1>4. h \in Int /\ i \in Int /\ e \in Int /\ SECSPEGMT8 \in Int
      /\ days * SECSPERDAY \in Int
  BY <1>1, SMT DEF SECSPERHOUR, SECSPERMIN, SECSPEGMT8, SECSPERDAY
<1>5. h + i + e = s
  BY <1>2
<1> DEFINE big == days * SECSPERDAY
<1> HIDE DEF h, i, e, clock, tol_day, big
<1>6. big + h + i + e - SECSPEGMT8 = big + s - SECSPEGMT8
  BY <1>4, <1>5 DEF big
<1> QED
  BY <1>1, <1>3, <1>6 DEF big

\* The date of a timestamp.
LEMMA Back ==
    ASSUME CalInv, NEW s \in Int, 0 <= s, s < SECSPERDAY
    PROVE  ec_gmtime(days * SECSPERDAY + s - SECSPEGMT8)
           = Told(s, days, year, month, mday)
<1>1. /\ year \in Years /\ month \in 1 .. 12
      /\ mday \in 1 .. mon_lengths(year)[month]
      /\ days = Day(year, month, mday)
  BY DateRanges DEF CalInv
<1>2. days \in Int
  BY DateRanges
<1>3. SECSPEGMT8 = 28800 /\ SECSPEGMT8 \div SECSPERHOUR = 8
  BY DEF SECSPEGMT8, SECSPERHOUR
<1>4. s \div 3600 \in 0 .. 23
  BY Clock
<1>5. SECSPERDAY = 86400 /\ SECSPERHOUR = 3600
  BY DEF SECSPERDAY, SECSPERHOUR
<1> DEFINE t == days * SECSPERDAY + s - SECSPEGMT8
<1>6. CASE s >= 28800
  <2> DEFINE r == s - 28800
  <2>1. /\ r \in Int /\ 0 <= r /\ r < SECSPERDAY
        /\ s = r + 3600 * 8
    BY <1>5, <1>6
  <2>2. t = days * SECSPERDAY + r
    BY <1>2, <1>3, <1>5
  <2> HIDE DEF r, t
  <2>3. Greenwich(days * SECSPERDAY + r) = Told(r, days, year, month, mday)
    BY <1>1, <2>1, GreenwichDate
  <2>4. Greenwich(t) = Told(r, days, year, month, mday)
    BY <2>2, <2>3
  <2>5. Told(r, days, year, month, mday).tm_hour = r \div 3600
    BY <1>5 DEF Told
  <2>6. /\ s \div 3600 = (r \div 3600) + 8
        /\ s % 3600 = r % 3600 /\ s % 60 = r % 60
    BY <2>1, HoursLater
  <2>7. /\ r \div 3600 \in Int
        /\ ~((r \div 3600) + 8 >= 24)
    BY <1>4, <2>1, <2>6
  <2>8. ec_gmtime(t) = [Told(r, days, year, month, mday) EXCEPT !.tm_hour = (r \div 3600) + 8]
    <3>1. ec_gmtime(t)
          = IF Greenwich(t).tm_hour + SECSPEGMT8 \div SECSPERHOUR >= 24
            THEN [NextDay(Greenwich(t))
                  EXCEPT !.tm_hour = (Greenwich(t).tm_hour + SECSPEGMT8 \div SECSPERHOUR) - 24]
            ELSE [Greenwich(t)
                  EXCEPT !.tm_hour = Greenwich(t).tm_hour + SECSPEGMT8 \div SECSPERHOUR]
      BY DEF ec_gmtime
    <3>2. Greenwich(t).tm_hour + SECSPEGMT8 \div SECSPERHOUR = (r \div 3600) + 8
      BY <1>3, <2>4, <2>5
    <3> QED
      BY <2>4, <2>7, <3>1, <3>2
  <2>9. Told(s, days, year, month, mday)
        = [Told(r, days, year, month, mday) EXCEPT !.tm_hour = (r \div 3600) + 8]
    BY <2>6 DEF Told, SECSPERHOUR, SECSPERMIN
  <2> QED
    BY <2>8, <2>9 DEF t
<1>7. CASE s < 28800
  <2>1. PICK y \in Years, m \in 1 .. 12 : \E d \in 1 .. mon_lengths(y)[m] :
               /\ Day(y, m, d) = days - 1
               /\ \A r, n \in Int : NextDay(Told(r, n, y, m, d))
                                    = Told(r, n + 1, year, month, mday)
    BY DayBefore
  <2>2. PICK d \in 1 .. mon_lengths(y)[m] :
               /\ Day(y, m, d) = days - 1
               /\ \A r, n \in Int : NextDay(Told(r, n, y, m, d))
                                    = Told(r, n + 1, year, month, mday)
    BY <2>1
  <2> DEFINE r == s + 57600
  <2>3. /\ r \in Int /\ 0 <= r /\ r < SECSPERDAY
        /\ s = r + 3600 * (-16)
    BY <1>5, <1>7
  <2>4. t = (days - 1) * SECSPERDAY + r
    BY <1>2, <1>3, <1>5
  <2> HIDE DEF r, t
  <2>5. Greenwich((days - 1) * SECSPERDAY + r) = Told(r, days - 1, y, m, d)
    <3>1. Greenwich(Day(y, m, d) * SECSPERDAY + r) = Told(r, Day(y, m, d), y, m, d)
      BY <2>3, GreenwichDate
    <3> QED
      BY <2>2, <3>1
  <2>6. Greenwich(t) = Told(r, days - 1, y, m, d)
    BY <2>4, <2>5
  <2>7. Told(r, days - 1, y, m, d).tm_hour = r \div 3600
    BY <1>5 DEF Told
  <2>8. /\ s \div 3600 = (r \div 3600) + (-16)
        /\ s % 3600 = r % 3600 /\ s % 60 = r % 60
    BY <2>3, HoursLater
  <2>9. /\ r \div 3600 \in Int
        /\ (r \div 3600) + 8 >= 24
        /\ ((r \div 3600) + 8) - 24 = (r \div 3600) + (-16)
    BY <1>4, <2>3, <2>8
  <2>10. ec_gmtime(t) = [NextDay(Told(r, days - 1, y, m, d))
                         EXCEPT !.tm_hour = ((r \div 3600) + 8) - 24]
    <3>1. ec_gmtime(t)
          = IF Greenwich(t).tm_hour + SECSPEGMT8 \div SECSPERHOUR >= 24
            THEN [NextDay(Greenwich(t))
                  EXCEPT !.tm_hour = (Greenwich(t).tm_hour + SECSPEGMT8 \div SECSPERHOUR) - 24]
            ELSE [Greenwich(t)
                  EXCEPT !.tm_hour = Greenwich(t).tm_hour + SECSPEGMT8 \div SECSPERHOUR]
      BY DEF ec_gmtime
    <3>2. Greenwich(t).tm_hour + SECSPEGMT8 \div SECSPERHOUR = (r \div 3600) + 8
      BY <1>3, <2>6, <2>7
    <3> QED
      BY <2>6, <2>9, <3>1, <3>2
  <2>11. NextDay(Told(r, days - 1, y, m, d)) = Told(r, days, year, month, mday)
    <3>1. days - 1 \in Int /\ (days - 1) + 1 = days
      BY <1>2
    <3>2. NextDay(Told(r, days - 1, y, m, d)) = Told(r, (days - 1) + 1, year, month, mday)
      BY <2>2, <2>3, <3>1
    <3> QED
      BY <3>1, <3>2
  <2>12. Told(s, days, year, month, mday)
         = [Told(r, days, year, month, mday) EXCEPT !.tm_hour = (r \div 3600) + (-16)]
    BY <2>8 DEF Told, SECSPERHOUR, SECSPERMIN
  <2> QED
    BY <2>9, <2>10, <2>11, <2>12 DEF t
<1> QED
  BY <1>6, <1>7

\* Whatever year the walk ends with and whatever seconds of the day are looked
\* at, ec_mktime counts the seconds since the epoch of the date the server
\* tells, and ec_gmtime makes that date of them again, with its day of the
\* week.
THEOREM RoundTripHolds == CalSpec => []RoundTrip
<1>1. CalInv => RoundTrip
  <2> SUFFICES ASSUME CalInv, NEW s \in Moments
               PROVE  /\ ec_mktime(year, month, mday, s \div 3600, (s % 3600) \div 60, s % 60)
                         = days * SECSPERDAY + s - SECSPEGMT8
                      /\ ec_gmtime(days * SECSPERDAY + s - SECSPEGMT8) = Expected(s)
    BY Zenon DEF RoundTrip
  <2>1. s \in Int /\ 0 <= s /\ s < SECSPERDAY
    <3>1. SECSPERDAY \in Int
      BY DEF SECSPERDAY
    <3> QED
      BY <3>1, CalendarAssumption
  <2>2. Expected(s) = Told(s, days, year, month, mday)
    <3>1. wday = (EPOCH_WDAY + days) % 7
      BY DEF CalInv
    <3> DEFINE E(w) == [tm_hour |-> s \div 3600, tm_min |-> (s % 3600) \div 60,
                        tm_sec |-> s % 60, tm_wday |-> w, tm_year |-> year - 1900,
                        tm_mon |-> month - 1, tm_mday |-> mday]
    <3>2. Expected(s) = E(wday)
      BY DEF Expected
    <3>3. Told(s, days, year, month, mday) = E((EPOCH_WDAY + days) % 7)
      BY DEF Told, SECSPERHOUR, SECSPERMIN, YEAR_BASE
    <3> HIDE DEF E
    <3> QED
      BY <3>1, <3>2, <3>3
  <2> QED
    BY <2>1, <2>2, There, Back
<1> QED
  BY <1>1, CalendarCounts, PTL

\* The ranges of the calendar's variables.
THEOREM CalTypes == CalSpec => []CalTypeOK
BY CalendarCounts, PTL DEF CalInv

---------------------------------------------------------------------------
(* Lists.                                                                  *)

NodeRecord == [rule : Rules, hook : Hooks, score : Nat, next : Nat, prev : Nat]

\* What a list must be for a node to be taken out of it.
GoodList(f) ==
    /\ DOMAIN f.heap \subseteq Nat \ {Null}
    /\ \A n \in DOMAIN f.heap : f.heap[n] \in NodeRecord
    /\ IsFirst(f.first, DOMAIN f.heap) /\ IsLast(f.last, DOMAIN f.heap)
    /\ \A n \in DOMAIN f.heap : /\ IsFirst(f.heap[n].next, {m \in DOMAIN f.heap : m > n})
                                /\ IsLast(f.heap[n].prev, {m \in DOMAIN f.heap : m < n})

\* An end of a set stays one while others leave.
LEMMA EndsStay ==
    ASSUME NEW S \in SUBSET Nat, NEW x, NEW n, x # n
    PROVE  /\ IsFirst(x, S) => IsFirst(x, S \ {n})
           /\ IsLast(x, S) => IsLast(x, S \ {n})
BY DEF IsFirst, IsLast

\* The first and the last of a set.
LEMMA EndsAreOne ==
    ASSUME NEW S \in SUBSET Nat, NEW x, NEW y
    PROVE  /\ IsFirst(x, S) /\ IsFirst(y, S) => x = y
           /\ IsLast(x, S) /\ IsLast(y, S) => x = y
<1>1. CASE S = {}
  BY <1>1 DEF IsFirst, IsLast
<1>2. CASE S # {}
  <2>1. ASSUME IsFirst(x, S), IsFirst(y, S) PROVE x = y
    <3>1. x \in Nat /\ y \in Nat /\ x <= y /\ y <= x
      BY <1>2, <2>1 DEF IsFirst
    <3> QED
      BY <3>1
  <2>2. ASSUME IsLast(x, S), IsLast(y, S) PROVE x = y
    <3>1. x \in Nat /\ y \in Nat /\ x <= y /\ y <= x
      BY <1>2, <2>2 DEF IsLast
    <3> QED
      BY <3>1
  <2> QED
    BY <2>1, <2>2
<1> QED
  BY <1>1, <1>2

\* The neighbour in front of a node leads to it, and the one behind it back.
LEMMA Neighbours ==
    ASSUME NEW D \in SUBSET (Nat \ {Null}), NEW n \in D, NEW m \in D
    PROVE  /\ IsFirst(n, {k \in D : k > m}) <=> IsLast(m, {k \in D : k < n})
           /\ IsLast(m, {k \in D : k < n}) => \A k \in D : k > m <=> k = n \/ k > n
           /\ IsFirst(n, {k \in D : k > m}) => \A k \in D : k < n <=> k = m \/ k < m
<1>1. D \subseteq Nat
  OBVIOUS
<1>2. IsFirst(n, {k \in D : k > m}) <=> n > m /\ \A k \in D : k > m => n <= k
  BY <1>1 DEF IsFirst
<1>3. IsLast(m, {k \in D : k < n}) <=> m < n /\ \A k \in D : k < n => k <= m
  BY <1>1 DEF IsLast
<1>4. (m < n /\ \A k \in D : k < n => k <= m) <=> (n > m /\ \A k \in D : k > m => n <= k)
  BY <1>1
<1>5. ASSUME m < n, \A k \in D : k < n => k <= m
      PROVE  /\ \A k \in D : k > m <=> k = n \/ k > n
             /\ \A k \in D : k < n <=> k = m \/ k < m
  BY <1>1, <1>4, <1>5
<1> QED
  BY <1>2, <1>3, <1>4, <1>5

\* iks_filter_remove_rule leaves a list of the other nodes, with what they hold.
LEMMA WithoutOne ==
    ASSUME NEW f, GoodList(f), NEW n \in DOMAIN f.heap
    PROVE  /\ GoodList(Without(f, n))
           /\ DOMAIN Without(f, n).heap = DOMAIN f.heap \ {n}
           /\ \A m \in DOMAIN f.heap \ {n} :
                 /\ Without(f, n).heap[m].rule = f.heap[m].rule
                 /\ Without(f, n).heap[m].hook = f.heap[m].hook
                 /\ Without(f, n).heap[m].score = f.heap[m].score
<1> DEFINE g == Without(f, n)
<1> DEFINE D == DOMAIN f.heap
<1> DEFINE E == D \ {n}
<1> DEFINE nx == f.heap[n].next
<1> DEFINE pv == f.heap[n].prev
<1> DEFINE above(m) == {k \in D : k > m}
<1> DEFINE below(m) == {k \in D : k < m}
<1>1. /\ D \subseteq Nat \ {Null}
      /\ \A m \in D : f.heap[m] \in NodeRecord
      /\ IsFirst(f.first, D) /\ IsLast(f.last, D)
      /\ \A m \in D : IsFirst(f.heap[m].next, above(m)) /\ IsLast(f.heap[m].prev, below(m))
  BY DEF GoodList
<1>2. /\ g.heap = [m \in E |-> [f.heap[m] EXCEPT !.next = IF m = pv THEN nx ELSE @,
                                                  !.prev = IF m = nx THEN pv ELSE @]]
      /\ g.first = IF f.first = n THEN nx ELSE f.first
      /\ g.last = IF f.last = n THEN pv ELSE f.last
  BY Zenon DEF Without
<1>3. nx \in Nat /\ pv \in Nat
  BY <1>1 DEF NodeRecord
<1>4. ASSUME NEW m \in E
      PROVE  /\ g.heap[m] \in NodeRecord
             /\ g.heap[m].rule = f.heap[m].rule
             /\ g.heap[m].hook = f.heap[m].hook
             /\ g.heap[m].score = f.heap[m].score
             /\ g.heap[m].next = IF m = pv THEN nx ELSE f.heap[m].next
             /\ g.heap[m].prev = IF m = nx THEN pv ELSE f.heap[m].prev
  <2> DEFINE nn == IF m = pv THEN nx ELSE f.heap[m].next
  <2> DEFINE pp == IF m = nx THEN pv ELSE f.heap[m].prev
  <2>1. f.heap[m] \in NodeRecord
    BY <1>1
  <2>2. g.heap[m] = [f.heap[m] EXCEPT !.next = nn, !.prev = pp]
    BY <1>2
  <2>3. nn \in Nat /\ pp \in Nat
    BY <1>3, <2>1 DEF NodeRecord
  <2> HIDE DEF nn, pp, g, nx, pv
  <2>4. /\ g.heap[m] \in NodeRecord
        /\ g.heap[m].rule = f.heap[m].rule
        /\ g.heap[m].hook = f.heap[m].hook
        /\ g.heap[m].score = f.heap[m].score
        /\ g.heap[m].next = nn
        /\ g.heap[m].prev = pp
    BY <2>1, <2>2, <2>3 DEF NodeRecord
  <2> QED
    BY <2>4 DEF nn, pp
<1>5. DOMAIN g.heap = E
  BY <1>2
<1> HIDE DEF g
<1>6. IsFirst(nx, above(n)) /\ IsLast(pv, below(n))
  BY <1>1
<1>7. D \in SUBSET (Nat \ {Null}) /\ D \in SUBSET Nat /\ n \in D
  BY <1>1
<1> HIDE DEF nx, pv, D
<1>8. IsFirst(g.first, E)
  <2>1. CASE f.first = n
    <3>1. above(n) = E
      <4>0. IsFirst(n, D)
        BY <1>1, <2>1
      <4>2. \A k \in D : n <= k /\ k \in Nat /\ n \in Nat
        BY <1>7, <4>0 DEF IsFirst
      <4>1. \A k \in D : k > n <=> k # n
        BY <4>2
      <4> QED
        BY <4>1
    <3> QED
      BY <1>2, <1>6, <2>1, <3>1
  <2>2. CASE f.first # n
    BY <1>1, <1>2, <1>7, <2>2, EndsStay
  <2> QED
    BY <2>1, <2>2
<1>9. IsLast(g.last, E)
  <2>1. CASE f.last = n
    <3>1. below(n) = E
      <4>0. IsLast(n, D)
        BY <1>1, <2>1
      <4>2. \A k \in D : k <= n /\ k \in Nat /\ n \in Nat
        BY <1>7, <4>0 DEF IsLast
      <4>1. \A k \in D : k < n <=> k # n
        BY <4>2
      <4> QED
        BY <4>1
    <3> QED
      BY <1>2, <1>6, <2>1, <3>1
  <2>2. CASE f.last # n
    BY <1>1, <1>2, <1>7, <2>2, EndsStay
  <2> QED
    BY <2>1, <2>2
<1>10. ASSUME NEW m \in E
       PROVE  IsFirst(g.heap[m].next, {k \in E : k > m})
  <2>0. {k \in E : k > m} = above(m) \ {n} /\ above(m) \in SUBSET Nat
    BY <1>7
  <2>3. m \in D
    OBVIOUS
  <2>1. CASE m = pv
    <3>1. IsLast(m, below(n))
      BY <1>6, <2>1
    <3>2. \A k \in D : k > m <=> k = n \/ k > n
      BY <1>7, <2>3, <3>1, Neighbours
    <3>3. above(m) \ {n} = above(n)
      <4>1. \A k \in D : (k > m /\ k # n) <=> k > n
        BY <1>7, <3>2
      <4> QED
        BY <4>1
    <3> QED
      BY <1>4, <1>6, <2>0, <2>1, <3>3, ZenonT(30)
  <2>2. CASE m # pv
    <3>1. IsFirst(f.heap[m].next, above(m))
      BY <1>1, <2>3
    <3>2. f.heap[m].next # n
      <4> SUFFICES ASSUME f.heap[m].next = n PROVE FALSE
        OBVIOUS
      <4>1. IsLast(m, below(n))
        BY <1>7, <2>3, <3>1, Neighbours
      <4>2. below(n) \in SUBSET Nat
        BY <1>7
      <4> QED
        BY <1>6, <2>2, <4>1, <4>2, EndsAreOne
    <3>3. IsFirst(f.heap[m].next, above(m) \ {n})
      BY <2>0, <3>1, <3>2, EndsStay
    <3> QED
      BY <1>4, <2>0, <2>2, <3>3
  <2> QED
    BY <2>1, <2>2
<1>11. ASSUME NEW m \in E
       PROVE  IsLast(g.heap[m].prev, {k \in E : k < m})
  <2>0. {k \in E : k < m} = below(m) \ {n} /\ below(m) \in SUBSET Nat
    BY <1>7
  <2>3. m \in D
    OBVIOUS
  <2>1. CASE m = nx
    <3>1. IsFirst(m, above(n))
      BY <1>6, <2>1
    <3>2. \A k \in D : k < m <=> k = n \/ k < n
      BY <1>7, <2>3, <3>1, Neighbours
    <3>3. below(m) \ {n} = below(n)
      <4>1. \A k \in D : (k < m /\ k # n) <=> k < n
        BY <1>7, <3>2
      <4> QED
        BY <4>1
    <3> QED
      BY <1>4, <1>6, <2>0, <2>1, <3>3, ZenonT(30)
  <2>2. CASE m # nx
    <3>1. IsLast(f.heap[m].prev, below(m))
      BY <1>1, <2>3
    <3>2. f.heap[m].prev # n
      <4> SUFFICES ASSUME f.heap[m].prev = n PROVE FALSE
        OBVIOUS
      <4>0. IsLast(n, {k \in D : k < m})
        BY <3>1
      <4>3. ASSUME NEW a \in D, NEW b \in D
            PROVE  IsFirst(a, {k \in D : k > b}) <=> IsLast(b, {k \in D : k < a})
        BY <1>7, Neighbours
      <4>1. IsFirst(m, above(n))
        BY <1>7, <2>3, <4>0, <4>3
      <4>2. above(n) \in SUBSET Nat
        BY <1>7
      <4> QED
        BY <1>6, <2>2, <4>1, <4>2, EndsAreOne
    <3>3. IsLast(f.heap[m].prev, below(m) \ {n})
      BY <2>0, <3>1, <3>2, EndsStay
    <3> QED
      BY <1>4, <2>0, <2>2, <3>3
  <2> QED
    BY <2>1, <2>2
<1>12. GoodList(g)
  BY <1>4, <1>5, <1>7, <1>8, <1>9, <1>10, <1>11 DEF GoodList
<1> QED
  BY <1>4, <1>5, <1>12 DEF g, D

---------------------------------------------------------------------------
(* The loop of iks_filter_remove_hook.                                     *)

RemoveStart == [rule |-> first, f |-> Filter]

\* The loop of n turns is a function.
LEMMA RemoveLoops ==
    ASSUME NEW h, NEW n \in Nat
    PROVE  \E L : L = [i \in 0 .. n |-> IF i = 0 THEN RemoveStart ELSE RemoveTurn(L[i - 1], h)]
<1> DEFINE Rec(L, k) == L = [i \in 0 .. k |-> IF i = 0 THEN RemoveStart
                                              ELSE RemoveTurn(L[i - 1], h)]
<1> DEFINE Bad == {k \in Nat : ~\E L : Rec(L, k)}
<1>1. ASSUME Bad # {} PROVE FALSE
  <2>1. PICK k \in Bad : \A v \in Bad : v >= k
    BY <1>1, LeastNatural
  <2>2. k \in Nat /\ ~\E L : Rec(L, k)
    OBVIOUS
  <2>3. CASE k = 0
    <3>1. Rec([i \in 0 .. 0 |-> RemoveStart], 0)
      OBVIOUS
    <3> QED
      BY <2>2, <2>3, <3>1
  <2>4. CASE k # 0
    <3>1. k - 1 \in Nat /\ ~(k - 1 >= k)
      BY <2>2, <2>4
    <3>2. PICK M : Rec(M, k - 1)
      BY <2>1, <3>1
    <3> DEFINE L == [i \in 0 .. k |-> IF i = k THEN RemoveTurn(M[k - 1], h) ELSE M[i]]
    <3>3. ASSUME NEW i \in 0 .. k
          PROVE  L[i] = IF i = 0 THEN RemoveStart ELSE RemoveTurn(L[i - 1], h)
      <4>1. CASE i = 0
        <5>1. i \in 0 .. k - 1 /\ i # k
          BY <2>2, <2>4, <4>1
        <5>2. M[i] = RemoveStart
          BY <3>2, <4>1, <5>1
        <5> QED
          BY <4>1, <5>1, <5>2
      <4>2. CASE i # 0
        <5>1. i - 1 \in 0 .. k /\ i - 1 # k
          BY <2>2, <4>2
        <5>2. L[i - 1] = M[i - 1]
          BY <5>1
        <5>3. CASE i = k
          BY <4>2, <5>2, <5>3
        <5>4. CASE i # k
          <6>1. i \in 0 .. k - 1
            BY <2>2, <5>4
          <6>2. M[i] = RemoveTurn(M[i - 1], h)
            BY <3>2, <4>2, <6>1
          <6> QED
            BY <4>2, <5>2, <5>4, <6>2
        <5> QED
          BY <5>3, <5>4
      <4> QED
        BY <4>1, <4>2
    <3>4. L = [i \in 0 .. k |-> L[i]]
      OBVIOUS
    <3> HIDE DEF L
    <3>5. Rec(L, k)
      BY <3>3, <3>4
    <3> QED
      BY <2>2, <3>5
  <2> QED
    BY <2>3, <2>4
<1>2. \E L : Rec(L, n)
  BY <1>1
<1> QED
  BY <1>2

\* The two invariants make the list a good one.
LEMMA FilterIsGood ==
    ASSUME FilterTypeOK, ListSound
    PROVE  /\ GoodList(Filter) /\ Filter.heap = heap /\ Filter.first = first
           /\ DOMAIN heap \subseteq 1 .. made /\ made \in Nat
<1>1. Filter.heap = heap /\ Filter.first = first /\ Filter.last = last
  BY DEF Filter
<1>2. DOMAIN heap \subseteq 1 .. made /\ made \in Nat
  BY FilterAssumption DEF FilterTypeOK
<1>3. DOMAIN heap \subseteq Nat \ {Null}
  BY <1>2 DEF Null
<1>4. \A n \in DOMAIN heap : heap[n] \in NodeRecord
  BY DEF FilterTypeOK, NodeRecord, Node
<1> QED
  BY <1>1, <1>2, <1>3, <1>4 DEF GoodList, ListSound, Node

\* iks_filter_remove_hook frees the rules with that hook and no others, and
\* leaves a list of those.
LEMMA WithoutAHook ==
    ASSUME FilterTypeOK, ListSound, NEW h
    PROVE  /\ GoodList(WithoutHook(h))
           /\ DOMAIN WithoutHook(h).heap = {n \in DOMAIN heap : heap[n].hook # h}
           /\ \A n \in DOMAIN WithoutHook(h).heap :
                 /\ WithoutHook(h).heap[n].rule = heap[n].rule
                 /\ WithoutHook(h).heap[n].hook = heap[n].hook
                 /\ WithoutHook(h).heap[n].score = heap[n].score
<1> DEFINE Rec(L) == L = [i \in Turns |-> IF i = 0 THEN [rule |-> first, f |-> Filter]
                                          ELSE RemoveTurn(L[i - 1], h)]
<1> DEFINE Loop == CHOOSE L : Rec(L)
<1>1. /\ GoodList(Filter) /\ Filter.heap = heap /\ Filter.first = first
      /\ DOMAIN heap \subseteq 1 .. made /\ made \in Nat
  BY FilterIsGood
<1>2. Rec(Loop)
  <2>1. \E L : Rec(L)
    BY <1>1, RemoveLoops DEF Turns, RemoveStart
  <2> QED
    BY <2>1
<1>3. WithoutHook(h) = Loop[made].f
  BY DEF WithoutHook
<1> HIDE DEF Loop
<1>4. /\ Loop[0] = [rule |-> first, f |-> Filter]
      /\ \A i \in 1 .. made : Loop[i] = RemoveTurn(Loop[i - 1], h)
  BY <1>1, <1>2 DEF Turns
\* The nodes that are left while the loop is at r.
<1> DEFINE Left(r) == {n \in DOMAIN heap : heap[n].hook # h \/ (r # Null /\ n >= r)}
<1> DEFINE P(w, i) == /\ GoodList(w.f)
                      /\ w.rule = Null \/ (w.rule \in DOMAIN w.f.heap /\ w.rule > i)
                      /\ DOMAIN w.f.heap = Left(w.rule)
                      /\ \A n \in DOMAIN w.f.heap :
                            /\ w.f.heap[n].rule = heap[n].rule
                            /\ w.f.heap[n].hook = heap[n].hook
                            /\ w.f.heap[n].score = heap[n].score
<1>5. P(Loop[0], 0)
  <2>1. Loop[0].f = Filter /\ Loop[0].rule = first
    BY <1>4
  <2>2. IsFirst(first, DOMAIN heap)
    BY DEF ListSound
  <2>3. first = Null \/ (first \in DOMAIN heap /\ first > 0)
    BY <1>1, <2>2 DEF IsFirst
  <2>4. DOMAIN heap = Left(first)
    <3>1. \A n \in DOMAIN heap : first # Null /\ n >= first
      BY <1>1, <2>2 DEF IsFirst, Null
    <3> QED
      BY <3>1
  <2> QED
    BY <1>1, <2>1, <2>3, <2>4
<1>6. ASSUME NEW w, NEW i \in 1 .. made, P(w, i - 1)
      PROVE  P(RemoveTurn(w, h), i)
  <2>1. CASE w.rule = Null
    BY <1>6, <2>1 DEF RemoveTurn
  <2>2. CASE w.rule # Null
    <3> DEFINE r == w.rule
    <3> DEFINE D == DOMAIN w.f.heap
    <3> DEFINE nx == w.f.heap[r].next
    <3> DEFINE v == RemoveTurn(w, h)
    <3>1. r \in D /\ r \in Nat /\ r > i - 1 /\ r # Null /\ D = Left(r) /\ GoodList(w.f)
      BY <1>1, <1>6, <2>2
    <3>2. v.rule = nx /\ v.f = IF w.f.heap[r].hook = h THEN Without(w.f, r) ELSE w.f
      BY <2>2 DEF RemoveTurn
    <3>3. w.f.heap[r].hook = heap[r].hook
      BY <1>6, <3>1
    <3>4. IsFirst(nx, {m \in D : m > r})
      BY <3>1 DEF GoodList
    <3> HIDE DEF nx, v, D
    <3>5. nx = Null \/ (nx \in D /\ nx > r /\ nx \in Nat)
      BY <1>1, <3>1, <3>4 DEF IsFirst
    <3>6. \A n \in D : n > r => nx # Null /\ n >= nx
      BY <1>1, <3>1, <3>4, <3>5 DEF IsFirst, Null
    <3>7. Left(nx) = IF heap[r].hook = h THEN D \ {r} ELSE D
      BY <1>1, <3>1, <3>5, <3>6
    <3>8. GoodList(v.f) /\ DOMAIN v.f.heap = Left(nx)
          /\ \A n \in DOMAIN v.f.heap : /\ v.f.heap[n].rule = heap[n].rule
                                        /\ v.f.heap[n].hook = heap[n].hook
                                        /\ v.f.heap[n].score = heap[n].score
      <4> HIDE DEF Left
      <4>1. CASE heap[r].hook = h
        BY <1>6, <3>1, <3>2, <3>3, <3>7, <4>1, WithoutOne DEF D
      <4>2. CASE heap[r].hook # h
        BY <1>6, <3>1, <3>2, <3>3, <3>7, <4>2 DEF D
      <4> QED
        BY <4>1, <4>2
    <3>9. nx = Null \/ (nx \in DOMAIN v.f.heap /\ nx > i)
      BY <3>1, <3>5, <3>7, <3>8
    <3> QED
      BY <3>2, <3>8, <3>9 DEF v
  <2> QED
    BY <2>1, <2>2
<1> HIDE DEF P
<1> DEFINE Bad == {i \in Nat : i \in 0 .. made /\ ~P(Loop[i], i)}
<1>7. ASSUME Bad # {} PROVE FALSE
  <2>1. PICK i \in Bad : \A j \in Bad : j >= i
    BY <1>7, LeastNatural
  <2>2. i \in 0 .. made /\ ~P(Loop[i], i)
    OBVIOUS
  <2>3. i # 0
    BY <1>5, <2>2
  <2>4. i \in 1 .. made /\ i - 1 \in Nat /\ i - 1 \in 0 .. made /\ ~(i - 1 >= i)
    BY <1>1, <2>2, <2>3
  <2>5. P(Loop[i - 1], i - 1)
    BY <2>1, <2>4
  <2>6. P(Loop[i], i)
    BY <1>4, <1>6, <2>4, <2>5
  <2> QED
    BY <2>2, <2>6
<1>8. P(Loop[made], made)
  BY <1>1, <1>7
<1>9. Loop[made].rule = Null
  BY <1>1, <1>8 DEF P
<1> QED
  BY <1>3, <1>8, <1>9 DEF P

---------------------------------------------------------------------------
(* The loops of iks_filter_packet.                                         *)

MaxStart == [rule |-> first, max_rule |-> Null]

\* They are functions of the number of turns.
LEMMA MaxLoops ==
    ASSUME NEW n \in Nat
    PROVE  \E L : L = [i \in 0 .. n |-> IF i = 0 THEN MaxStart ELSE MaxTurn(L[i - 1])]
<1> DEFINE Rec(L, k) == L = [i \in 0 .. k |-> IF i = 0 THEN MaxStart
                                              ELSE MaxTurn(L[i - 1])]
<1> DEFINE Bad == {k \in Nat : ~\E L : Rec(L, k)}
<1>1. ASSUME Bad # {} PROVE FALSE
  <2>1. PICK k \in Bad : \A v \in Bad : v >= k
    BY <1>1, LeastNatural
  <2>2. k \in Nat /\ ~\E L : Rec(L, k)
    OBVIOUS
  <2>3. CASE k = 0
    <3>1. Rec([i \in 0 .. 0 |-> MaxStart], 0)
      OBVIOUS
    <3> QED
      BY <2>2, <2>3, <3>1
  <2>4. CASE k # 0
    <3>1. k - 1 \in Nat /\ ~(k - 1 >= k)
      BY <2>2, <2>4
    <3>2. PICK M : Rec(M, k - 1)
      BY <2>1, <3>1
    <3> DEFINE L == [i \in 0 .. k |-> IF i = k THEN MaxTurn(M[k - 1]) ELSE M[i]]
    <3>3. ASSUME NEW i \in 0 .. k
          PROVE  L[i] = IF i = 0 THEN MaxStart ELSE MaxTurn(L[i - 1])
      <4>1. CASE i = 0
        <5>1. i \in 0 .. k - 1 /\ i # k
          BY <2>2, <2>4, <4>1
        <5>2. M[i] = MaxStart
          BY <3>2, <4>1, <5>1
        <5> QED
          BY <4>1, <5>1, <5>2
      <4>2. CASE i # 0
        <5>1. i - 1 \in 0 .. k /\ i - 1 # k
          BY <2>2, <4>2
        <5>2. L[i - 1] = M[i - 1]
          BY <5>1
        <5>3. CASE i = k
          BY <4>2, <5>2, <5>3
        <5>4. CASE i # k
          <6>1. i \in 0 .. k - 1
            BY <2>2, <5>4
          <6>2. M[i] = MaxTurn(M[i - 1])
            BY <3>2, <4>2, <6>1
          <6> QED
            BY <4>2, <5>2, <5>4, <6>2
        <5> QED
          BY <5>3, <5>4
      <4> QED
        BY <4>1, <4>2
    <3>4. L = [i \in 0 .. k |-> L[i]]
      OBVIOUS
    <3> HIDE DEF L
    <3>5. Rec(L, k)
      BY <3>3, <3>4
    <3> QED
      BY <2>2, <3>5
  <2> QED
    BY <2>3, <2>4
<1>2. \E L : Rec(L, n)
  BY <1>1
<1> QED
  BY <1>2

\* Node m is asked before node n.
Before(m, n) == \/ Node(m).score > Node(n).score
                \/ Node(m).score = Node(n).score /\ m < n

\* max_rule is the first node with the highest score, or NULL when no score is
\* above 0.
LEMMA MaxRuleIs ==
    ASSUME FilterTypeOK, ListSound
    PROVE  \/ MaxRule = Null /\ \A n \in DOMAIN heap : Node(n).score = 0
           \/ /\ MaxRule \in DOMAIN heap /\ Node(MaxRule).score > 0
              /\ \A n \in DOMAIN heap \ {MaxRule} : Before(MaxRule, n)
<1> DEFINE Rec(L) == L = [i \in Turns |-> IF i = 0 THEN [rule |-> first, max_rule |-> Null]
                                          ELSE MaxTurn(L[i - 1])]
<1> DEFINE Loop == CHOOSE L : Rec(L)
<1> DEFINE D == DOMAIN heap
<1>1. D \subseteq 1 .. made /\ made \in Nat
  BY FilterIsGood
<1>2. Rec(Loop)
  <2>1. \E L : Rec(L)
    BY <1>1, MaxLoops DEF Turns, MaxStart
  <2> QED
    BY <2>1
<1>3. MaxRule = Loop[made].max_rule
  BY DEF MaxRule
<1> HIDE DEF Loop
<1>4. /\ Loop[0] = [rule |-> first, max_rule |-> Null]
      /\ \A i \in 1 .. made : Loop[i] = MaxTurn(Loop[i - 1])
  BY <1>1, <1>2 DEF Turns
\* The nodes the loop was at before r.
<1> DEFINE Seen(r) == {n \in D : r = Null \/ n < r}
<1> DEFINE P(w, i) == /\ w.rule = Null \/ (w.rule \in D /\ w.rule > i)
                      /\ \/ w.max_rule = Null /\ \A n \in Seen(w.rule) : Node(n).score = 0
                         \/ /\ w.max_rule \in Seen(w.rule) /\ w.max_rule # Null
                            /\ Node(w.max_rule).score > 0
                            /\ \A n \in Seen(w.rule) \ {w.max_rule} : Before(w.max_rule, n)
<1>5. P(Loop[0], 0)
  <2>1. Loop[0].rule = first /\ Loop[0].max_rule = Null
    BY <1>4
  <2>2. IsFirst(first, D)
    BY DEF ListSound
  <2>3. first = Null \/ (first \in D /\ first > 0)
    BY <1>1, <2>2 DEF IsFirst
  <2>4. \A n \in D : first # Null /\ ~(n < first)
    BY <1>1, <2>2 DEF IsFirst, Null
  <2> QED
    BY <2>1, <2>3, <2>4
<1>6. ASSUME NEW w, NEW i \in 1 .. made, P(w, i - 1)
      PROVE  P(MaxTurn(w), i)
  <2>1. CASE w.rule = Null
    BY <1>6, <2>1 DEF MaxTurn
  <2>2. CASE w.rule # Null
    <3> DEFINE r == w.rule
    <3> DEFINE nx == Node(r).next
    <3> DEFINE v == MaxTurn(w)
    <3> DEFINE m == w.max_rule
    <3>1. r \in D /\ r \in Nat /\ r > i - 1 /\ r # Null
      BY <1>1, <1>6, <2>2
    <3>2. /\ v.rule = nx
          /\ v.max_rule = IF Node(r).score > 0 /\ (m = Null \/ Node(r).score > Node(m).score)
                          THEN r ELSE m
      BY <2>2 DEF MaxTurn
    <3>3. IsFirst(nx, {k \in D : k > r})
      BY <3>1 DEF ListSound
    <3>4. \A n \in D : Node(n).score \in Nat
      BY DEF FilterTypeOK
    <3>5. \/ m = Null /\ \A n \in Seen(r) : Node(n).score = 0
          \/ /\ m \in Seen(r) /\ m # Null /\ Node(m).score > 0
             /\ \A n \in Seen(r) \ {m} : Before(m, n)
      BY <1>6
    <3> HIDE DEF nx, v, m
    <3>6. nx = Null \/ (nx \in D /\ nx > r /\ nx \in Nat)
      BY <1>1, <3>1, <3>3 DEF IsFirst
    <3>7. \A n \in D : n > r => nx # Null /\ n >= nx
      BY <1>1, <3>1, <3>3, <3>6 DEF IsFirst, Null
    <3>8. Seen(nx) = Seen(r) \union {r}
      BY <1>1, <3>1, <3>6, <3>7
    <3>9. Seen(r) \subseteq D /\ \A n \in Seen(r) : n < r /\ n \in Nat
      BY <1>1, <3>1
    <3>10. \/ v.max_rule = Null /\ \A n \in Seen(nx) : Node(n).score = 0
           \/ /\ v.max_rule \in Seen(nx) /\ v.max_rule # Null
              /\ Node(v.max_rule).score > 0
              /\ \A n \in Seen(nx) \ {v.max_rule} : Before(v.max_rule, n)
      <4> HIDE DEF Seen
      <4>1. CASE m = Null
        BY <3>1, <3>2, <3>4, <3>5, <3>8, <3>9, <4>1 DEF Before
      <4>2. CASE m # Null /\ Node(r).score > Node(m).score
        BY <3>1, <3>2, <3>4, <3>5, <3>8, <3>9, <4>2 DEF Before
      <4>3. CASE m # Null /\ ~(Node(r).score > Node(m).score)
        BY <3>1, <3>2, <3>4, <3>5, <3>8, <3>9, <4>3 DEF Before
      <4> QED
        BY <4>1, <4>2, <4>3
    <3>11. nx = Null \/ (nx \in D /\ nx > i)
      BY <3>1, <3>6
    <3> QED
      BY <3>2, <3>10, <3>11 DEF v
  <2> QED
    BY <2>1, <2>2
<1> HIDE DEF P
<1> DEFINE Bad == {i \in Nat : i \in 0 .. made /\ ~P(Loop[i], i)}
<1>7. ASSUME Bad # {} PROVE FALSE
  <2>1. PICK i \in Bad : \A j \in Bad : j >= i
    BY <1>7, LeastNatural
  <2>2. i \in 0 .. made /\ ~P(Loop[i], i)
    OBVIOUS
  <2>3. i # 0
    BY <1>5, <2>2
  <2>4. i \in 1 .. made /\ i - 1 \in Nat /\ i - 1 \in 0 .. made /\ ~(i - 1 >= i)
    BY <1>1, <2>2, <2>3
  <2>5. P(Loop[i - 1], i - 1)
    BY <2>1, <2>4
  <2>6. P(Loop[i], i)
    BY <1>4, <1>6, <2>4, <2>5
  <2> QED
    BY <2>2, <2>6
<1>8. P(Loop[made], made)
  BY <1>1, <1>7
<1>9. Loop[made].rule = Null
  BY <1>1, <1>8 DEF P
<1>10. Seen(Null) = D
  OBVIOUS
<1> QED
  BY <1>3, <1>8, <1>9, <1>10 DEF P

---------------------------------------------------------------------------
(* The inductive invariant.                                                *)

\* How well the packet on its way meets the rule of a node, and who is asked
\* first.
Meets(n) == Score(Node(n).rule, Head(pak))

Ahead(m, n) == \/ Meets(m) > Meets(n)
               \/ Meets(m) = Meets(n) /\ m < n

\* While a packet is on its way the score of a node is what the first loop gave
\* it, unless its hook was asked, and all that were asked come before it.
Scores ==
    ~Idle =>
        /\ \A i \in 1 .. Len(asked) : asked[i] \in DOMAIN heap /\ Meets(asked[i]) > 0
        /\ \A i, j \in 1 .. Len(asked) : i < j => Ahead(asked[i], asked[j])
        /\ \A n \in DOMAIN heap :
              \/ Node(n).score = 0 /\ \E i \in 1 .. Len(asked) : asked[i] = n
              \/ Node(n).score = Meets(n) /\ \A i \in 1 .. Len(asked) : Ahead(asked[i], n)

FilterInv == FilterTypeOK /\ ListSound /\ Scores

\* A score is a number.
LEMMA ScoreType == ASSUME NEW r, NEW p PROVE Score(r, p) \in Nat
<1> DEFINE Part(field, weight) == IF r[field] = AnyValue THEN 0 ELSE weight
<1>1. /\ Part("type", 1) \in Nat /\ Part("subtype", 2) \in Nat /\ Part("id", 16) \in Nat
      /\ Part("ns", 4) \in Nat /\ Part("from", 8) \in Nat /\ Part("partial", 8) \in Nat
  OBVIOUS
<1> DEFINE all == Part("type", 1) + Part("subtype", 2) + Part("id", 16) + Part("ns", 4)
                      + Part("from", 8) + Part("partial", 8)
<1>2. all \in Nat
  <2> HIDE DEF Part
  <2> QED
    BY <1>1
<1>3. Score(r, p) = 0 \/ Score(r, p) = all
  BY DEF Score
<1> QED
  BY <1>2, <1>3

\* An empty list.
LEMMA FilterInvInit == FilterInit => FilterInv
<1> SUFFICES ASSUME FilterInit PROVE FilterInv
  OBVIOUS
<1>1. DOMAIN heap = {} /\ first = Null /\ last = Null /\ made = 0 /\ pak = <<>> /\ asked = <<>>
  BY DEF FilterInit
<1>2. FilterTypeOK
  BY <1>1, FilterAssumption DEF FilterTypeOK
<1>3. ListSound
  BY <1>1 DEF ListSound, IsFirst, IsLast
<1> QED
  BY <1>1, <1>2, <1>3 DEF FilterInv, Scores, Idle

\* What a call that takes nodes out of the list must leave.
LEMMA LessIsFine ==
    ASSUME FilterInv, Idle, NEW f, GoodList(f), DOMAIN f.heap \subseteq DOMAIN heap,
           Becomes(f), UNCHANGED <<made, pak, asked>>
    PROVE  FilterInv'
<1>1. heap' = f.heap /\ first' = f.first /\ last' = f.last
      /\ made' = made /\ pak' = pak /\ asked' = asked
  BY DEF Becomes
<1>2. ListSound'
  BY <1>1 DEF ListSound, GoodList, Node
<1>3. first' \in {Null} \union DOMAIN heap' /\ last' \in {Null} \union DOMAIN heap'
  BY <1>2 DEF ListSound, IsFirst, IsLast
<1>4. \A n \in DOMAIN heap' : heap'[n] \in NodeRecord
  BY <1>1 DEF GoodList
<1>5. FilterTypeOK'
  BY <1>1, <1>3, <1>4 DEF FilterTypeOK, FilterInv, Node, NodeRecord
<1> QED
  BY <1>1, <1>2, <1>5 DEF FilterInv, Scores, Idle

\* A change of scores leaves the list as it is.
LEMMA LinksStay ==
    ASSUME FilterInv, UNCHANGED <<first, last>>,
           DOMAIN heap' = DOMAIN heap,
           \A n \in DOMAIN heap : heap'[n].next = heap[n].next /\ heap'[n].prev = heap[n].prev
    PROVE  ListSound'
BY DEF FilterInv, ListSound, Node

\* A rule goes in.
LEMMA AddKeeps == FilterInv /\ iks_filter_add_rule => FilterInv'
<1> SUFFICES ASSUME FilterInv, iks_filter_add_rule PROVE FilterInv'
  OBVIOUS
<1>1. /\ GoodList(Filter) /\ Filter.heap = heap /\ Filter.first = first
      /\ DOMAIN heap \subseteq 1 .. made /\ made \in Nat
  BY FilterIsGood DEF FilterInv
<1> DEFINE D == DOMAIN heap
<1>2. PICK r \in Rules, h \in Hooks :
          heap' = [n \in D \union {made'} |->
                     IF n = made' THEN [rule |-> r, hook |-> h, score |-> 0,
                                        next |-> Null, prev |-> last]
                     ELSE IF n = last THEN [Node(n) EXCEPT !.next = made']
                     ELSE Node(n)]
  BY DEF iks_filter_add_rule
<1>3. /\ made' = made + 1 /\ made' \in Nat /\ made' \notin D /\ made' \in 0 .. MaxRules
      /\ pak' = pak /\ asked' = asked /\ Idle
      /\ first' = IF first = Null THEN made' ELSE first
      /\ last' = made'
  BY <1>1, FilterAssumption DEF iks_filter_add_rule
<1>4. DOMAIN heap' = D \union {made'} /\ \A n \in D : n < made' /\ n \in Nat /\ n # Null
  BY <1>1, <1>2, <1>3 DEF Null
<1>5. IsFirst(first, D) /\ IsLast(last, D)
  BY DEF FilterInv, ListSound
<1>6. last \in Nat /\ (last \in D \/ last = Null)
  BY <1>4, <1>5 DEF IsLast, Null
<1>7. heap'[made'] = [rule |-> r, hook |-> h, score |-> 0, next |-> Null, prev |-> last]
  BY <1>2
<1>8. ASSUME NEW n \in D
      PROVE  /\ heap'[n] = IF n = last THEN [heap[n] EXCEPT !.next = made'] ELSE heap[n]
             /\ heap[n] \in NodeRecord
             /\ IsFirst(heap[n].next, {m \in D : m > n})
             /\ IsLast(heap[n].prev, {m \in D : m < n})
  <2>1. n # made' /\ n \in D \union {made'}
    BY <1>3
  <2>2. heap'[n] = IF n = last THEN [heap[n] EXCEPT !.next = made'] ELSE heap[n]
    BY <1>2, <2>1 DEF Node
  <2> QED
    BY <2>2 DEF FilterInv, FilterTypeOK, NodeRecord, ListSound, Node
<1>9. \A n \in DOMAIN heap' : heap'[n] \in NodeRecord
  <2>1. heap'[made'] \in NodeRecord
    BY <1>6, <1>7 DEF NodeRecord, Null
  <2>2. ASSUME NEW n \in D PROVE heap'[n] \in NodeRecord
    BY <1>3, <1>8 DEF NodeRecord
  <2> QED
    BY <1>4, <2>1, <2>2
<1> HIDE DEF D
<1>10. IsFirst(first', DOMAIN heap')
  BY <1>3, <1>4, <1>5 DEF IsFirst
<1>11. IsLast(last', DOMAIN heap')
  BY <1>3, <1>4 DEF IsLast
<1>12. ASSUME NEW n \in DOMAIN heap'
       PROVE  IsFirst(heap'[n].next, {m \in DOMAIN heap' : m > n})
  <2>1. CASE n = made'
    <3>1. {m \in DOMAIN heap' : m > n} = {}
      BY <1>3, <1>4, <2>1
    <3> QED
      BY <1>7, <2>1, <3>1 DEF IsFirst
  <2>2. CASE n # made' /\ n = last
    <3>1. n \in D
      BY <1>4, <2>2
    <3>2. {m \in DOMAIN heap' : m > n} = {made'}
      <4>1. \A m \in D : m <= n
        BY <1>5, <2>2, <3>1 DEF IsLast
      <4>2. \A m \in DOMAIN heap' : m > n <=> m = made'
        BY <1>3, <1>4, <3>1, <4>1
      <4> QED
        BY <1>4, <4>2
    <3>3. heap'[n].next = made'
      BY <1>8, <2>2, <3>1 DEF NodeRecord
    <3> QED
      BY <1>3, <3>2, <3>3 DEF IsFirst
  <2>3. CASE n # made' /\ n # last
    <3>1. n \in D
      BY <1>4, <2>3
    <3>2. heap'[n].next = heap[n].next /\ IsFirst(heap[n].next, {m \in D : m > n})
      BY <1>8, <2>3, <3>1
    <3>3. last \in D /\ last > n
      BY <1>4, <1>5, <2>3, <3>1 DEF IsLast
    <3>4. {m \in DOMAIN heap' : m > n} = {m \in D : m > n} \union {made'}
      BY <1>3, <1>4, <3>1
    <3>5. heap[n].next \in {m \in D : m > n} /\ \A m \in {m \in D : m > n} : heap[n].next <= m
      BY <3>2, <3>3 DEF IsFirst
    <3>6. heap[n].next <= made'
      BY <1>3, <1>4, <3>5
    <3> QED
      BY <3>2, <3>4, <3>5, <3>6 DEF IsFirst
  <2> QED
    BY <2>1, <2>2, <2>3
<1>13. ASSUME NEW n \in DOMAIN heap'
       PROVE  IsLast(heap'[n].prev, {m \in DOMAIN heap' : m < n})
  <2>1. CASE n = made'
    <3>1. {m \in DOMAIN heap' : m < n} = D
      BY <1>3, <1>4, <2>1
    <3> QED
      BY <1>5, <1>7, <2>1, <3>1
  <2>2. CASE n # made'
    <3>1. n \in D
      BY <1>4, <2>2
    <3>2. heap'[n].prev = heap[n].prev
      BY <1>8, <3>1 DEF NodeRecord
    <3>3. {m \in DOMAIN heap' : m < n} = {m \in D : m < n}
      BY <1>3, <1>4, <3>1
    <3> QED
      BY <1>8, <3>1, <3>2, <3>3
  <2> QED
    BY <2>1, <2>2
<1>14. ListSound'
  BY <1>10, <1>11, <1>12, <1>13 DEF ListSound, Node
<1>15. FilterTypeOK'
  <2>1. DOMAIN heap' \subseteq 1 .. made'
    BY <1>1, <1>3, <1>4 DEF D
  <2>2. first' \in {Null} \union DOMAIN heap' /\ last' \in {Null} \union DOMAIN heap'
    BY <1>10, <1>11 DEF IsFirst, IsLast
  <2>3. asked' \in Seq(1 .. made')
    <3>1. asked \in Seq(1 .. made)
      BY DEF FilterInv, FilterTypeOK
    <3>2. 1 .. made \subseteq 1 .. made'
      BY <1>1, <1>3
    <3>3. asked \in Seq(1 .. made')
      BY <3>1, <3>2, SeqMonotonic
    <3> QED
      BY <1>3, <3>3
  <2>4. (pak = <<>> \/ \E p \in Packets : pak = <<p>>)'
    BY <1>3 DEF Idle
  <2> QED
    BY <1>3, <1>9, <2>1, <2>2, <2>3, <2>4 DEF FilterTypeOK, NodeRecord, Node
<1> QED
  BY <1>3, <1>14, <1>15 DEF FilterInv, Scores, Idle

\* One more was asked: the node that is best of those with a score above 0.
LEMMA AskedOneMore ==
    ASSUME FilterInv, ~Idle, MaxRule # Null
    PROVE  /\ MaxRule \in DOMAIN heap /\ MaxRule \in 1 .. made
           /\ Append(asked, MaxRule) \in Seq(1 .. made)
           /\ Len(asked) \in Nat
           /\ Len(Append(asked, MaxRule)) = Len(asked) + 1
           /\ \A i \in 1 .. Len(asked) : Append(asked, MaxRule)[i] = asked[i]
           /\ Append(asked, MaxRule)[Len(asked) + 1] = MaxRule
           /\ Node(MaxRule).score > 0
           /\ \A n \in DOMAIN heap \ {MaxRule} : Before(MaxRule, n)
<1>1. FilterTypeOK /\ ListSound
  BY DEF FilterInv
<1>2. 0 \notin DOMAIN heap /\ DOMAIN heap \subseteq 1 .. made
  BY <1>1, FilterIsGood
<1>3. /\ MaxRule \in DOMAIN heap /\ Node(MaxRule).score > 0
      /\ \A n \in DOMAIN heap \ {MaxRule} : Before(MaxRule, n)
  BY <1>1, MaxRuleIs
<1>4. MaxRule \in 1 .. made /\ asked \in Seq(1 .. made)
  BY <1>1, <1>2, <1>3 DEF FilterTypeOK
<1> HIDE DEF MaxRule
<1>5. Len(asked) \in Nat
  BY <1>4, LenProperties
<1> QED
  BY <1>3, <1>4, <1>5, AppendProperties

\* The walk over the rules begins.
LEMMA ReceiveKeeps == FilterInv /\ Receive => FilterInv'
<1> SUFFICES ASSUME FilterInv, Receive PROVE FilterInv'
  OBVIOUS
<1>1. PICK p \in Packets :
          /\ pak' = <<p>>
          /\ heap' = [n \in DOMAIN heap |-> [Node(n) EXCEPT !.score = Score(Node(n).rule, p)]]
  BY DEF Receive
<1>2. asked' = <<>> /\ first' = first /\ last' = last /\ made' = made
  BY DEF Receive
<1>3. \A n \in DOMAIN heap : heap[n] \in NodeRecord
  BY DEF FilterInv, FilterTypeOK, NodeRecord, Node
<1>4. ASSUME NEW n \in DOMAIN heap
      PROVE  /\ heap'[n] \in NodeRecord
             /\ heap'[n].rule = heap[n].rule
             /\ heap'[n].score = Score(heap[n].rule, p)
             /\ heap'[n].next = heap[n].next /\ heap'[n].prev = heap[n].prev
  <2> DEFINE s == Score(heap[n].rule, p)
  <2>1. s \in Nat
    BY ScoreType
  <2>2. heap'[n] = [heap[n] EXCEPT !.score = s]
    BY <1>1 DEF Node
  <2> HIDE DEF s
  <2>3. /\ heap'[n] \in NodeRecord
        /\ heap'[n].rule = heap[n].rule
        /\ heap'[n].score = s
        /\ heap'[n].next = heap[n].next /\ heap'[n].prev = heap[n].prev
    BY <1>3, <2>1, <2>2 DEF NodeRecord
  <2> QED
    BY <2>3 DEF s
<1>5. DOMAIN heap' = DOMAIN heap
  BY <1>1
<1>6. ListSound'
  BY <1>2, <1>4, <1>5, LinksStay
<1>7. FilterTypeOK'
  <2>1. <<>> \in Seq(1 .. made)
    OBVIOUS
  <2>2. (pak = <<>> \/ \E q \in Packets : pak = <<q>>)'
    BY <1>1
  <2> QED
    BY <1>2, <1>4, <1>5, <2>1, <2>2 DEF FilterInv, FilterTypeOK, NodeRecord, Node
<1>8. Scores'
  <2>1. Len(asked') = 0 /\ Head(pak') = p
    BY <1>1, <1>2
  <2>2. \A n \in DOMAIN heap' : Node(n)'.score = Meets(n)'
    BY <1>4, <1>5, <2>1 DEF Meets, Node
  <2> QED
    BY <2>1, <2>2 DEF Scores
<1> QED
  BY <1>6, <1>7, <1>8 DEF FilterInv

\* A hook eats the packet.
LEMMA EatenKeeps == FilterInv /\ Eaten => FilterInv'
<1> SUFFICES ASSUME FilterInv, Eaten PROVE FilterInv'
  OBVIOUS
<1>1. /\ ~Idle /\ MaxRule # Null /\ asked' = Append(asked, MaxRule) /\ pak' = <<>>
      /\ heap' = heap /\ first' = first /\ last' = last /\ made' = made
  BY DEF Eaten
<1>2. asked' \in Seq(1 .. made)
  BY <1>1, AskedOneMore
<1>3. FilterTypeOK'
  BY <1>1, <1>2 DEF FilterInv, FilterTypeOK, Node
<1>4. ListSound'
  BY <1>1, LinksStay
<1> QED
  BY <1>1, <1>3, <1>4 DEF FilterInv, Scores, Idle

\* No rule is left to try.
LEMMA NobodyKeeps == FilterInv /\ Nobody => FilterInv'
<1> SUFFICES ASSUME FilterInv, Nobody PROVE FilterInv'
  OBVIOUS
<1>1. /\ pak' = <<>> /\ asked' = asked
      /\ heap' = heap /\ first' = first /\ last' = last /\ made' = made
  BY DEF Nobody
<1>2. FilterTypeOK'
  BY <1>1 DEF FilterInv, FilterTypeOK, Node
<1>3. ListSound'
  BY <1>1, LinksStay
<1> QED
  BY <1>1, <1>2, <1>3 DEF FilterInv, Scores, Idle

\* A hook passes the packet on.
LEMMA PassedKeeps == FilterInv /\ Passed => FilterInv'
<1> SUFFICES ASSUME FilterInv, Passed PROVE FilterInv'
  OBVIOUS
<1> DEFINE b == MaxRule
<1>1. /\ ~Idle /\ b # Null /\ asked' = Append(asked, b) /\ pak' = pak
      /\ heap' = [heap EXCEPT ![b].score = 0]
      /\ first' = first /\ last' = last /\ made' = made
  BY DEF Passed
<1>2. /\ b \in DOMAIN heap /\ b \in 1 .. made
      /\ asked' \in Seq(1 .. made)
      /\ Len(asked) \in Nat
      /\ Len(asked') = Len(asked) + 1
      /\ \A i \in 1 .. Len(asked) : asked'[i] = asked[i]
      /\ asked'[Len(asked) + 1] = b
      /\ Node(b).score > 0
      /\ \A n \in DOMAIN heap \ {b} : Before(b, n)
  BY <1>1, AskedOneMore
<1> HIDE DEF b
<1>3. \A n \in DOMAIN heap : heap[n] \in NodeRecord
  BY DEF FilterInv, FilterTypeOK, NodeRecord, Node
<1>4. ASSUME NEW n \in DOMAIN heap
      PROVE  /\ heap'[n] \in NodeRecord
             /\ heap'[n].rule = heap[n].rule
             /\ heap'[n].score = IF n = b THEN 0 ELSE heap[n].score
             /\ heap'[n].next = heap[n].next /\ heap'[n].prev = heap[n].prev
  <2>1. CASE n = b
    <3>1. heap'[n] = [heap[n] EXCEPT !.score = 0]
      BY <1>1, <1>2, <2>1
    <3> QED
      BY <1>3, <2>1, <3>1 DEF NodeRecord
  <2>2. CASE n # b
    <3>1. heap'[n] = heap[n]
      BY <1>1, <1>2, <2>2
    <3> QED
      BY <1>3, <2>2, <3>1
  <2> QED
    BY <2>1, <2>2
<1>5. DOMAIN heap' = DOMAIN heap
  BY <1>1
<1>6. ListSound'
  BY <1>1, <1>4, <1>5, LinksStay
<1>7. FilterTypeOK'
  BY <1>1, <1>2, <1>4, <1>5 DEF FilterInv, FilterTypeOK, NodeRecord, Node
<1>8. \A n \in DOMAIN heap : Meets(n)' = Meets(n) /\ Meets(n) \in Nat
  BY <1>1, <1>4, ScoreType DEF Meets, Node
<1>9. DOMAIN heap \subseteq Nat
  BY FilterIsGood DEF FilterInv
<1> DEFINE N == 1 .. Len(asked)
<1>10. /\ \A i \in N : asked[i] \in DOMAIN heap /\ Meets(asked[i]) > 0
       /\ \A i, j \in N : i < j => Ahead(asked[i], asked[j])
       /\ \A n \in DOMAIN heap :
              \/ Node(n).score = 0 /\ \E i \in N : asked[i] = n
              \/ Node(n).score = Meets(n) /\ \A i \in N : Ahead(asked[i], n)
  BY <1>1 DEF FilterInv, Scores
<1>11. \A m, n \in DOMAIN heap : Ahead(m, n)' <=> Ahead(m, n)
  BY <1>8 DEF Ahead
<1>12. Node(b).score = Meets(b) /\ \A i \in N : Ahead(asked[i], b)
  BY <1>2, <1>10
<1>13. \A i \in 1 .. Len(asked') : i \in N \/ i = Len(asked) + 1
  BY <1>2
<1>14. \A i \in 1 .. Len(asked') : asked'[i] \in DOMAIN heap' /\ Meets(asked'[i]) > 0
  BY <1>2, <1>5, <1>10, <1>12, <1>13
<1>15. ASSUME NEW i \in 1 .. Len(asked'), NEW j \in 1 .. Len(asked'), i < j
       PROVE  Ahead(asked'[i], asked'[j])
  <2>1. i \in N /\ asked'[i] = asked[i]
    BY <1>2, <1>15
  <2>2. CASE j \in N
    <3>1. asked'[j] = asked[j]
      BY <1>2, <2>2
    <3>2. Ahead(asked[i], asked[j])
      BY <1>10, <1>15, <2>1, <2>2
    <3> QED
      BY <2>1, <3>1, <3>2
  <2>3. CASE j = Len(asked) + 1
    <3>1. asked'[j] = b
      BY <1>2, <2>3
    <3>2. Ahead(asked[i], b)
      BY <1>12, <2>1
    <3> QED
      BY <2>1, <3>1, <3>2
  <2> QED
    BY <1>13, <2>2, <2>3
<1>16. ASSUME NEW n \in DOMAIN heap
       PROVE  \/ Node(n)'.score = 0 /\ \E i \in 1 .. Len(asked') : asked'[i] = n
              \/ Node(n)'.score = Meets(n) /\ \A i \in 1 .. Len(asked') : Ahead(asked'[i], n)
  <2>1. CASE n = b
    <3>1. Node(n)'.score = 0
      BY <1>4, <2>1 DEF Node
    <3>2. Len(asked) + 1 \in 1 .. Len(asked') /\ asked'[Len(asked) + 1] = n
      BY <1>2, <2>1
    <3> QED
      BY <3>1, <3>2
  <2>2. CASE n # b
    <3>1. Node(n)'.score = Node(n).score
      BY <1>4, <2>2 DEF Node
    <3>2. CASE Node(n).score = 0 /\ \E i \in N : asked[i] = n
      <4>1. PICK i \in N : asked[i] = n
        BY <3>2
      <4>2. i \in 1 .. Len(asked') /\ asked'[i] = n
        BY <1>2, <4>1
      <4> QED
        BY <3>1, <3>2, <4>2
    <3>3. CASE Node(n).score = Meets(n) /\ \A i \in N : Ahead(asked[i], n)
      <4>1. Ahead(b, n)
        BY <1>2, <1>12, <2>2, <3>3 DEF Before, Ahead
      <4>2. \A i \in 1 .. Len(asked') : Ahead(asked'[i], n)
        BY <1>2, <1>13, <3>3, <4>1
      <4> QED
        BY <3>1, <3>3, <4>2
    <3> QED
      BY <1>10, <3>2, <3>3
  <2> QED
    BY <2>1, <2>2
<1>17. Scores'
  <2>1. \A n \in DOMAIN heap : Meets(n)' = Meets(n)
    BY <1>8
  <2>2. \A i \in 1 .. Len(asked') : asked'[i] \in DOMAIN heap
    BY <1>5, <1>14
  <2>3. \A n \in DOMAIN heap : Meets(n) > 0 => (Meets(n) > 0)'
    BY <2>1
  <2> QED
    BY <1>5, <1>11, <1>14, <1>15, <1>16, <2>1, <2>2 DEF Scores
<1> QED
  BY <1>6, <1>7, <1>17 DEF FilterInv

\* The invariant holds before and after every call.
THEOREM FilterHolds == FilterSpec => []FilterInv
<1>1. FilterInv /\ [FilterNext]_filterVars => FilterInv'
  <2> SUFFICES ASSUME FilterInv, [FilterNext]_filterVars PROVE FilterInv'
    OBVIOUS
  <2>1. CASE iks_filter_add_rule
    BY <2>1, AddKeeps
  <2>2. CASE iks_filter_remove_rule
    <3>1. PICK n \in DOMAIN heap : Becomes(Without(Filter, n))
      BY <2>2 DEF iks_filter_remove_rule
    <3>2. GoodList(Filter) /\ Filter.heap = heap
      BY FilterIsGood DEF FilterInv
    <3>3. GoodList(Without(Filter, n)) /\ DOMAIN Without(Filter, n).heap \subseteq DOMAIN heap
      BY <3>2, WithoutOne
    <3> QED
      BY <2>2, <3>1, <3>3, LessIsFine DEF iks_filter_remove_rule
  <2>3. CASE iks_filter_remove_hook
    <3>1. PICK h \in Hooks : Becomes(WithoutHook(h))
      BY <2>3 DEF iks_filter_remove_hook
    <3>2. GoodList(WithoutHook(h)) /\ DOMAIN WithoutHook(h).heap \subseteq DOMAIN heap
      BY WithoutAHook DEF FilterInv
    <3> QED
      BY <2>3, <3>1, <3>2, LessIsFine DEF iks_filter_remove_hook
  <2>4. CASE Receive
    BY <2>4, ReceiveKeeps
  <2>5. CASE Eaten
    BY <2>5, EatenKeeps
  <2>6. CASE Nobody
    BY <2>6, NobodyKeeps
  <2>7. CASE Passed
    BY <2>7, PassedKeeps
  <2>8. CASE UNCHANGED filterVars
    <3>1. /\ heap' = heap /\ first' = first /\ last' = last /\ made' = made
          /\ pak' = pak /\ asked' = asked
      BY <2>8 DEF filterVars
    <3>2. FilterTypeOK' /\ ListSound'
      BY <3>1 DEF FilterInv, FilterTypeOK, ListSound, Node
    <3>3. Scores'
      BY <3>1 DEF FilterInv, Scores, Idle, Meets, Ahead, Node
    <3> QED
      BY <3>2, <3>3 DEF FilterInv
  <2> QED
    BY <2>1, <2>2, <2>3, <2>4, <2>5, <2>6, <2>7, <2>8 DEF FilterNext
<1> QED
  BY <1>1, FilterInvInit, PTL DEF FilterSpec

\* The ranges of the filter's variables.
THEOREM FilterTypes == FilterSpec => []FilterTypeOK
BY FilterHolds, PTL DEF FilterInv

\* After any calls of iks_filter_add_rule, iks_filter_remove_rule and
\* iks_filter_remove_hook the list has every node that is allocated once, in the
\* order they were added, forwards and backwards.
THEOREM ListsAreSound == FilterSpec => []ListSound
BY FilterHolds, PTL DEF FilterInv

\* Whatever rules there are and whatever packet comes, iks_filter_packet asks the
\* hooks of the rules it meets by their scores, each once, and gives up only
\* when all were asked.
THEOREM HooksAskedByScore == FilterSpec => []AskedByScore
<1>1. FilterInv => AskedByScore
  <2> SUFFICES ASSUME FilterInv, ~Idle
               PROVE  /\ \A i \in 1 .. Len(asked) : Meets(asked[i]) > 0
                      /\ \A i, j \in 1 .. Len(asked) : i < j => Ahead(asked[i], asked[j])
                      /\ MaxRule = Null => \A n \in DOMAIN heap :
                            Meets(n) > 0 => \E i \in 1 .. Len(asked) : asked[i] = n
    BY DEF AskedByScore, Meets, Ahead
  <2>1. MaxRule = Null => \A n \in DOMAIN heap : Node(n).score = 0
    <3>1. 0 \notin DOMAIN heap
      BY FilterIsGood DEF FilterInv
    <3>2. MaxRule = Null => MaxRule \notin DOMAIN heap
      BY <3>1 DEF Null
    <3> QED
      BY <3>2, MaxRuleIs DEF FilterInv
  <2>2. \A n \in DOMAIN heap : Meets(n) \in Nat
    BY ScoreType DEF Meets
  <2> HIDE DEF MaxRule
  <2>3. /\ \A i \in 1 .. Len(asked) : Meets(asked[i]) > 0
        /\ \A i, j \in 1 .. Len(asked) : i < j => Ahead(asked[i], asked[j])
        /\ \A n \in DOMAIN heap :
              \/ Node(n).score = 0 /\ \E i \in 1 .. Len(asked) : asked[i] = n
              \/ Node(n).score = Meets(n)
    BY DEF FilterInv, Scores
  <2>4. MaxRule = Null => \A n \in DOMAIN heap :
           Meets(n) > 0 => \E i \in 1 .. Len(asked) : asked[i] = n
    BY <2>1, <2>2, <2>3
  <2> QED
    BY <2>3, <2>4
<1> QED
  BY <1>1, FilterHolds, PTL

---------------------------------------------------------------------------
(* Sums.                                                                   *)

\* There is a function that adds numbers up.
LEMMA PartialSums ==
    ASSUME NEW s \in Seq(Nat), NEW n \in Nat
    PROVE  \E f : f = [i \in 0 .. n |-> IF i = 0 THEN 0 ELSE f[i - 1] + s[i]]
<1> DEFINE Rec(f, k) == f = [i \in 0 .. k |-> IF i = 0 THEN 0 ELSE f[i - 1] + s[i]]
<1> DEFINE Bad == {k \in Nat : ~\E f : Rec(f, k)}
<1>1. ASSUME Bad # {} PROVE FALSE
  <2>1. PICK k \in Bad : \A v \in Bad : v >= k
    BY <1>1, LeastNatural
  <2>2. k \in Nat /\ ~\E f : Rec(f, k)
    OBVIOUS
  <2>3. CASE k = 0
    <3>1. Rec([i \in 0 .. 0 |-> 0], 0)
      OBVIOUS
    <3> QED
      BY <2>2, <2>3, <3>1
  <2>4. CASE k # 0
    <3>1. k - 1 \in Nat /\ ~(k - 1 >= k)
      BY <2>2, <2>4
    <3>2. PICK f : Rec(f, k - 1)
      BY <2>1, <3>1
    <3> DEFINE g == [i \in 0 .. k |-> IF i = k THEN f[k - 1] + s[k] ELSE f[i]]
    <3>3. \A i \in 0 .. k - 1 : g[i] = f[i]
      BY <2>2
    <3>4. \A i \in 0 .. k - 1 : f[i] = IF i = 0 THEN 0 ELSE f[i - 1] + s[i]
      BY <3>2
    <3>5. ASSUME NEW i \in 0 .. k
          PROVE  g[i] = IF i = 0 THEN 0 ELSE g[i - 1] + s[i]
      <4>1. CASE i = k
        BY <2>2, <2>4, <3>3, <4>1
      <4>2. CASE i # k
        <5>1. i \in 0 .. k - 1 /\ (i # 0 => i - 1 \in 0 .. k - 1)
          BY <2>2, <4>2
        <5> QED
          BY <3>3, <3>4, <5>1
      <4> QED
        BY <4>1, <4>2
    <3>6. g = [i \in 0 .. k |-> g[i]]
      OBVIOUS
    <3> HIDE DEF g
    <3>7. Rec(g, k)
      BY <3>5, <3>6
    <3> QED
      BY <2>2, <3>7
  <2> QED
    BY <2>3, <2>4
<1> QED
  BY <1>1

\* Total is what the loop ends with.
LEMMA TotalIs ==
    ASSUME NEW s \in Seq(Nat)
    PROVE  \E f : /\ f[0] = 0 /\ \A i \in 1 .. Len(s) : f[i] = f[i - 1] + s[i]
                  /\ \A i \in 0 .. Len(s) : f[i] \in Nat
                  /\ Total(s) = f[Len(s)]
<1> DEFINE Rec(f) == f = [i \in 0 .. Len(s) |-> IF i = 0 THEN 0 ELSE f[i - 1] + s[i]]
<1> DEFINE g == CHOOSE f : Rec(f)
<1>0. Len(s) \in Nat
  OBVIOUS
<1>1. Rec(g)
  <2>1. \E f : Rec(f)
    BY <1>0, PartialSums
  <2> QED
    BY <2>1
<1>2. Total(s) = g[Len(s)]
  BY DEF Total
<1> HIDE DEF g
<1>3. g[0] = 0 /\ \A i \in 1 .. Len(s) : g[i] = g[i - 1] + s[i]
  BY <1>0, <1>1
<1> DEFINE Bad == {i \in Nat : i \in 0 .. Len(s) /\ ~(g[i] \in Nat)}
<1>4. ASSUME Bad # {} PROVE FALSE
  <2>1. PICK i \in Bad : \A j \in Bad : j >= i
    BY <1>4, LeastNatural
  <2>2. i \in 1 .. Len(s) /\ i - 1 \in 0 .. Len(s) /\ i - 1 \in Nat /\ ~(i - 1 >= i)
    BY <1>0, <1>3
  <2>3. g[i - 1] \in Nat /\ s[i] \in Nat
    BY <2>1, <2>2
  <2> QED
    BY <1>3, <2>2, <2>3
<1>5. \A i \in 0 .. Len(s) : g[i] \in Nat
  BY <1>4
<1> QED
  BY <1>2, <1>3, <1>5

\* Longer lists of larger numbers have larger sums, and equal ones equal sums.
LEMMA TotalGrows ==
    ASSUME NEW s \in Seq(Nat), NEW t \in Seq(Nat), Len(s) = Len(t),
           \A i \in 1 .. Len(s) : s[i] <= t[i]
    PROVE  Total(s) \in Nat /\ Total(t) \in Nat /\ Total(s) <= Total(t)
<1>1. PICK f : /\ f[0] = 0 /\ \A i \in 1 .. Len(s) : f[i] = f[i - 1] + s[i]
               /\ \A i \in 0 .. Len(s) : f[i] \in Nat
               /\ Total(s) = f[Len(s)]
  BY TotalIs
<1>2. PICK g : /\ g[0] = 0 /\ \A i \in 1 .. Len(s) : g[i] = g[i - 1] + t[i]
               /\ \A i \in 0 .. Len(s) : g[i] \in Nat
               /\ Total(t) = g[Len(s)]
  BY TotalIs
<1>3. Len(s) \in Nat
  OBVIOUS
<1> DEFINE Bad == {i \in Nat : i \in 0 .. Len(s) /\ ~(f[i] <= g[i])}
<1>4. ASSUME Bad # {} PROVE FALSE
  <2>1. PICK i \in Bad : \A j \in Bad : j >= i
    BY <1>4, LeastNatural
  <2>2. i \in 1 .. Len(s) /\ i - 1 \in 0 .. Len(s) /\ i - 1 \in Nat /\ ~(i - 1 >= i)
    BY <1>1, <1>2, <1>3
  <2>3. f[i - 1] <= g[i - 1]
    BY <2>1, <2>2
  <2>4. s[i] \in Nat /\ t[i] \in Nat /\ s[i] <= t[i] /\ f[i - 1] \in Nat /\ g[i - 1] \in Nat
    <3>1. s[i] \in Nat /\ t[i] \in Nat
      BY <2>2, ElementOfSeq
    <3>2. f[i - 1] \in Nat
      BY <1>1, <2>2
    <3>3. g[i - 1] \in Nat
      BY <1>2, <2>2
    <3> QED
      BY <2>2, <3>1, <3>2, <3>3
  <2>5. f[i] = f[i - 1] + s[i] /\ g[i] = g[i - 1] + t[i]
    BY <1>1, <1>2, <2>2
  <2>6. f[i] <= g[i]
    BY <2>3, <2>4, <2>5, SMTT(30)
  <2> QED
    BY <2>6
<1> QED
  BY <1>1, <1>2, <1>3, <1>4

\* A number more.
LEMMA TotalAppend ==
    ASSUME NEW s \in Seq(Nat), NEW x \in Nat
    PROVE  Total(Append(s, x)) = Total(s) + x
<1> DEFINE t == Append(s, x)
<1>1. /\ t \in Seq(Nat) /\ Len(t) = Len(s) + 1 /\ Len(s) \in Nat
      /\ \A i \in 1 .. Len(s) : t[i] = s[i]
      /\ t[Len(s) + 1] = x
  OBVIOUS
<1> HIDE DEF t
<1>2. PICK f : /\ f[0] = 0 /\ \A i \in 1 .. Len(s) : f[i] = f[i - 1] + s[i]
               /\ \A i \in 0 .. Len(s) : f[i] \in Nat
               /\ Total(s) = f[Len(s)]
  BY TotalIs
<1>3. PICK g : /\ g[0] = 0 /\ \A i \in 1 .. Len(t) : g[i] = g[i - 1] + t[i]
               /\ Total(t) = g[Len(t)]
  BY <1>1, TotalIs
<1> DEFINE Bad == {i \in Nat : i \in 0 .. Len(s) /\ f[i] # g[i]}
<1>4. ASSUME Bad # {} PROVE FALSE
  <2>1. PICK i \in Bad : \A j \in Bad : j >= i
    BY <1>4, LeastNatural
  <2>2. i \in 1 .. Len(s) /\ i - 1 \in 0 .. Len(s) /\ i - 1 \in Nat /\ ~(i - 1 >= i)
    BY <1>1, <1>2, <1>3
  <2>3. f[i - 1] = g[i - 1]
    BY <2>1, <2>2
  <2>4. i \in 1 .. Len(t) /\ t[i] = s[i]
    BY <1>1, <2>2
  <2> QED
    BY <1>2, <1>3, <2>2, <2>3, <2>4
<1>5. f[Len(s)] = g[Len(s)]
  BY <1>1, <1>4
<1>6. g[Len(s) + 1] = g[Len(s)] + x
  BY <1>1, <1>3
<1> QED
  BY <1>1, <1>2, <1>3, <1>5, <1>6 DEF t

\* The sum of nothing.
LEMMA TotalOfNone == Total(<<>>) = 0
<1>1. <<>> \in Seq(Nat) /\ Len(<<>>) = 0
  OBVIOUS
<1> QED
  BY <1>1, TotalIs

\* A function on 1 .. n is a sequence.
LEMMA IsASequence ==
    ASSUME NEW S, NEW n \in Nat, NEW f, f = [i \in 1 .. n |-> f[i]],
           \A i \in 1 .. n : f[i] \in S
    PROVE  f \in Seq(S) /\ Len(f) = n
OBVIOUS

---------------------------------------------------------------------------
(* Chains and the blocks in them.                                          *)

Names == {"meta", "data"}

Chunks == [size : Nat, used : Nat, last : Int, data : Seq(Int)]

Records == [chain : Names, at : Nat, from : Nat, bytes : Seq(Int)]

ChunkOK(c) == c \in Chunks /\ c.used <= c.size /\ Len(c.data) = c.size

\* A block lies in the used part of its chunk and has its bytes.
Lies(c, b) ==
    /\ b.bytes # <<>> /\ b.from + Len(b.bytes) <= c.used
    /\ \A i \in DOMAIN b.bytes : c.data[b.from + i] = b.bytes[i]

Apart(b, d) ==
    b.at = d.at => \/ b.from + Len(b.bytes) <= d.from
                   \/ d.from + Len(d.bytes) <= b.from

\* A chain and the blocks that are held of it.
ChainInv(chain, held) ==
    /\ chain \in Seq(Chunks) /\ chain # <<>>
    /\ \A i \in DOMAIN chain : ChunkOK(chain[i])
    /\ held \subseteq Records
    /\ \A b \in held : b.at \in DOMAIN chain /\ Lies(chain[b.at], b)
    /\ \A b, d \in held : b # d => Apart(b, d)

\* Structs are aligned, and so is the room behind them.
AlignedInv(chain, held) ==
    /\ \A i \in DOMAIN chain : chain[i].used % DEFAULT_ALIGNMENT = 0
    /\ \A b \in held : b.from % DEFAULT_ALIGNMENT = 0

\* Behind the last string of a chunk nothing is used.
LastInv(chain, held) ==
    \A b \in held : b.from = chain[b.at].last => b.from + Len(b.bytes) = chain[b.at].used

Taken(chain) == Total([i \in 1 .. Len(chain) |-> chain[i].size + SIZEOF_CHUNK])

Held(name) == {b \in blocks : b.chain = name}

StackInv ==
    /\ StackTypeOK
    /\ Open => /\ \A name \in Names : ChainInv(chains[name], Held(name))
               /\ AlignedInv(chains.meta, Held("meta"))
               /\ LastInv(chains.data, Held("data"))
               /\ allocated = SIZEOF_STACK + Taken(chains.meta) + Taken(chains.data)

\* find_space finds room, in the chain as it was or in a new chunk behind it.
LEMMA Found ==
    ASSUME NEW chain \in Seq(Chunks), chain # <<>>, \A i \in DOMAIN chain : ChunkOK(chain[i]),
           NEW size \in Nat
    PROVE  LET f == find_space(chain, size)
           IN  /\ \/ f.chain = chain
                  \/ \E n \in Nat : f.chain = Append(chain, Chunk(n)) /\ f.at = Len(chain) + 1
               /\ f.chain \in Seq(Chunks) /\ f.at \in DOMAIN f.chain
               /\ \A i \in DOMAIN f.chain : ChunkOK(f.chain[i])
               /\ DOMAIN chain \subseteq DOMAIN f.chain
               /\ \A i \in DOMAIN chain : f.chain[i] = chain[i]
               /\ f.chain[f.at].size - f.chain[f.at].used >= size
               /\ \A i \in DOMAIN f.chain : i \in DOMAIN chain \/ f.chain[i].used = 0
<1> DEFINE fits == {i \in DOMAIN chain : chain[i].size - chain[i].used >= size}
           n == AtLeast(size, 2 * Last(chain).size)
           f == find_space(chain, size)
<1>0. Len(chain) \in Nat \ {0} /\ DOMAIN chain = 1 .. Len(chain)
  BY EmptySeq
<1>1. CASE fits # {}
  <2>1. f = [chain |-> chain, at |-> Min(fits)]
    BY <1>1 DEF find_space
  <2>2. fits \in SUBSET Nat
    BY <1>0
  <2>3. PICK u \in fits : \A v \in fits : v >= u
    BY <1>1, <2>2, LeastNatural
  <2>4. \A v \in fits : u <= v
    BY <2>2, <2>3
  <2> HIDE DEF fits
  <2>5. Min(fits) \in fits
    BY <2>3, <2>4 DEF Min
  <2> QED
    BY <2>1, <2>5 DEF fits
<1>2. CASE fits = {}
  <2>1. f = [chain |-> Append(chain, Chunk(n)), at |-> Len(chain) + 1]
    BY <1>2 DEF find_space
  <2>2. Last(chain).size \in Nat
    <3>1. chain[Len(chain)] \in Chunks
      BY <1>0, ElementOfSeq
    <3> QED
      BY <3>1 DEF Last, Chunks
  <2>3. n \in Nat /\ n >= size
    BY <2>2 DEF AtLeast
  <2> HIDE DEF n, f
  <2>4. [i \in 1 .. n |-> Junk] \in Seq(Int) /\ Len([i \in 1 .. n |-> Junk]) = n
    BY <2>3 DEF Junk
  <2>5. ChunkOK(Chunk(n)) /\ Chunk(n).size = n /\ Chunk(n).used = 0
    BY <2>3, <2>4 DEF Chunk, ChunkOK, Chunks, NoLast
  <2> DEFINE c == Chunk(n)
  <2> HIDE DEF c
  <2>6. c \in Chunks /\ ChunkOK(c) /\ c.size = n /\ c.used = 0
    BY <2>5 DEF c, ChunkOK
  <2>7. /\ Append(chain, c) \in Seq(Chunks) /\ DOMAIN Append(chain, c) = 1 .. Len(chain) + 1
        /\ \A i \in 1 .. Len(chain) : Append(chain, c)[i] = chain[i]
        /\ Append(chain, c)[Len(chain) + 1] = c
    BY <1>0, <2>6
  <2>8. f.chain = Append(chain, c) /\ f.at = Len(chain) + 1
    BY <2>1 DEF c
  <2>9. \A i \in DOMAIN f.chain : i \in DOMAIN chain \/ f.chain[i] = c
    BY <1>0, <2>7, <2>8
  <2>10. f.chain \in Seq(Chunks) /\ f.at \in DOMAIN f.chain /\ f.chain[f.at] = c
         /\ DOMAIN chain \subseteq DOMAIN f.chain
         /\ \A i \in DOMAIN chain : f.chain[i] = chain[i]
    BY <1>0, <2>7, <2>8
  <2>11. n - 0 >= size
    BY <2>3
  <2>12. \E k \in Nat : f.chain = Append(chain, Chunk(k)) /\ f.at = Len(chain) + 1
    BY <2>1, <2>3
  <2> QED
    BY <2>6, <2>9, <2>10, <2>11, <2>12 DEF f
<1> QED
  BY <1>1, <1>2

\* A chunk after bytes were written behind what is used.
LEMMA Written ==
    ASSUME NEW chain \in Seq(Chunks), NEW at \in DOMAIN chain, ChunkOK(chain[at]),
           NEW bytes \in Seq(Int), NEW size \in Nat,
           Len(bytes) <= size, size <= chain[at].size - chain[at].used
    PROVE  LET c == chain[at]
               g == Cut(chain, at, bytes, size)
           IN  /\ g \in Seq(Chunks) /\ DOMAIN g = DOMAIN chain
               /\ \A i \in DOMAIN chain : i # at => g[i] = chain[i]
               /\ ChunkOK(g[at]) /\ g[at].used = c.used + size
               /\ g[at].size = c.size /\ g[at].last = c.last
               /\ \A i \in 1 .. c.used : g[at].data[i] = c.data[i]
               /\ \A i \in DOMAIN bytes : g[at].data[c.used + i] = bytes[i]
<1> DEFINE c == chain[at]
           d == [i \in 1 .. c.size |-> IF i - c.used \in DOMAIN bytes THEN bytes[i - c.used]
                                       ELSE c.data[i]]
           h == [c EXCEPT !.used = c.used + size, !.data = d]
           g == Cut(chain, at, bytes, size)
<1>1. c \in Chunks /\ c.used <= c.size /\ Len(c.data) = c.size /\ c.size \in Nat /\ c.used \in Nat
      /\ c.data \in Seq(Int)
  BY DEF ChunkOK, Chunks
<1>2. g = [chain EXCEPT ![at] = h]
  BY DEF Cut
<1>3. DOMAIN bytes = 1 .. Len(bytes) /\ Len(bytes) \in Nat /\ size <= c.size - c.used
  OBVIOUS
<1> HIDE DEF c
<1>4. \A i \in 1 .. c.size : d[i] \in Int
  <2>1. \A i \in 1 .. c.size : c.data[i] \in Int
    BY <1>1
  <2>2. \A i \in DOMAIN bytes : bytes[i] \in Int
    BY ElementOfSeq, <1>3
  <2> QED
    BY <2>1, <2>2
<1>5. d \in Seq(Int) /\ Len(d) = c.size
  <2>1. d = [i \in 1 .. c.size |-> d[i]]
    OBVIOUS
  <2> HIDE DEF d
  <2> QED
    BY <1>1, <1>4, <2>1, IsASequence
<1>6. \A i \in 1 .. c.used : d[i] = c.data[i]
  BY <1>1, <1>3, SMTT(30)
<1>7. ASSUME NEW i \in DOMAIN bytes PROVE d[c.used + i] = bytes[i]
  <2> DEFINE u == c.used
             z == c.size
  <2>0. i \in Nat /\ 1 <= i /\ i <= size /\ u \in Nat /\ z \in Nat /\ size <= z - u
    <3>1. i \in 1 .. Len(bytes)
      BY <1>3
    <3>2. u \in Nat /\ z \in Nat /\ size <= z - u
      BY <1>1, <1>3
    <3> HIDE DEF u, z
    <3> QED
      BY <1>3, <3>1, <3>2
  <2> HIDE DEF u, z
  <2>1. u + i \in 1 .. z /\ (u + i) - u = i
    BY <2>0
  <2> USE DEF u, z
  <2>2. \A p \in 1 .. c.size : p - c.used = i => d[p] = bytes[i]
    OBVIOUS
  <2> HIDE DEF d
  <2> QED
    BY <2>1, <2>2
<1> HIDE DEF d
<1>8. h.size = c.size /\ h.used = c.used + size /\ h.last = c.last /\ h.data = d /\ h \in Chunks
  <2> DEFINE k == [c EXCEPT !.used = c.used + size]
  <2>1. k.size = c.size /\ k.used = c.used + size /\ k.last = c.last /\ k \in Chunks
    <3>1. c.used + size \in Nat
      BY <1>1
    <3> DEFINE u == c.used + size
    <3> HIDE DEF u
    <3>2. u \in Nat /\ c \in [size : Nat, used : Nat, last : Int, data : Seq(Int)]
      BY <1>1, <3>1 DEF u, Chunks
    <3>3. k = [c EXCEPT !.used = u]
      BY DEF u
    <3> HIDE DEF k
    <3>4. k.size = c.size /\ k.used = u /\ k.last = c.last
      BY <3>2, <3>3
    <3>5. k \in [size : Nat, used : Nat, last : Int, data : Seq(Int)]
      BY <3>2, <3>3
    <3> QED
      BY <3>4, <3>5 DEF u, Chunks
  <2>2. h = [k EXCEPT !.data = d]
    OBVIOUS
  <2> HIDE DEF k, h
  <2> QED
    BY <1>5, <2>1, <2>2 DEF Chunks
<1>9. ChunkOK(h)
  BY <1>1, <1>3, <1>5, <1>8 DEF ChunkOK
<1> HIDE DEF h
<1>10. g \in Seq(Chunks) /\ DOMAIN g = DOMAIN chain /\ g[at] = h
       /\ \A i \in DOMAIN chain : i # at => g[i] = chain[i]
  BY <1>2, <1>8
<1> HIDE DEF g
<1> QED
  BY <1>6, <1>7, <1>8, <1>9, <1>10 DEF g, c

\* A chain stays sound, with the block that was written.
LEMMA BlockWritten ==
    ASSUME NEW chain, NEW held, ChainInv(chain, held), NEW name \in Names,
           NEW at \in DOMAIN chain, NEW bytes \in Seq(Int), bytes # <<>>, NEW size \in Nat,
           Len(bytes) <= size, size <= chain[at].size - chain[at].used
    PROVE  LET g == Cut(chain, at, bytes, size)
               b == Block(name, at, chain[at].used, bytes)
           IN  /\ ChainInv(g, held \union {b}) /\ b \notin held
               /\ \A d \in held : d.at = at => d.from + Len(d.bytes) <= chain[at].used
               /\ b \in Records
<1> DEFINE c == chain[at]
           g == Cut(chain, at, bytes, size)
           b == Block(name, at, c.used, bytes)
<1>1. /\ chain \in Seq(Chunks) /\ at \in Nat /\ DOMAIN chain = 1 .. Len(chain)
      /\ Len(chain) \in Nat
      /\ \A i \in DOMAIN chain : ChunkOK(chain[i])
      /\ held \subseteq Records
      /\ \A d \in held : d.at \in DOMAIN chain /\ Lies(chain[d.at], d)
      /\ \A d, e \in held : d # e => Apart(d, e)
  BY DEF ChainInv
<1>2. /\ g \in Seq(Chunks) /\ DOMAIN g = DOMAIN chain
      /\ \A i \in DOMAIN chain : i # at => g[i] = chain[i]
      /\ ChunkOK(g[at]) /\ g[at].used = c.used + size
      /\ \A i \in 1 .. c.used : g[at].data[i] = c.data[i]
      /\ \A i \in DOMAIN bytes : g[at].data[c.used + i] = bytes[i]
  BY <1>1, Written, SMTT(30)
<1>3. c.used \in Nat /\ Len(bytes) \in Nat \ {0} /\ DOMAIN bytes = 1 .. Len(bytes)
  BY <1>1, EmptySeq DEF ChunkOK, Chunks
<1>4. /\ b.chain = name /\ b.at = at /\ b.from = c.used /\ b.bytes = bytes /\ b \in Records
  BY <1>1, <1>3 DEF Block, Records
<1> HIDE DEF b, g, c
<1>5. ASSUME NEW d \in held
      PROVE  /\ d.from \in Nat /\ Len(d.bytes) \in Nat \ {0} /\ DOMAIN d.bytes = 1 .. Len(d.bytes)
             /\ d.at \in DOMAIN chain
             /\ d.at = at => d.from + Len(d.bytes) <= c.used
             /\ Lies(g[d.at], d)
  <2>1. d \in Records /\ Lies(chain[d.at], d) /\ d.at \in DOMAIN chain
    BY <1>1
  <2>2. d.from \in Nat /\ Len(d.bytes) \in Nat \ {0} /\ DOMAIN d.bytes = 1 .. Len(d.bytes)
    BY <2>1, EmptySeq DEF Records, Lies
  <2>3. CASE d.at = at
    <3>1. /\ d.from + Len(d.bytes) <= c.used
          /\ \A i \in DOMAIN d.bytes : c.data[d.from + i] = d.bytes[i]
          /\ d.bytes # <<>>
      BY <2>1, <2>3 DEF Lies, c
    <3>2. ASSUME NEW i \in DOMAIN d.bytes PROVE g[at].data[d.from + i] = d.bytes[i]
      <4>1. d.from + i \in 1 .. c.used
        BY <1>3, <2>2, <3>1, SMTT(30)
      <4> QED
        BY <1>2, <3>1, <4>1
    <3>3. d.from + Len(d.bytes) <= g[at].used
      BY <1>2, <1>3, <2>2, <3>1, SMTT(30)
    <3> QED
      BY <2>1, <2>2, <2>3, <3>1, <3>2, <3>3 DEF Lies
  <2>4. CASE d.at # at
    <3>1. g[d.at] = chain[d.at]
      BY <1>2, <2>1, <2>4
    <3> QED
      BY <2>1, <2>2, <2>4, <3>1
  <2> QED
    BY <2>3, <2>4
<1>6. Lies(g[at], b)
  BY <1>2, <1>3, <1>4 DEF Lies
<1>7. \A d \in held : Apart(d, b) /\ Apart(b, d) /\ d # b
  BY <1>3, <1>4, <1>5 DEF Apart
<1>8. \A d \in held \union {b} : d.at \in DOMAIN g /\ Lies(g[d.at], d)
  BY <1>1, <1>2, <1>4, <1>5, <1>6
<1>9. \A d, e \in held \union {b} : d # e => Apart(d, e)
  BY <1>1, <1>7
<1>10. \A i \in DOMAIN g : ChunkOK(g[i])
  BY <1>1, <1>2
<1>11. g # <<>>
  BY <1>1, <1>2
<1> QED
  BY <1>1, <1>2, <1>4, <1>5, <1>7, <1>8, <1>9, <1>10, <1>11 DEF ChainInv, b, g, c

\* A chain stays sound where find_space puts a new chunk behind it.
LEMMA FoundKeeps ==
    ASSUME NEW chain, NEW held, ChainInv(chain, held), NEW size \in Nat
    PROVE  ChainInv(find_space(chain, size).chain, held)
<1> DEFINE f == find_space(chain, size)
<1>1. /\ f.chain \in Seq(Chunks) /\ f.at \in DOMAIN f.chain
      /\ \A i \in DOMAIN f.chain : ChunkOK(f.chain[i])
      /\ DOMAIN chain \subseteq DOMAIN f.chain
      /\ \A i \in DOMAIN chain : f.chain[i] = chain[i]
  BY Found DEF ChainInv
<1> HIDE DEF f
<1>2. f.chain # <<>>
  BY <1>1
<1>3. \A b \in held : b.at \in DOMAIN f.chain /\ Lies(f.chain[b.at], b)
  BY <1>1 DEF ChainInv
<1> QED
  BY <1>1, <1>2, <1>3 DEF ChainInv, f

\* Fewer blocks are as sound.
LEMMA FewerBlocks ==
    ASSUME NEW chain, NEW held, ChainInv(chain, held), NEW some \in SUBSET held
    PROVE  ChainInv(chain, some)
BY DEF ChainInv

---------------------------------------------------------------------------
(* What the stack has allocated.                                           *)

\* What is taken by the chunks of a chain is a sum of numbers.
LEMMA TakenType ==
    ASSUME NEW chain \in Seq(Chunks)
    PROVE  /\ Taken(chain) \in Nat
           /\ [i \in 1 .. Len(chain) |-> chain[i].size + SIZEOF_CHUNK] \in Seq(Nat)
<1> DEFINE t == [i \in 1 .. Len(chain) |-> chain[i].size + SIZEOF_CHUNK]
<1>1. Len(chain) \in Nat /\ \A i \in 1 .. Len(chain) : chain[i] \in Chunks
  BY ElementOfSeq
<1>2. \A i \in 1 .. Len(chain) : t[i] \in Nat
  BY <1>1, SMTT(30) DEF Chunks, SIZEOF_CHUNK
<1>3. t = [i \in 1 .. Len(chain) |-> t[i]] /\ Taken(chain) = Total(t)
  BY DEF Taken
<1> HIDE DEF t
<1>4. t \in Seq(Nat)
  BY <1>1, <1>2, <1>3, IsASequence
<1>5. Total(t) \in Nat
  BY <1>4, TotalGrows
<1> QED
  BY <1>3, <1>4, <1>5 DEF t

\* A chunk more takes its size and its header.
LEMMA TakenAppend ==
    ASSUME NEW chain \in Seq(Chunks), NEW c \in Chunks
    PROVE  Taken(Append(chain, c)) = Taken(chain) + (SIZEOF_CHUNK + c.size)
<1> DEFINE t == [i \in 1 .. Len(chain) |-> chain[i].size + SIZEOF_CHUNK]
           n == Append(chain, c)
           u == [i \in 1 .. Len(n) |-> n[i].size + SIZEOF_CHUNK]
<1>1. t \in Seq(Nat) /\ Total(t) \in Nat /\ Taken(chain) = Total(t)
  BY TakenType DEF Taken
<1>2. Taken(n) = Total(u)
  BY DEF Taken
<1>3. c.size \in Nat /\ c.size + SIZEOF_CHUNK \in Nat
  BY DEF Chunks, SIZEOF_CHUNK
<1>4. /\ Len(n) = Len(chain) + 1 /\ Len(chain) \in Nat
      /\ \A i \in 1 .. Len(chain) : n[i] = chain[i]
      /\ n[Len(chain) + 1] = c
  OBVIOUS
<1>5. Len(t) = Len(chain) /\ DOMAIN t = 1 .. Len(chain)
      /\ \A i \in 1 .. Len(chain) : t[i] = chain[i].size + SIZEOF_CHUNK
  BY <1>4
<1> HIDE DEF t, n
<1>6. u = Append(t, c.size + SIZEOF_CHUNK)
  <2> DEFINE x == c.size + SIZEOF_CHUNK
             v == Append(t, x)
  <2>1. x \in Nat
    BY <1>3
  <2> HIDE DEF x
  <2>2. /\ v \in Seq(Nat) /\ Len(v) = Len(chain) + 1
        /\ \A i \in 1 .. Len(chain) : v[i] = t[i]
        /\ v[Len(chain) + 1] = x
    BY <1>1, <1>5, <2>1, AppendProperties
  <2> HIDE DEF v
  <2>3. DOMAIN u = 1 .. Len(chain) + 1 /\ DOMAIN v = 1 .. Len(chain) + 1
    BY <1>4, <2>2
  <2>4. ASSUME NEW i \in 1 .. Len(chain) + 1 PROVE u[i] = v[i]
    <3>1. CASE i \in 1 .. Len(chain)
      BY <1>4, <1>5, <2>2, <3>1
    <3>2. CASE i = Len(chain) + 1
      BY <1>4, <2>2, <3>2 DEF x
    <3> QED
      BY <1>4, <3>1, <3>2
  <2>5. u = [i \in 1 .. Len(chain) + 1 |-> u[i]] /\ v = [i \in 1 .. Len(chain) + 1 |-> v[i]]
    BY <2>2, <2>3
  <2> HIDE DEF u
  <2> QED
    BY <2>4, <2>5 DEF v, x
<1>7. Total(u) = Total(t) + (c.size + SIZEOF_CHUNK)
  BY <1>1, <1>3, <1>6, TotalAppend
<1> HIDE DEF u
<1>8. Taken(n) = Taken(chain) + (SIZEOF_CHUNK + c.size)
  BY <1>1, <1>2, <1>3, <1>7 DEF SIZEOF_CHUNK
<1> QED
  BY <1>8 DEF n

\* What a call adds to s->allocated.
LEMMA Charged ==
    ASSUME NEW chain \in Seq(Chunks), chain # <<>>, \A i \in DOMAIN chain : ChunkOK(chain[i]),
           NEW size \in Nat, NEW g \in Seq(Chunks), Len(g) = Len(find_space(chain, size).chain),
           \A i \in 1 .. Len(g) : g[i].size = find_space(chain, size).chain[i].size
    PROVE  Taken(g) = Taken(chain) + (IF Len(g) > Len(chain) THEN SIZEOF_CHUNK + Last(g).size
                                                             ELSE 0)
<1> DEFINE f == find_space(chain, size)
<1>1. /\ \/ f.chain = chain
         \/ \E n \in Nat : f.chain = Append(chain, Chunk(n)) /\ f.at = Len(chain) + 1
      /\ f.chain \in Seq(Chunks) /\ f.at \in DOMAIN f.chain
  BY Found
<1>2. Len(g) = Len(f.chain) /\ Len(g) \in Nat /\ Len(chain) \in Nat
      /\ \A i \in 1 .. Len(g) : g[i].size = f.chain[i].size
  OBVIOUS
<1> HIDE DEF f
<1>3. Taken(g) = Taken(f.chain)
  <2>1. [i \in 1 .. Len(g) |-> g[i].size + SIZEOF_CHUNK]
          = [i \in 1 .. Len(f.chain) |-> f.chain[i].size + SIZEOF_CHUNK]
    BY <1>2
  <2> QED
    BY <2>1 DEF Taken
<1>4. CASE f.chain = chain
  <2>1. Taken(chain) \in Nat
    BY TakenType
  <2>2. ~(Len(g) > Len(chain))
    BY <1>2, <1>4
  <2>3. Taken(g) = Taken(chain)
    BY <1>3, <1>4
  <2> QED
    BY <2>1, <2>2, <2>3
<1>5. ASSUME NEW n \in Nat, f.chain = Append(chain, Chunk(n)), f.at = Len(chain) + 1
      PROVE  Taken(g) = Taken(chain) + (IF Len(g) > Len(chain)
                                        THEN SIZEOF_CHUNK + Last(g).size ELSE 0)
  <2> DEFINE c == Chunk(n)
  <2> HIDE DEF c
  <2>1. f.chain = Append(chain, c)
    BY <1>5 DEF c
  <2>2. f.chain[Len(chain) + 1] = c /\ Len(f.chain) = Len(chain) + 1
    BY <1>2, <2>1
  <2>3. c \in Chunks
    BY <1>1, <1>5, <2>2, ElementOfSeq
  <2>4. Len(g) = Len(chain) + 1 /\ Last(g).size = c.size
    BY <1>2, <2>2 DEF Last
  <2>5. Taken(f.chain) = Taken(chain) + (SIZEOF_CHUNK + c.size)
    BY <2>1, <2>3, TakenAppend
  <2> QED
    BY <1>2, <1>3, <2>4, <2>5
<1> QED
  BY <1>1, <1>4, <1>5

---------------------------------------------------------------------------
(* The calls.                                                              *)

\* What the invariant says of a stack that is open.
LEMMA OpenStack ==
    ASSUME StackInv, Open, NEW name \in Names
    PROVE  /\ ChainInv(chains[name], Held(name)) /\ chains[name] \in Seq(Chunks)
           /\ chains[name] # <<>> /\ \A i \in DOMAIN chains[name] : ChunkOK(chains[name][i])
           /\ DOMAIN chains = Names /\ calls \in Nat
           /\ \A b \in blocks : b \in Records
<1>1. ChainInv(chains[name], Held(name))
  BY DEF StackInv
<1>2. DOMAIN chains = Names /\ calls \in Nat
  BY DEF StackInv, StackTypeOK, Names
<1>3. \A b \in blocks : b \in Records
  BY DEF StackInv, StackTypeOK, Names, Records
<1> QED
  BY <1>1, <1>2, <1>3 DEF ChainInv

\* A call on a chain that leaves it sound leaves the stack sound.
LEMMA CallKeeps ==
    ASSUME StackInv, Open, calls < MaxCalls, NEW name \in Names,
           NEW g, NEW gone \in SUBSET Held(name), NEW b \in Records, b.chain = name,
           Called(name, g, gone, b),
           ChainInv(g, (Held(name) \ gone) \union {b}),
           name = "meta" => AlignedInv(g, (Held(name) \ gone) \union {b}),
           name = "data" => LastInv(g, (Held(name) \ gone) \union {b}),
           Taken(g) = Taken(chains[name]) + (IF Len(g) > Len(chains[name])
                                             THEN SIZEOF_CHUNK + Last(g).size ELSE 0)
    PROVE  StackInv'
<1>1. /\ DOMAIN chains = Names /\ calls \in Nat /\ MaxCalls \in Nat
      /\ \A d \in blocks : d \in Records
      /\ \A k \in Names : ChainInv(chains[k], Held(k)) /\ chains[k] \in Seq(Chunks)
  BY OpenStack, StackAssumption DEF StackAssumption
<1>2. /\ chains' = [chains EXCEPT ![name] = g]
      /\ blocks' = (blocks \ gone) \union {b} /\ calls' = calls + 1
      /\ allocated' = allocated + (IF Len(g) > Len(chains[name])
                                   THEN SIZEOF_CHUNK + Last(g).size ELSE 0)
  BY DEF Called
<1>3. /\ DOMAIN chains' = Names /\ chains'[name] = g
      /\ \A k \in Names : k # name => chains'[k] = chains[k]
  BY <1>1, <1>2
<1>4. Held(name)' = (Held(name) \ gone) \union {b}
  BY <1>2 DEF Held
<1>5. \A k \in Names : k # name => Held(k)' = Held(k)
  BY <1>2 DEF Held
<1>6. \A k \in Names : ChainInv(chains'[k], Held(k)')
  <2>1. ASSUME NEW k \in Names PROVE ChainInv(chains'[k], Held(k)')
    <3>1. CASE k = name
      BY <1>3, <1>4, <3>1
    <3>2. CASE k # name
      BY <1>1, <1>3, <1>5, <3>2
    <3> QED
      BY <3>1, <3>2
  <2> QED
    BY <2>1
<1>7. AlignedInv(chains'["meta"], Held("meta")')
  <2>1. CASE name = "meta"
    BY <1>3, <1>4, <2>1
  <2>2. CASE name # "meta"
    <3>1. chains'["meta"] = chains["meta"] /\ Held("meta")' = Held("meta")
      BY <1>3, <1>5, <2>2 DEF Names
    <3> QED
      BY <3>1 DEF StackInv
  <2> QED
    BY <2>1, <2>2
<1>8. LastInv(chains'["data"], Held("data")')
  <2>1. CASE name = "data"
    BY <1>3, <1>4, <2>1
  <2>2. CASE name # "data"
    <3>1. chains'["data"] = chains["data"] /\ Held("data")' = Held("data")
      BY <1>3, <1>5, <2>2 DEF Names
    <3> QED
      BY <3>1 DEF StackInv
  <2> QED
    BY <2>1, <2>2
<1>9. /\ \A k \in Names : chains'[k] \in Seq(Chunks) /\ chains'[k] # <<>>
      /\ \A k \in Names : Taken(chains'[k]) \in Nat
  <2>1. \A k \in Names : chains'[k] \in Seq(Chunks) /\ chains'[k] # <<>>
    BY <1>6 DEF ChainInv
  <2> QED
    BY <2>1, TakenType
<1>10. allocated' = SIZEOF_STACK + Taken(chains'["meta"]) + Taken(chains'["data"])
  <2> DEFINE x == IF Len(g) > Len(chains[name]) THEN SIZEOF_CHUNK + Last(g).size ELSE 0
  <2>1. /\ Taken(chains["meta"]) \in Nat /\ Taken(chains["data"]) \in Nat
        /\ Taken(chains'["meta"]) \in Nat /\ Taken(chains'["data"]) \in Nat
    BY <1>1, <1>9, TakenType DEF Names
  <2>2. allocated = SIZEOF_STACK + Taken(chains["meta"]) + Taken(chains["data"])
    BY DEF StackInv
  <2>3. x \in Nat
    <3>1. g \in Seq(Chunks) /\ g # <<>>
      BY <1>6, <1>3 DEF ChainInv
    <3>2. Len(g) \in Nat \ {0} /\ g[Len(g)] \in Chunks
      BY <3>1, EmptySeq, ElementOfSeq
    <3>3. Last(g).size \in Nat
      BY <3>2 DEF Last, Chunks
    <3> QED
      BY <3>3 DEF SIZEOF_CHUNK
  <2>4. allocated' = allocated + x /\ Taken(g) = Taken(chains[name]) + x
    BY <1>2
  <2> HIDE DEF x
  <2>5. CASE name = "meta"
    <3>1. chains'["meta"] = g /\ chains'["data"] = chains["data"]
      BY <1>3, <2>5 DEF Names
    <3> QED
      BY <2>1, <2>2, <2>3, <2>4, <2>5, <3>1 DEF SIZEOF_STACK
  <2>6. CASE name = "data"
    <3>1. chains'["data"] = g /\ chains'["meta"] = chains["meta"]
      BY <1>3, <2>6 DEF Names
    <3> QED
      BY <2>1, <2>2, <2>3, <2>4, <2>6, <3>1 DEF SIZEOF_STACK
  <2> QED
    BY <2>5, <2>6 DEF Names
<1>11. Open'
  <2>1. DOMAIN chains' # {}
    BY <1>3 DEF Names
  <2> QED
    BY <2>1 DEF Open
<1>12. StackTypeOK'
  <2>1. calls' \in 0 .. MaxCalls
    BY <1>1, <1>2
  <2>2. allocated' \in Nat
    BY <1>9, <1>10 DEF Names, SIZEOF_STACK
  <2>3. blocks' \subseteq Records
    BY <1>1, <1>2
  <2>4. \A k \in {"meta", "data"} : chains'[k] # <<>> /\ chains'[k] \in Seq(Chunks)
    BY <1>9 DEF Names
  <2> QED
    BY <1>3, <1>11, <2>1, <2>2, <2>3, <2>4 DEF StackTypeOK, Names, Records, Chunks
<1> QED
  BY <1>6, <1>7, <1>8, <1>10, <1>11, <1>12 DEF StackInv

\* A size that was rounded up.
LEMMA AlignedIs ==
    ASSUME NEW x \in Nat
    PROVE  /\ Aligned(x) \in Nat /\ Aligned(x) >= x
           /\ Aligned(x) % DEFAULT_ALIGNMENT = 0
<1>1. CASE DEFAULT_ALIGNMENT = 2
  BY <1>1 DEF Aligned, ALIGN
<1>2. CASE DEFAULT_ALIGNMENT = 4
  BY <1>2 DEF Aligned, ALIGN
<1>3. CASE DEFAULT_ALIGNMENT = 8
  BY <1>3 DEF Aligned, ALIGN
<1> QED
  BY <1>1, <1>2, <1>3, StackAssumption DEF StackAssumption

\* What is aligned stays so when aligned sizes are added.
LEMMA AlignedSum ==
    ASSUME NEW x \in Nat, NEW y \in Nat,
           x % DEFAULT_ALIGNMENT = 0, y % DEFAULT_ALIGNMENT = 0
    PROVE  (x + y) % DEFAULT_ALIGNMENT = 0
<1>1. CASE DEFAULT_ALIGNMENT = 2
  BY <1>1
<1>2. CASE DEFAULT_ALIGNMENT = 4
  BY <1>2
<1>3. CASE DEFAULT_ALIGNMENT = 8
  BY <1>3
<1> QED
  BY <1>1, <1>2, <1>3, StackAssumption DEF StackAssumption

\* The bytes of a call.
LEMMA BytesType ==
    ASSUME calls \in Nat, NEW n \in Nat
    PROVE  Bytes(n) \in Seq(Int) /\ Len(Bytes(n)) = n
<1>1. \A i \in 1 .. n : Bytes(n)[i] \in Int
  BY DEF Bytes
<1>2. Bytes(n) = [i \in 1 .. n |-> Bytes(n)[i]]
  BY DEF Bytes
<1> QED
  BY <1>1, <1>2, IsASequence

\* A chain and a block after bytes were written where find_space found room.
NewChain(chain, size, bytes) ==
    Cut(find_space(chain, size).chain, find_space(chain, size).at, bytes, size)

NewBlock(name, chain, size, bytes) ==
    Block(name, find_space(chain, size).at,
          find_space(chain, size).chain[find_space(chain, size).at].used, bytes)

\* They are as sound as before, and what is new is behind what was used.
Behind(name, chain, held, size, bytes) ==
    LET at == find_space(chain, size).at
        g == NewChain(chain, size, bytes)
        b == NewBlock(name, chain, size, bytes)
    IN  /\ ChainInv(g, held \union {b}) /\ g \in Seq(Chunks) /\ at \in DOMAIN g
        /\ b \in Records /\ b.chain = name /\ b.at = at /\ b.bytes = bytes
        /\ \A i \in DOMAIN g : \/ i = at
                               \/ i \in DOMAIN chain /\ g[i] = chain[i]
                               \/ i \notin DOMAIN chain /\ g[i].used = 0
        /\ g[at].used = b.from + size
        /\ b.from = (IF at \in DOMAIN chain THEN chain[at].used ELSE 0)
        /\ \A d \in held : d.at = at => d.from + Len(d.bytes) <= b.from
        /\ Taken(g) = Taken(chain) + (IF Len(g) > Len(chain)
                                      THEN SIZEOF_CHUNK + Last(g).size ELSE 0)

\* find_space and Cut together.
LEMMA FoundAndWritten ==
    ASSUME NEW chain, NEW held, ChainInv(chain, held), NEW name \in Names,
           NEW size \in Nat, NEW bytes \in Seq(Int), bytes # <<>>, Len(bytes) <= size
    PROVE  Behind(name, chain, held, size, bytes)
<1> DEFINE f == find_space(chain, size)
           g == NewChain(chain, size, bytes)
           b == NewBlock(name, chain, size, bytes)
<1> DEFINE h == f.chain
           at == f.at
           from == h[at].used
<1>1. /\ chain \in Seq(Chunks) /\ chain # <<>> /\ \A i \in DOMAIN chain : ChunkOK(chain[i])
  BY DEF ChainInv
<1>2. /\ h \in Seq(Chunks) /\ at \in DOMAIN h
      /\ \A i \in DOMAIN h : ChunkOK(h[i])
      /\ \A i \in DOMAIN chain : h[i] = chain[i]
      /\ h[at].size - from >= size
      /\ \A i \in DOMAIN h : i \in DOMAIN chain \/ h[i].used = 0
  BY <1>1, Found
<1>3. ChainInv(h, held)
  BY <1>1, FoundKeeps
<1>4. g = Cut(h, at, bytes, size) /\ b = Block(name, at, h[at].used, bytes)
  BY DEF NewChain, NewBlock
<1>5. find_space(chain, size).chain = h /\ find_space(chain, size).at = at
  OBVIOUS
<1> HIDE DEF f, g, b, h, at
<1>6. h[at].size \in Nat /\ from \in Nat /\ size <= h[at].size - h[at].used
  BY <1>2 DEF ChunkOK, Chunks
<1>7. /\ ChainInv(g, held \union {b}) /\ b \in Records
      /\ \A d \in held : d.at = at => d.from + Len(d.bytes) <= h[at].used
  <2>1. at \in DOMAIN h /\ size <= h[at].size - h[at].used
    BY <1>2, <1>6
  <2> DEFINE k == Cut(h, at, bytes, size)
             c == Block(name, at, h[at].used, bytes)
  <2>2. /\ ChainInv(k, held \union {c}) /\ c \in Records
        /\ \A d \in held : d.at = at => d.from + Len(d.bytes) <= h[at].used
    BY <1>3, <2>1, BlockWritten
  <2> QED
    BY <1>4, <2>2
<1>8. /\ g \in Seq(Chunks) /\ DOMAIN g = DOMAIN h
      /\ \A i \in DOMAIN h : i # at => g[i] = h[i]
      /\ g[at].used = from + size /\ g[at].size = h[at].size
  BY <1>2, <1>4, <1>6, Written
<1>9. b.chain = name /\ b.at = at /\ b.from = from /\ b.bytes = bytes
  BY <1>4 DEF Block
<1>10. ASSUME NEW i \in DOMAIN g
       PROVE  \/ i = at
              \/ i \in DOMAIN chain /\ g[i] = chain[i]
              \/ i \notin DOMAIN chain /\ g[i].used = 0
  BY <1>2, <1>8
<1>11. from = IF at \in DOMAIN chain THEN chain[at].used ELSE 0
  BY <1>2
<1>12. Taken(g) = Taken(chain) + (IF Len(g) > Len(chain) THEN SIZEOF_CHUNK + Last(g).size
                                  ELSE 0)
  <2>1. Len(g) = Len(h) /\ \A i \in 1 .. Len(g) : g[i].size = h[i].size
    BY <1>2, <1>8, SMTT(30)
  <2>2. /\ Len(g) = Len(find_space(chain, size).chain)
        /\ \A i \in 1 .. Len(g) : g[i].size = find_space(chain, size).chain[i].size
    BY <1>5, <2>1
  <2>3. g \in Seq(Chunks)
    BY <1>8
  <2> QED
    BY <1>1, <2>2, <2>3, Charged
<1> HIDE DEF from
<1>13. at \in DOMAIN g
  BY <1>2, <1>8
<1>14. g[at].used = b.from + size /\ b.from = (IF at \in DOMAIN chain THEN chain[at].used ELSE 0)
       /\ \A d \in held : d.at = at => d.from + Len(d.bytes) <= b.from
  BY <1>7, <1>8, <1>9, <1>11 DEF from
<1> QED
  BY <1>5, <1>7, <1>8, <1>9, <1>10, <1>12, <1>13, <1>14 DEF g, b, Behind

\* A struct is cut from the chain meta.
LEMMA AllocKeeps ==
    ASSUME StackInv, Open, calls < MaxCalls, NEW n \in Nat, iks_stack_alloc(n)
    PROVE  StackInv'
<1> DEFINE size  == Aligned(AtLeast(MIN_ALLOC_SIZE, n))
           chain == chains["meta"]
           f     == find_space(chain, size)
           bytes == Bytes(size)
           g     == NewChain(chain, size, bytes)
           b     == NewBlock("meta", chain, size, bytes)
           held  == Held("meta")
<1>1. Called("meta", g, {}, b)
  BY DEF iks_stack_alloc, NewChain, NewBlock
<1>2. size \in Nat \ {0} /\ size % DEFAULT_ALIGNMENT = 0
  <2>1. AtLeast(MIN_ALLOC_SIZE, n) \in Nat \ {0}
    BY StackAssumption DEF AtLeast, MIN_ALLOC_SIZE, StackAssumption
  <2> QED
    BY <2>1, AlignedIs
<1>3. ChainInv(chain, held) /\ calls \in Nat /\ "meta" \in Names
  BY OpenStack DEF Names
<1>4. bytes \in Seq(Int) /\ Len(bytes) = size /\ bytes # <<>>
  <2> HIDE DEF size
  <2>1. bytes \in Seq(Int) /\ Len(bytes) = size
    BY <1>2, <1>3, BytesType
  <2> QED
    BY <1>2, <2>1, EmptySeq
<1> HIDE DEF size, chain, bytes, held
<1>5. size \in Nat /\ Len(bytes) <= size
  BY <1>2, <1>4
<1>6. /\ ChainInv(g, held \union {b}) /\ g \in Seq(Chunks) /\ f.at \in DOMAIN g
      /\ b \in Records /\ b.chain = "meta"
      /\ \A i \in DOMAIN g : \/ i = f.at
                             \/ i \in DOMAIN chain /\ g[i] = chain[i]
                             \/ i \notin DOMAIN chain /\ g[i].used = 0
      /\ g[f.at].used = b.from + size
      /\ b.from = (IF f.at \in DOMAIN chain THEN chain[f.at].used ELSE 0)
      /\ Taken(g) = Taken(chain) + (IF Len(g) > Len(chain)
                                    THEN SIZEOF_CHUNK + Last(g).size ELSE 0)
  <2>1. Behind("meta", chain, held, size, bytes)
    BY <1>3, <1>4, <1>5, FoundAndWritten
  <2> QED
    BY <2>1 DEF Behind
<1> HIDE DEF f, g, b
<1>7. AlignedInv(chain, held)
  BY DEF StackInv, chain, held
<1>8. 0 % DEFAULT_ALIGNMENT = 0
  BY StackAssumption DEF StackAssumption
<1>9. b.from \in Nat /\ b.from % DEFAULT_ALIGNMENT = 0
  BY <1>6, <1>7, <1>8 DEF AlignedInv, Records
<1>10. (b.from + size) % DEFAULT_ALIGNMENT = 0
  BY <1>2, <1>9, AlignedSum
<1>11. \A i \in DOMAIN g : g[i].used % DEFAULT_ALIGNMENT = 0
  BY <1>6, <1>7, <1>8, <1>10 DEF AlignedInv
<1>12. AlignedInv(g, held \union {b})
  BY <1>7, <1>9, <1>11 DEF AlignedInv
<1>13. (held \ {}) \union {b} = held \union {b} /\ {} \in SUBSET held
  OBVIOUS
<1> QED
  BY <1>1, <1>3, <1>6, <1>12, <1>13, CallKeeps DEF chain, held

\* A string at a new place, instead of the blocks gone.
LEMMA PlacedKeeps ==
    ASSUME StackInv, Open, calls < MaxCalls, NEW string \in Seq(Int),
           NEW gone \in SUBSET Held("data"), Placed(string, gone)
    PROVE  StackInv'
<1> DEFINE size  == Len(string) + 1
           chain == chains["data"]
           f     == find_space(chain, size)
           bytes == Append(string, End)
           g     == NewChain(chain, size, bytes)
           from  == f.chain[f.at].used
           b     == NewBlock("data", chain, size, bytes)
           held  == Held("data") \ gone
           h     == WithLast(g, f.at, from)
<1>0. Len(bytes) = size
  OBVIOUS
<1>1. Called("data", h, gone, b)
  BY <1>0 DEF Placed, NewChain, NewBlock
<1>2. /\ size \in Nat \ {0} /\ bytes \in Seq(Int) /\ Len(bytes) = size /\ bytes # <<>>
  BY EmptySeq DEF End
<1>3. ChainInv(chain, Held("data")) /\ "data" \in Names
  BY OpenStack DEF Names
<1>4. ChainInv(chain, held)
  BY <1>3, FewerBlocks
<1> HIDE DEF size, chain, bytes, held
<1>5. size \in Nat /\ Len(bytes) <= size
  BY <1>2
<1>6. b.from = from
  BY DEF NewBlock, Block
<1>7. h = [g EXCEPT ![f.at].last = from]
  BY DEF WithLast
<1>8. /\ ChainInv(g, held \union {b}) /\ g \in Seq(Chunks) /\ f.at \in DOMAIN g
      /\ b \in Records /\ b.chain = "data" /\ b.at = f.at /\ b.bytes = bytes
      /\ \A i \in DOMAIN g : \/ i = f.at
                             \/ i \in DOMAIN chain /\ g[i] = chain[i]
                             \/ i \notin DOMAIN chain /\ g[i].used = 0
      /\ g[f.at].used = b.from + size
      /\ \A d \in held : d.at = f.at => d.from + Len(d.bytes) <= b.from
      /\ Taken(g) = Taken(chain) + (IF Len(g) > Len(chain)
                                    THEN SIZEOF_CHUNK + Last(g).size ELSE 0)
  <2>1. Behind("data", chain, held, size, bytes)
    BY <1>2, <1>3, <1>4, <1>5, FoundAndWritten
  <2> QED
    BY <2>1 DEF Behind
<1> HIDE DEF f, g, b, from, h
<1>9. b.from \in Nat
  BY <1>8 DEF Records
<1> DEFINE c == [g[f.at] EXCEPT !.last = from]
<1>10. g[f.at] \in Chunks /\ ChunkOK(g[f.at])
  BY <1>8 DEF ChainInv, ChunkOK
<1>11. c \in Chunks /\ c.size = g[f.at].size /\ c.used = g[f.at].used /\ c.data = g[f.at].data
       /\ c.last = from
  <2> DEFINE r == g[f.at]
  <2>1. r \in [size : Nat, used : Nat, last : Int, data : Seq(Int)] /\ from \in Int
    BY <1>6, <1>9, <1>10 DEF Chunks
  <2>2. c = [r EXCEPT !.last = from]
    OBVIOUS
  <2> HIDE DEF r, c
  <2>3. c \in [size : Nat, used : Nat, last : Int, data : Seq(Int)]
    BY <2>1, <2>2
  <2>4. c.size = r.size /\ c.used = r.used /\ c.data = r.data /\ c.last = from
    BY <2>1, <2>2
  <2> QED
    BY <2>3, <2>4 DEF r, Chunks
<1>12. h = [g EXCEPT ![f.at] = c]
  BY <1>7
<1> HIDE DEF c
<1>13. /\ h \in Seq(Chunks) /\ DOMAIN h = DOMAIN g /\ Len(h) = Len(g) /\ h[f.at] = c
       /\ \A i \in DOMAIN g : i # f.at => h[i] = g[i]
  BY <1>8, <1>11, <1>12
<1>14. \A i \in DOMAIN g : /\ h[i].size = g[i].size /\ h[i].used = g[i].used
                           /\ h[i].data = g[i].data
  BY <1>11, <1>13
<1>15. ChainInv(h, held \union {b})
  <2>1. \A i \in DOMAIN h : ChunkOK(h[i])
    BY <1>8, <1>10, <1>11, <1>13 DEF ChainInv, ChunkOK
  <2>2. h # <<>>
    BY <1>8, <1>13
  <2>3. \A d \in held \union {b} : d.at \in DOMAIN g /\ Lies(g[d.at], d)
    BY <1>8 DEF ChainInv
  <2>4. \A d \in held \union {b} : d.at \in DOMAIN h /\ Lies(h[d.at], d)
    BY <1>13, <1>14, <2>3 DEF Lies
  <2>5. /\ held \union {b} \subseteq Records
        /\ \A d, e \in held \union {b} : d # e => Apart(d, e)
    BY <1>8 DEF ChainInv
  <2> QED
    BY <1>13, <2>1, <2>2, <2>4, <2>5 DEF ChainInv
<1>16. LastInv(chain, held)
  BY DEF StackInv, LastInv, held, chain
<1>17. LastInv(h, held \union {b})
  <2> SUFFICES ASSUME NEW d \in held \union {b}, d.from = h[d.at].last
               PROVE  d.from + Len(d.bytes) = h[d.at].used
    BY DEF LastInv
  <2>1. CASE d = b
    BY <1>2, <1>8, <1>11, <1>13, <2>1
  <2>2. CASE d \in held /\ d.at # f.at
    <3>1. d \in Records /\ d.at \in DOMAIN chain
      BY <1>4, <2>2 DEF ChainInv
    <3>2. d.at \in DOMAIN g
      BY <1>8, <2>2 DEF ChainInv
    <3>3. h[d.at] = chain[d.at]
      BY <1>8, <1>13, <2>2, <3>1, <3>2
    <3> QED
      BY <1>16, <2>2, <3>3 DEF LastInv
  <2>3. CASE d \in held /\ d.at = f.at
    <3>1. d \in Records /\ d.bytes # <<>>
      BY <1>4, <2>3 DEF ChainInv, Lies
    <3>2. d.from \in Nat /\ Len(d.bytes) \in Nat \ {0}
      BY <3>1, EmptySeq DEF Records
    <3>3. d.from + Len(d.bytes) <= b.from
      BY <1>8, <2>3
    <3>4. d.from = b.from
      BY <1>6, <1>11, <1>13, <2>3
    <3> QED
      BY <1>9, <3>2, <3>3, <3>4
  <2> QED
    BY <2>1, <2>2, <2>3
<1>18. Taken(h) = Taken(g) /\ Last(h).size = Last(g).size
  <2>1. [i \in 1 .. Len(h) |-> h[i].size + SIZEOF_CHUNK]
          = [i \in 1 .. Len(g) |-> g[i].size + SIZEOF_CHUNK]
    BY <1>8, <1>13, <1>14
  <2>2. Len(g) \in DOMAIN g
    BY <1>8
  <2> QED
    BY <1>13, <1>14, <2>1, <2>2 DEF Taken, Last
<1>19. Taken(h) = Taken(chain) + (IF Len(h) > Len(chain) THEN SIZEOF_CHUNK + Last(h).size
                                  ELSE 0)
  BY <1>8, <1>13, <1>18
<1>20. "data" # "meta"
  OBVIOUS
<1> QED
  BY <1>1, <1>3, <1>8, <1>15, <1>17, <1>19, <1>20, CallKeeps DEF chain, held

\* A chunk whose last string grew by n bytes where it is.
GrownData(c, bytes) ==
    [i \in 1 .. c.size |-> IF i - c.last \in DOMAIN bytes THEN bytes[i - c.last] ELSE c.data[i]]

GrownChunk(c, n, bytes) == [c EXCEPT !.used = c.used + n, !.data = GrownData(c, bytes)]

GrownChain(chain, old, n, bytes) ==
    [chain EXCEPT ![old.at] = GrownChunk(chain[old.at], n, bytes)]

\* Bytes up to the string stay, and the string is what it grew to.
Grew(c, k, n, bytes) ==
    /\ ChunkOK(k) /\ k.size = c.size /\ k.used = c.used + n /\ k.last = c.last
    /\ \A i \in 1 .. c.last : i <= c.size => k.data[i] = c.data[i]
    /\ \A i \in DOMAIN bytes : k.data[c.last + i] = bytes[i]

LEMMA GrownChunkIs ==
    ASSUME NEW c, ChunkOK(c), NEW n \in Nat, RoomFor(c, n), NEW bytes \in Seq(Int),
           c.last \in Nat, c.last + Len(bytes) <= c.size
    PROVE  Grew(c, GrownChunk(c, n, bytes), n, bytes)
<1> DEFINE k == GrownChunk(c, n, bytes)
           d == GrownData(c, bytes)
           u == c.used + n
<1>1. /\ c \in [size : Nat, used : Nat, last : Int, data : Seq(Int)]
      /\ c.size \in Nat /\ c.used \in Nat /\ c.data \in Seq(Int) /\ Len(c.data) = c.size
      /\ c.used + n <= c.size
  BY DEF ChunkOK, Chunks, RoomFor
<1>2. Len(bytes) \in Nat /\ DOMAIN bytes = 1 .. Len(bytes)
  OBVIOUS
<1>3. \A i \in 1 .. c.size : d[i] \in Int
  <2>1. ASSUME NEW i \in 1 .. c.size PROVE d[i] \in Int
    <3>1. d[i] = IF i - c.last \in DOMAIN bytes THEN bytes[i - c.last] ELSE c.data[i]
      BY DEF GrownData
    <3>2. i \in DOMAIN c.data
      BY <1>1
    <3>3. c.data[i] \in Int
      BY <1>1, <3>2, ElementOfSeq
    <3>4. \A j \in DOMAIN bytes : bytes[j] \in Int
      BY ElementOfSeq
    <3> QED
      BY <3>1, <3>3, <3>4
  <2> QED
    BY <2>1
<1>4. /\ \A i \in 1 .. c.last : i <= c.size => d[i] = c.data[i]
      /\ \A i \in DOMAIN bytes : d[c.last + i] = bytes[i]
  <2>1. ASSUME NEW i \in 1 .. c.last, i <= c.size PROVE d[i] = c.data[i]
    BY <1>1, <1>2, <2>1 DEF GrownData
  <2>2. ASSUME NEW i \in DOMAIN bytes PROVE d[c.last + i] = bytes[i]
    <3>1. c.last + i \in 1 .. c.size /\ (c.last + i) - c.last = i
      BY <1>1, <1>2, SMTT(30)
    <3> QED
      BY <3>1 DEF GrownData
  <2> QED
    BY <2>1, <2>2
<1>5. d = [i \in 1 .. c.size |-> d[i]]
  BY DEF GrownData
<1>6. k = [c EXCEPT !.used = u, !.data = d]
  BY DEF GrownChunk
<1>7. u \in Nat /\ u <= c.size
  BY <1>1
<1> HIDE DEF k, d, u
<1>8. d \in Seq(Int) /\ Len(d) = c.size
  BY <1>1, <1>3, <1>5, IsASequence
<1> DEFINE e == [c EXCEPT !.used = u]
<1>9. e \in [size : Nat, used : Nat, last : Int, data : Seq(Int)] /\ e.size = c.size /\ e.used = u
      /\ e.last = c.last
  BY <1>1, <1>7
<1>10. k = [e EXCEPT !.data = d]
  BY <1>1, <1>6
<1> HIDE DEF e
<1>11. k \in [size : Nat, used : Nat, last : Int, data : Seq(Int)] /\ k.size = c.size /\ k.used = u
       /\ k.last = c.last /\ k.data = d
  BY <1>8, <1>9, <1>10
<1>12. ChunkOK(k)
  BY <1>7, <1>8, <1>11 DEF ChunkOK, Chunks
<1> QED
  BY <1>4, <1>11, <1>12 DEF k, u, Grew

\* A chain stays sound where the last string of a chunk grew.
Grows(chain, held, old, n, bytes) ==
    LET g == GrownChain(chain, old, n, bytes)
        b == Block("data", old.at, old.from, bytes)
    IN  /\ ChainInv(g, (held \ {old}) \union {b}) /\ LastInv(g, (held \ {old}) \union {b})
        /\ b \in Records /\ b.chain = "data"
        /\ Taken(g) = Taken(chain) /\ Taken(chain) \in Nat /\ Len(g) = Len(chain)

\* The other blocks lie before the string, and it is still the last one.
LEMMA GrownInPlace ==
    ASSUME NEW chain, NEW held, ChainInv(chain, held), LastInv(chain, held),
           NEW old \in held, chain[old.at].last = old.from, NEW n \in Nat,
           RoomFor(chain[old.at], n), NEW bytes \in Seq(Int), Len(bytes) = Len(old.bytes) + n
    PROVE  Grows(chain, held, old, n, bytes)
<1> DEFINE g == GrownChain(chain, old, n, bytes)
           at == old.at
           b == Block("data", old.at, old.from, bytes)
           c == chain[at]
           k == GrownChunk(c, n, bytes)
           rest == held \ {old}
<1>1. /\ chain \in Seq(Chunks) /\ chain # <<>> /\ Len(chain) \in Nat
      /\ DOMAIN chain = 1 .. Len(chain)
      /\ \A i \in DOMAIN chain : ChunkOK(chain[i])
      /\ held \subseteq Records
      /\ \A d \in held : d.at \in DOMAIN chain /\ Lies(chain[d.at], d)
      /\ \A d, e \in held : d # e => Apart(d, e)
  BY DEF ChainInv
<1>2. /\ at \in DOMAIN chain /\ at \in Nat /\ old.from \in Nat /\ old.bytes \in Seq(Int)
      /\ Len(old.bytes) \in Nat \ {0} /\ old.from + Len(old.bytes) = c.used
  <2>1. old \in Records /\ Lies(c, old) /\ at \in DOMAIN chain
    BY <1>1
  <2>2. old.bytes # <<>> /\ old.bytes \in Seq(Int) /\ old.from \in Nat /\ old.at \in Nat
    BY <2>1 DEF Lies, Records
  <2>3. Len(old.bytes) \in Nat \ {0}
    BY <2>2, EmptySeq
  <2> QED
    BY <2>1, <2>2, <2>3 DEF LastInv
<1>3. /\ ChunkOK(c) /\ c \in Chunks /\ c.size \in Nat /\ c.used \in Nat /\ c.used + n <= c.size
      /\ c.last = old.from
  <2>1. ChunkOK(c)
    BY <1>1, <1>2
  <2> QED
    BY <2>1 DEF ChunkOK, Chunks, RoomFor
<1>4. /\ c.last \in Nat /\ c.last + Len(bytes) = c.used + n /\ c.last + Len(bytes) <= c.size
      /\ Len(bytes) \in Nat \ {0} /\ DOMAIN bytes = 1 .. Len(bytes)
  <2> DEFINE l == Len(old.bytes)
             m == Len(bytes)
  <2>1. l \in Nat \ {0} /\ m = l + n /\ old.from + l = c.used
    BY <1>2
  <2>2. DOMAIN bytes = 1 .. m
    OBVIOUS
  <2> HIDE DEF c, l, m
  <2> DEFINE o == old.from
             u == c.used
  <2>3. o \in Nat /\ u \in Nat /\ c.last = o /\ o + l = u
    BY <1>2, <1>3, <2>1
  <2> HIDE DEF o, u
  <2>4. m \in Nat \ {0} /\ o + m = u + n
    BY <2>1, <2>3
  <2>5. c.last + m = c.used + n /\ m \in Nat \ {0}
    BY <2>3, <2>4 DEF u
  <2> QED
    BY <1>2, <1>3, <2>2, <2>5 DEF m
<1>5. RoomFor(c, n)
  OBVIOUS
<1>6. g = [chain EXCEPT ![at] = k]
  BY DEF GrownChain
<1>7. b.chain = "data" /\ b.at = at /\ b.from = old.from /\ b.bytes = bytes /\ b \in Records
  BY <1>2 DEF Block, Records, Names
<1> HIDE DEF c
<1>8. /\ ChunkOK(k) /\ k.size = c.size /\ k.used = c.used + n /\ k.last = c.last
      /\ \A i \in 1 .. c.last : i <= c.size => k.data[i] = c.data[i]
      /\ \A i \in DOMAIN bytes : k.data[c.last + i] = bytes[i]
  <2>1. ChunkOK(c) /\ c.last \in Nat /\ c.last + Len(bytes) <= c.size /\ RoomFor(c, n)
    BY <1>3, <1>4, <1>5
  <2> QED
    <3>1. Grew(c, k, n, bytes)
      BY <2>1, GrownChunkIs
    <3> HIDE DEF k
    <3> QED
      BY <3>1 DEF Grew
<1> HIDE DEF k, g, b, at
<1>9. k \in Chunks
  BY <1>8 DEF ChunkOK
<1>10. /\ g \in Seq(Chunks) /\ DOMAIN g = DOMAIN chain /\ Len(g) = Len(chain) /\ g[at] = k
       /\ \A i \in DOMAIN chain : i # at => g[i] = chain[i]
  BY <1>1, <1>2, <1>6, <1>9
<1>11. ASSUME NEW d \in rest
       PROVE  /\ d \in Records /\ d.from \in Nat /\ Len(d.bytes) \in Nat \ {0}
              /\ DOMAIN d.bytes = 1 .. Len(d.bytes)
              /\ d.at \in DOMAIN chain
              /\ d.at = at => d.from + Len(d.bytes) <= old.from
              /\ Lies(g[d.at], d)
  <2>1. d \in Records /\ Lies(chain[d.at], d) /\ d.at \in DOMAIN chain /\ Apart(d, old)
    BY <1>1
  <2>2. d.from \in Nat /\ Len(d.bytes) \in Nat \ {0} /\ DOMAIN d.bytes = 1 .. Len(d.bytes)
    BY <2>1, EmptySeq DEF Records, Lies
  <2>3. CASE d.at = at
    <3>1. /\ d.from + Len(d.bytes) <= c.used
          /\ \A i \in DOMAIN d.bytes : c.data[d.from + i] = d.bytes[i]
          /\ d.bytes # <<>>
      BY <2>1, <2>3 DEF Lies, c
    <3>2. \/ d.from + Len(d.bytes) <= old.from
          \/ old.from + Len(old.bytes) <= d.from
      BY <2>1, <2>3 DEF Apart, at
    <3>3. d.from + Len(d.bytes) <= old.from
      <4> DEFINE l == Len(d.bytes)
                 m == Len(old.bytes)
      <4>1. /\ l \in Nat \ {0} /\ m \in Nat \ {0} /\ d.from \in Nat /\ old.from \in Nat
            /\ old.from + m = c.used /\ d.from + l <= c.used
            /\ d.from + l <= old.from \/ old.from + m <= d.from
        BY <1>2, <2>2, <3>1, <3>2
      <4> HIDE DEF l, m
      <4>2. d.from + l <= old.from
        BY <4>1
      <4> QED
        BY <4>2 DEF l
    <3>4. ASSUME NEW i \in DOMAIN d.bytes PROVE k.data[d.from + i] = d.bytes[i]
      <4>1. d.from + i \in 1 .. c.last /\ d.from + i <= c.size
        <5> DEFINE l == Len(d.bytes)
        <5>1. l \in Nat /\ i \in 1 .. l /\ d.from + l <= old.from /\ d.from \in Nat
          BY <2>2, <3>3
        <5>2. old.from = c.last /\ c.last <= c.size /\ c.last \in Nat /\ c.size \in Nat
          BY <1>3, <1>4
        <5> HIDE DEF l
        <5> QED
          BY <5>1, <5>2
      <4> QED
        BY <1>8, <3>1, <4>1
    <3>5. d.from + Len(d.bytes) <= k.used
      BY <1>3, <1>8, <2>2, <3>1
    <3> QED
      BY <1>10, <2>1, <2>2, <2>3, <3>1, <3>3, <3>4, <3>5 DEF Lies
  <2>4. CASE d.at # at
    <3>1. g[d.at] = chain[d.at]
      BY <1>10, <2>1, <2>4
    <3> QED
      BY <2>1, <2>2, <2>4, <3>1
  <2> QED
    BY <2>3, <2>4
<1>12. Lies(g[at], b)
  <2>1. bytes # <<>>
    <3>1. Len(<<>>) = 0
      OBVIOUS
    <3> QED
      BY <1>4, <3>1
  <2>2. b.from + Len(b.bytes) <= k.used
    <3>1. b.from = c.last /\ b.bytes = bytes
      BY <1>3, <1>7
    <3>2. c.used + n \in Nat
      BY <1>3
    <3>3. b.from + Len(b.bytes) = c.used + n /\ k.used = c.used + n
      BY <1>4, <1>8, <3>1
    <3> QED
      BY <3>2, <3>3
  <2>3. \A i \in DOMAIN b.bytes : k.data[b.from + i] = b.bytes[i]
    BY <1>3, <1>7, <1>8
  <2> QED
    BY <1>7, <1>10, <2>1, <2>2, <2>3 DEF Lies
<1> HIDE DEF rest
<1>13. \A d \in rest : Apart(d, b) /\ Apart(b, d)
  BY <1>7, <1>11 DEF Apart
<1>14. ChainInv(g, rest \union {b})
  <2>1. \A i \in DOMAIN g : ChunkOK(g[i])
    BY <1>1, <1>8, <1>10
  <2>2. g # <<>>
    BY <1>2, <1>10
  <2>3. rest \union {b} \subseteq Records
    BY <1>7, <1>11
  <2>4. \A d \in rest \union {b} : d.at \in DOMAIN g /\ Lies(g[d.at], d)
    BY <1>2, <1>7, <1>10, <1>11, <1>12
  <2>5. \A d, e \in rest \union {b} : d # e => Apart(d, e)
    BY <1>1, <1>13 DEF rest
  <2> QED
    BY <1>10, <2>1, <2>2, <2>3, <2>4, <2>5 DEF ChainInv
<1>15. LastInv(g, rest \union {b})
  <2> SUFFICES ASSUME NEW d \in rest \union {b}, d.from = g[d.at].last
               PROVE  d.from + Len(d.bytes) = g[d.at].used
    BY DEF LastInv
  <2>1. CASE d = b
    BY <1>3, <1>4, <1>7, <1>8, <1>10, <2>1
  <2>2. CASE d \in rest /\ d.at = at
    <3> DEFINE l == Len(d.bytes)
    <3>1. d.from + l <= old.from /\ d.from \in Nat /\ l \in Nat \ {0} /\ old.from \in Nat
      BY <1>2, <1>11, <2>2
    <3>2. d.from = old.from
      BY <1>3, <1>8, <1>10, <2>2
    <3> HIDE DEF l
    <3> QED
      BY <3>1, <3>2
  <2>3. CASE d \in rest /\ d.at # at
    <3>1. g[d.at] = chain[d.at] /\ d \in held
      BY <1>10, <1>11, <2>3 DEF rest
    <3> QED
      BY <2>3, <3>1 DEF LastInv
  <2> QED
    BY <2>1, <2>2, <2>3
<1>16. Taken(g) = Taken(chain)
  <2>1. \A i \in 1 .. Len(g) : g[i].size = chain[i].size
    BY <1>1, <1>8, <1>10 DEF c
  <2>2. [i \in 1 .. Len(g) |-> g[i].size + SIZEOF_CHUNK]
          = [i \in 1 .. Len(chain) |-> chain[i].size + SIZEOF_CHUNK]
    BY <1>10, <2>1
  <2> QED
    BY <2>2 DEF Taken
<1>17. Taken(chain) \in Nat
  BY <1>1, TakenType
<1> QED
  BY <1>7, <1>10, <1>14, <1>15, <1>16, <1>17 DEF Grows, g, b, rest

\* A string without its end, with what was appended to it.
LEMMA Longer ==
    ASSUME NEW old \in Seq(Int), old # <<>>, NEW more \in Seq(Int)
    PROVE  /\ Front(old) \o more \in Seq(Int)
           /\ Len(Append(Front(old) \o more, End)) = Len(old) + Len(more)
           /\ Append(Front(old) \o more, End) \in Seq(Int)
<1>1. Len(old) \in Nat \ {0}
  BY EmptySeq
<1>2. Front(old) = SubSeq(old, 1, Len(old) - 1)
  BY DEF Front
<1>3. SubSeq(old, 1, Len(old) - 1) \in Seq(Int)
      /\ Len(SubSeq(old, 1, Len(old) - 1)) = Len(old) - 1
  <2> DEFINE n == Len(old) - 1
  <2>1. n \in Nat /\ \A i \in 1 .. n : old[i] \in Int
    <3>1. \A i \in 1 .. Len(old) : old[i] \in Int
      BY ElementOfSeq
    <3> QED
      BY <1>1, <3>1
  <2> HIDE DEF n
  <2>2. /\ SubSeq(old, 1, n) \in Seq(Int)
        /\ Len(SubSeq(old, 1, n)) = IF 1 <= n THEN n - 1 + 1 ELSE 0
    BY <2>1, SubSeqProperties
  <2>3. Len(SubSeq(old, 1, n)) = n
    BY <2>1, <2>2
  <2> QED
    BY <2>2, <2>3 DEF n
<1> DEFINE f == Front(old)
<1>4. f \in Seq(Int) /\ Len(f) = Len(old) - 1
  BY <1>2, <1>3
<1> HIDE DEF f
<1> DEFINE s == f \o more
<1>5. s \in Seq(Int) /\ Len(s) = Len(old) - 1 + Len(more)
  BY <1>4, ConcatProperties
<1> HIDE DEF s
<1>6. Append(s, End) \in Seq(Int) /\ Len(Append(s, End)) = Len(s) + 1
  BY <1>5, AppendProperties DEF End
<1>7. Len(more) \in Nat
  OBVIOUS
<1>8. Len(Append(s, End)) = Len(old) + Len(more)
  BY <1>1, <1>5, <1>6, <1>7
<1> QED
  BY <1>5, <1>6, <1>8 DEF f, s

\* A string grows, in its place or at a new one.
LEMMA StrcatKeeps ==
    ASSUME StackInv, Open, calls < MaxCalls, NEW old \in blocks,
           old.chain = "data", NEW n \in Nat, iks_stack_strcat(old, n)
    PROVE  StackInv'
<1> DEFINE chain  == chains["data"]
           held   == Held("data")
           c      == chain[old.at]
           string == Front(old.bytes) \o Bytes(n)
           bytes  == Append(string, End)
           g      == GrownChain(chain, old, n, bytes)
           b      == Block("data", old.at, old.from, bytes)
<1>1. IF c.last = old.from /\ RoomFor(c, n) THEN Called("data", g, {old}, b)
                                            ELSE Placed(string, {old})
  BY DEF iks_stack_strcat, GrownChain, GrownChunk, GrownData
<1>2. ChainInv(chain, held) /\ calls \in Nat /\ "data" \in Names
  BY OpenStack DEF Names
<1>3. old \in held /\ {old} \in SUBSET held
  BY DEF Held
<1>4. old.bytes \in Seq(Int) /\ old.bytes # <<>>
  BY <1>2, <1>3 DEF ChainInv, Records, Lies
<1>5. Bytes(n) \in Seq(Int) /\ Len(Bytes(n)) = n
  BY <1>2, BytesType
<1>6. string \in Seq(Int) /\ bytes \in Seq(Int) /\ Len(bytes) = Len(old.bytes) + n
  <2> DEFINE more == Bytes(n)
             was  == old.bytes
  <2>1. more \in Seq(Int) /\ Len(more) = n /\ was \in Seq(Int) /\ was # <<>>
    BY <1>4, <1>5
  <2> HIDE DEF more, was
  <2>2. /\ Front(was) \o more \in Seq(Int)
        /\ Len(Append(Front(was) \o more, End)) = Len(was) + Len(more)
        /\ Append(Front(was) \o more, End) \in Seq(Int)
    BY <2>1, Longer
  <2> QED
    BY <2>1, <2>2 DEF more, was
<1>7. CASE c.last = old.from /\ RoomFor(c, n)
  <2>1. LastInv(chain, held)
    BY DEF StackInv
  <2>2. Called("data", g, {old}, b)
    BY <1>1, <1>7
  <2>3. c.last = old.from /\ RoomFor(chain[old.at], n)
    BY <1>7
  <2> HIDE DEF bytes, string, held, chain
  <2>4. chain[old.at].last = old.from /\ bytes \in Seq(Int) /\ Len(bytes) = Len(old.bytes) + n
    BY <1>6, <2>3
  <2>5. Grows(chain, held, old, n, bytes)
    BY <1>2, <1>3, <2>1, <2>3, <2>4, GrownInPlace
  <2>6. /\ ChainInv(g, (held \ {old}) \union {b}) /\ LastInv(g, (held \ {old}) \union {b})
        /\ b \in Records /\ b.chain = "data"
        /\ Taken(g) = Taken(chain) /\ Taken(chain) \in Nat /\ Len(g) = Len(chain)
    BY <2>5 DEF Grows
  <2>7. chain \in Seq(Chunks)
    BY <1>2 DEF ChainInv
  <2> HIDE DEF g, b
  <2>8. Taken(g) = Taken(chain) + (IF Len(g) > Len(chain) THEN SIZEOF_CHUNK + Last(g).size
                                   ELSE 0)
    BY <2>6, <2>7
  <2>9. "data" # "meta"
    OBVIOUS
  <2> QED
    BY <1>2, <1>3, <2>2, <2>6, <2>8, <2>9, CallKeeps DEF chain, held
<1>8. CASE ~(c.last = old.from /\ RoomFor(c, n))
  <2>1. Placed(string, {old})
    BY <1>1, <1>8
  <2> HIDE DEF string
  <2> QED
    BY <1>3, <1>6, <2>1, PlacedKeeps DEF held
<1> QED
  BY <1>7, <1>8

\* A copy of a string.
LEMMA StrdupKeeps ==
    ASSUME StackInv, Open, calls < MaxCalls, NEW n \in Nat, iks_stack_strdup(n)
    PROVE  StackInv'
<1>1. calls \in Nat
  BY StackAssumption DEF StackInv, StackTypeOK, StackAssumption
<1>2. Bytes(n) \in Seq(Int)
  BY <1>1, BytesType
<1>3. Placed(Bytes(n), {}) /\ {} \in SUBSET Held("data")
  BY DEF iks_stack_strdup
<1> DEFINE string == Bytes(n)
<1> HIDE DEF string
<1>4. string \in Seq(Int) /\ Placed(string, {})
  BY <1>2, <1>3 DEF string
<1> QED
  BY <1>3, <1>4, PlacedKeeps

\* A chain of one chunk that nothing was cut from.
LEMMA FreshChain ==
    ASSUME NEW n \in Nat
    PROVE  /\ ChainInv(<<Chunk(n)>>, {}) /\ <<Chunk(n)>> \in Seq(Chunks) /\ <<Chunk(n)>> # <<>>
           /\ \A i \in DOMAIN <<Chunk(n)>> : <<Chunk(n)>>[i].used = 0
           /\ Taken(<<Chunk(n)>>) = n + SIZEOF_CHUNK
<1> DEFINE c == Chunk(n)
<1>1. [i \in 1 .. n |-> Junk] \in Seq(Int) /\ Len([i \in 1 .. n |-> Junk]) = n
  BY DEF Junk
<1>2. ChunkOK(c) /\ c.size = n /\ c.used = 0
  BY <1>1 DEF Chunk, ChunkOK, Chunks, NoLast
<1> HIDE DEF c
<1>3. c \in Chunks
  BY <1>2 DEF ChunkOK
<1> DEFINE one == <<c>>
<1>4. one \in Seq(Chunks) /\ DOMAIN one = {1} /\ one[1] = c /\ one # <<>> /\ one = Append(<<>>, c)
  BY <1>3
<1>5. <<>> \in Seq(Chunks) /\ Len(<<>>) = 0
  OBVIOUS
<1>6. Taken(<<>>) = 0
  <2>1. [i \in 1 .. Len(<<>>) |-> <<>>[i].size + SIZEOF_CHUNK] = <<>>
    OBVIOUS
  <2> QED
    BY <2>1, TotalOfNone DEF Taken
<1>7. Taken(Append(<<>>, c)) = Taken(<<>>) + (SIZEOF_CHUNK + c.size)
  BY <1>3, <1>5, TakenAppend
<1> HIDE DEF one
<1>8. Taken(one) = n + SIZEOF_CHUNK
  BY <1>2, <1>4, <1>6, <1>7 DEF SIZEOF_CHUNK
<1>9. ChainInv(one, {})
  BY <1>2, <1>4 DEF ChainInv
<1> QED
  BY <1>2, <1>4, <1>8, <1>9 DEF one, c

\* A stack of two chunks.
LEMMA NewKeeps ==
    ASSUME StackInv, iks_stack_new
    PROVE  StackInv'
<1>1. PICK m \in ChunkSizes, d \in ChunkSizes :
          LET meta == Aligned(AtLeast(MIN_CHUNK_SIZE, m))
              data == Aligned(AtLeast(MIN_CHUNK_SIZE, d))
          IN  /\ chains' = [meta |-> <<Chunk(meta)>>, data |-> <<Chunk(data)>>]
              /\ allocated' = SIZEOF_STACK + meta + data + 2 * SIZEOF_CHUNK
  BY DEF iks_stack_new
<1> DEFINE meta == Aligned(AtLeast(MIN_CHUNK_SIZE, m))
           data == Aligned(AtLeast(MIN_CHUNK_SIZE, d))
<1>2. meta \in Nat /\ data \in Nat
  <2>1. /\ AtLeast(MIN_CHUNK_SIZE, m) \in Nat /\ AtLeast(MIN_CHUNK_SIZE, d) \in Nat
    BY StackAssumption DEF AtLeast, MIN_CHUNK_SIZE, StackAssumption
  <2> QED
    BY <2>1, AlignedIs
<1>3. /\ chains' = [meta |-> <<Chunk(meta)>>, data |-> <<Chunk(data)>>]
      /\ allocated' = SIZEOF_STACK + meta + data + 2 * SIZEOF_CHUNK
      /\ calls' = 0 /\ blocks' = {}
  BY <1>1 DEF iks_stack_new
<1> HIDE DEF meta, data
<1> DEFINE p == <<Chunk(meta)>>
           q == <<Chunk(data)>>
<1>4. /\ ChainInv(p, {}) /\ p \in Seq(Chunks) /\ p # <<>>
      /\ \A i \in DOMAIN p : p[i].used = 0
      /\ Taken(p) = meta + SIZEOF_CHUNK
  BY <1>2, FreshChain
<1>5. /\ ChainInv(q, {}) /\ q \in Seq(Chunks) /\ q # <<>>
      /\ Taken(q) = data + SIZEOF_CHUNK
  BY <1>2, FreshChain
<1>6. chains'["meta"] = p /\ chains'["data"] = q /\ DOMAIN chains' = {"meta", "data"}
  BY <1>3
<1> HIDE DEF p, q
<1>7. \A name \in Names : Held(name)' = {}
  BY <1>3 DEF Held
<1>8. \A name \in Names : ChainInv(chains'[name], Held(name)')
  BY <1>4, <1>5, <1>6, <1>7 DEF Names
<1>9. AlignedInv(chains'["meta"], Held("meta")') /\ LastInv(chains'["data"], Held("data")')
  <2>1. 0 % DEFAULT_ALIGNMENT = 0
    BY StackAssumption DEF StackAssumption
  <2> QED
    BY <1>4, <1>6, <1>7, <2>1 DEF AlignedInv, LastInv, Names
<1>10. allocated' = SIZEOF_STACK + Taken(chains'["meta"]) + Taken(chains'["data"])
       /\ allocated' \in Nat
  BY <1>2, <1>3, <1>4, <1>5, <1>6, SMTT(30) DEF SIZEOF_STACK, SIZEOF_CHUNK
<1>11. Open'
  BY <1>6 DEF Open
<1>12. StackTypeOK'
  <2>1. \A k \in {"meta", "data"} : chains'[k] # <<>> /\ chains'[k] \in Seq(Chunks)
    BY <1>4, <1>5, <1>6
  <2>2. calls' \in 0 .. MaxCalls
    BY <1>3, StackAssumption DEF StackAssumption
  <2> QED
    BY <1>3, <1>6, <1>10, <1>11, <2>1, <2>2 DEF StackTypeOK, Chunks
<1> QED
  BY <1>8, <1>9, <1>10, <1>12 DEF StackInv

---------------------------------------------------------------------------
(* The invariant, and what it says.                                        *)

\* Before the first stack, and after one is deleted.
LEMMA NothingOpen ==
    ASSUME chains = <<>>, allocated = 0, calls = 0, blocks = {}
    PROVE  StackInv
<1>1. ~Open
  BY DEF Open
<1> QED
  BY <1>1, StackAssumption DEF StackInv, StackTypeOK, StackAssumption

\* Every call.
LEMMA StackStep ==
    ASSUME StackInv, [StackNext]_stackVars
    PROVE  StackInv'
<1>1. CASE iks_stack_new
  BY <1>1, NewKeeps
<1>2. CASE Call
  <2>1. Open /\ calls < MaxCalls /\ Sizes \subseteq Nat /\ Lengths \subseteq Nat
    BY <1>2, StackAssumption DEF Call, StackAssumption
  <2>2. ASSUME NEW n \in Sizes, iks_stack_alloc(n) PROVE StackInv'
    BY <2>1, <2>2, AllocKeeps
  <2>3. ASSUME NEW n \in Lengths, iks_stack_strdup(n) PROVE StackInv'
    BY <2>1, <2>3, StrdupKeeps
  <2>4. ASSUME NEW b \in blocks, NEW n \in Lengths, b.chain = "data", iks_stack_strcat(b, n)
        PROVE  StackInv'
    BY <2>1, <2>4, StrcatKeeps
  <2> QED
    BY <1>2, <2>2, <2>3, <2>4 DEF Call
<1>3. CASE iks_stack_delete
  <2>1. chains' = <<>> /\ allocated' = 0 /\ calls' = 0 /\ blocks' = {}
    BY <1>3 DEF iks_stack_delete
  <2>2. ~Open'
    BY <2>1 DEF Open
  <2> QED
    BY <2>1, <2>2, StackAssumption DEF StackInv, StackTypeOK, StackAssumption
<1>4. CASE UNCHANGED stackVars
  BY <1>4 DEF stackVars, StackInv, StackTypeOK, Open, Held
<1> QED
  BY <1>1, <1>2, <1>3, <1>4 DEF StackNext

\* The bytes that iks_stack_stat finds used in a chain are fewer than it takes.
LEMMA UsedIsTaken ==
    ASSUME NEW chain \in Seq(Chunks), \A i \in DOMAIN chain : ChunkOK(chain[i])
    PROVE  /\ Total([i \in DOMAIN chain |-> chain[i].used]) \in Nat
           /\ Total([i \in DOMAIN chain |-> chain[i].used]) <= Taken(chain)
<1> DEFINE u == [i \in DOMAIN chain |-> chain[i].used]
           t == [i \in 1 .. Len(chain) |-> chain[i].size + SIZEOF_CHUNK]
<1>1. Len(chain) \in Nat /\ DOMAIN chain = 1 .. Len(chain)
  OBVIOUS
<1>2. \A i \in 1 .. Len(chain) : u[i] \in Nat /\ t[i] \in Nat /\ u[i] <= t[i]
  <2>1. ASSUME NEW i \in 1 .. Len(chain) PROVE u[i] \in Nat /\ t[i] \in Nat /\ u[i] <= t[i]
    <3>1. u[i] = chain[i].used /\ t[i] = chain[i].size + 20
      BY <1>1 DEF SIZEOF_CHUNK
    <3>2. chain[i].used \in Nat /\ chain[i].size \in Nat /\ chain[i].used <= chain[i].size
      BY <1>1 DEF ChunkOK, Chunks
    <3> HIDE DEF u, t
    <3> QED
      BY <3>1, <3>2
  <2> QED
    BY <2>1
<1>3. u = [i \in 1 .. Len(chain) |-> u[i]] /\ t = [i \in 1 .. Len(chain) |-> t[i]]
      /\ Taken(chain) = Total(t)
  BY <1>1 DEF Taken
<1> HIDE DEF u, t
<1>4. u \in Seq(Nat) /\ Len(u) = Len(chain) /\ t \in Seq(Nat) /\ Len(t) = Len(chain)
  BY <1>1, <1>2, <1>3, IsASequence
<1>5. Total(u) \in Nat /\ Total(t) \in Nat /\ Total(u) <= Total(t)
  BY <1>2, <1>4, TotalGrows
<1> QED
  BY <1>3, <1>5 DEF u

\* What callers see of the invariant.
LEMMA StackInvMeans ==
    ASSUME StackInv
    PROVE  BlocksKeepTheirBytes
<1> SUFFICES ASSUME Open
             PROVE  /\ \A name \in {"meta", "data"} : \A i \in DOMAIN chains[name] :
                          chains[name][i].used <= chains[name][i].size
                    /\ \A b \in blocks :
                          LET c == chains[b.chain][b.at]
                          IN  b.from + Len(b.bytes) <= c.used
                              /\ \A i \in DOMAIN b.bytes : c.data[b.from + i] = b.bytes[i]
                    /\ \A b \in blocks : b.chain = "meta" => b.from % DEFAULT_ALIGNMENT = 0
                    /\ iks_stack_stat.used <= iks_stack_stat.allocated
  BY DEF BlocksKeepTheirBytes
<1>1. \A name \in Names : ChainInv(chains[name], Held(name))
  BY DEF StackInv
<1>2. ASSUME NEW name \in Names, NEW i \in DOMAIN chains[name]
      PROVE  chains[name][i].used <= chains[name][i].size
  BY <1>1 DEF ChainInv, ChunkOK
<1>3. ASSUME NEW b \in blocks
      PROVE  /\ b.from + Len(b.bytes) <= chains[b.chain][b.at].used
             /\ \A i \in DOMAIN b.bytes : chains[b.chain][b.at].data[b.from + i] = b.bytes[i]
             /\ b.chain = "meta" => b.from % DEFAULT_ALIGNMENT = 0
  <2>1. b.chain \in Names
    BY DEF StackInv, StackTypeOK, Names
  <2>2. b \in Held(b.chain)
    BY DEF Held
  <2>3. Lies(chains[b.chain][b.at], b)
    BY <1>1, <2>1, <2>2 DEF ChainInv
  <2>4. b.chain = "meta" => b.from % DEFAULT_ALIGNMENT = 0
    BY <2>2 DEF StackInv, AlignedInv
  <2> QED
    BY <2>3, <2>4 DEF Lies
<1>4. iks_stack_stat.used <= iks_stack_stat.allocated
  <2> DEFINE m == chains["meta"]
             d == chains["data"]
             um == Total([i \in DOMAIN m |-> m[i].used])
             ud == Total([i \in DOMAIN d |-> d[i].used])
  <2>1. iks_stack_stat.used = um + ud /\ iks_stack_stat.allocated = allocated
    BY DEF iks_stack_stat
  <2>2. allocated = SIZEOF_STACK + Taken(m) + Taken(d)
    BY DEF StackInv
  <2>3. /\ m \in Seq(Chunks) /\ \A i \in DOMAIN m : ChunkOK(m[i])
        /\ d \in Seq(Chunks) /\ \A i \in DOMAIN d : ChunkOK(d[i])
    BY <1>1 DEF ChainInv, Names
  <2> HIDE DEF m, d
  <2>4. um \in Nat /\ um <= Taken(m) /\ ud \in Nat /\ ud <= Taken(d)
    BY <2>3, UsedIsTaken
  <2>5. Taken(m) \in Nat /\ Taken(d) \in Nat
    BY <2>3, TakenType
  <2> HIDE DEF um, ud
  <2> QED
    BY <2>1, <2>2, <2>4, <2>5 DEF SIZEOF_STACK
<1> QED
  BY <1>2, <1>3, <1>4 DEF Names

\* However the stack is used, its chunks, what is held of them and what was
\* allocated for them fit together.
THEOREM StackHolds == StackSpec => []StackInv
<1>1. StackInit => StackInv
  BY NothingOpen DEF StackInit
<1>2. StackInv /\ [StackNext]_stackVars => StackInv'
  BY StackStep
<1> QED
  BY <1>1, <1>2, PTL DEF StackSpec

\* Every block that iks_stack_alloc, iks_stack_strdup or iks_stack_strcat gave
\* out keeps its bytes and its place until the stack is deleted, and the stack
\* never counts more bytes as used than it has allocated (ikstack.c).
THEOREM BlocksKept == StackSpec => []BlocksKeepTheirBytes
<1>1. StackInv => BlocksKeepTheirBytes
  BY StackInvMeans
<1> QED
  BY <1>1, StackHolds, PTL
====
