--------------------------- MODULE TriggersProofs ---------------------------
(* Triggers for every descriptor and every clock: civil_date is the        *)
(* calendar on every day, and no instant is served twice, by polling again *)
(* or by catching up.                                                      *)
(*                                                                         *)
(* The first part is arithmetic. Every division by a constant is given by  *)
(* the two inequalities that define it (Division); what is left is linear. *)
EXTENDS Triggers, NaturalsInduction, WellFoundedInduction, TLAPS

(* ------------------------------ the years ------------------------------ *)

\* A division by a positive number, and its rest.
LEMMA Division ==
  ASSUME NEW a \in Int, NEW b \in Nat, b > 0
  PROVE  a \div b \in Int /\ b * (a \div b) <= a /\ a < b * (a \div b) + b
         /\ a % b = a - b * (a \div b)
OBVIOUS

\* Years begin in March here, as civil_date counts them, so that the leap day
\* is the last of its year. The day of the era on which year y begins:
YearStart(y) == 365 * y + y \div 4 - y \div 100

YearOf(doe) == (doe - doe \div 1460 + doe \div 36524 - doe \div 146096) \div 365

\* The year that civil_date computes is the one the day is in.
LEMMA YearOfDay ==
  ASSUME NEW doe \in Int, 0 <= doe, doe <= 146096, NEW y, y = YearOf(doe)
  PROVE  /\ y \in Int /\ 0 <= y /\ y <= 399
         /\ YearStart(y) <= doe
         /\ y < 399 => doe < YearStart(y + 1)
         /\ y = 399 => doe <= 145731 + 365
<1> DEFINE a == doe \div 1460
           b == doe \div 36524
           e == doe \div 146096
           q == y \div 4
           r == y \div 100
           u == (y + 1) \div 4
           v == (y + 1) \div 100
<1>1. a \in Int /\ 1460 * a <= doe /\ doe < 1460 * a + 1460
  BY Division
<1>2. b \in Int /\ 36524 * b <= doe /\ doe < 36524 * b + 36524
  BY Division
<1>3. e \in Int /\ 146096 * e <= doe /\ doe < 146096 * e + 146096
  BY Division
<1>4. y = (doe - a + b - e) \div 365
  BY DEF YearOf
<1> HIDE DEF a, b, e
<1>5. y \in Int /\ 365 * y <= doe - a + b - e /\ doe - a + b - e < 365 * y + 365
  BY <1>1, <1>2, <1>3, <1>4, Division
<1>6. /\ q \in Int /\ 4 * q <= y /\ y < 4 * q + 4
      /\ r \in Int /\ 100 * r <= y /\ y < 100 * r + 100
  BY <1>5, Division
<1>7. /\ u \in Int /\ 4 * u <= y + 1 /\ y + 1 < 4 * u + 4
      /\ v \in Int /\ 100 * v <= y + 1 /\ y + 1 < 100 * v + 100
  BY <1>5, Division
<1>8. YearStart(y) = 365 * y + q - r /\ YearStart(y + 1) = 365 * (y + 1) + u - v
  BY DEF YearStart
<1> HIDE DEF q, r, u, v
<1>9. 0 <= y /\ y <= 399
  BY <1>1, <1>2, <1>3, <1>5, SMT
<1>10. 365 * y + q - r <= doe
  BY <1>1, <1>2, <1>3, <1>5, <1>6, <1>9, SMT
<1>11. y < 399 => doe < 365 * (y + 1) + u - v
  BY <1>1, <1>2, <1>3, <1>5, <1>7, <1>9, SMT
<1>12. y = 399 => doe <= 145731 + 365
  BY <1>9, SMT
<1> QED BY <1>5, <1>8, <1>9, <1>10, <1>11, <1>12, SMT

\* From one day to the next the year stays, or the next one begins.
LEMMA NextYearLinear ==
  ASSUME NEW doe \in Int, 0 <= doe, doe < 146096,
         NEW y \in Int, 0 <= y, y <= 399,
         NEW q \in Int, 4 * q <= y, y < 4 * q + 4,
         NEW r \in Int, 100 * r <= y, y < 100 * r + 100,
         NEW u \in Int, 4 * u <= y + 1, y + 1 < 4 * u + 4,
         NEW v \in Int, 100 * v <= y + 1, y + 1 < 100 * v + 100,
         365 * y + q - r <= doe, y < 399 => doe < 365 * (y + 1) + u - v,
         y = 399 => doe <= 145731 + 365,
         NEW z \in Int, 0 <= z, z <= 399,
         NEW q2 \in Int, 4 * q2 <= z, z < 4 * q2 + 4,
         NEW r2 \in Int, 100 * r2 <= z, z < 100 * r2 + 100,
         NEW u2 \in Int, 4 * u2 <= z + 1, z + 1 < 4 * u2 + 4,
         NEW v2 \in Int, 100 * v2 <= z + 1, z + 1 < 100 * v2 + 100,
         365 * z + q2 - r2 <= doe + 1, z < 399 => doe + 1 < 365 * (z + 1) + u2 - v2
  PROVE  LET doy == doe - (365 * y + q - r)
             leap == 4 * u = y + 1 /\ (100 * v # y + 1 \/ y = 399)
         IN  \/ /\ z = y /\ q2 = q /\ r2 = r
                /\ doy < 364 \/ (doy = 364 /\ leap)
             \/ /\ z = y + 1 /\ doe + 1 = 365 * z + q2 - r2
                /\ doy = IF leap THEN 365 ELSE 364
<1>1. z = y \/ z = y + 1
  OBVIOUS
<1>2. CASE z = y
  BY <1>2
<1>3. CASE z = y + 1
  BY <1>3
<1> QED BY <1>1, <1>2, <1>3

\* Whether the year that begins in March of year y of era e ends with a leap
\* day: the one of the year after.
LeapEnd(y, e) == Leap(y + 1 + e * 400)

\* That is so when the year after is a multiple of 4, and not of 100 unless it
\* is the last of its era.
LEMMA LeapLinear ==
  ASSUME NEW y \in Int, 0 <= y, y <= 399, NEW e \in Int
  PROVE  LeapEnd(y, e) <=> (4 * ((y + 1) \div 4) = y + 1 /\ (100 * ((y + 1) \div 100) # y + 1 \/ y = 399))
<1> DEFINE w == y + 1
           n == w + e * 400
<1>1. w \in Int /\ n \in Int /\ 1 <= w /\ w <= 400
  OBVIOUS
<1>2. /\ w \div 4 \in Int /\ 4 * (w \div 4) <= w /\ w < 4 * (w \div 4) + 4
      /\ w \div 100 \in Int /\ 100 * (w \div 100) <= w /\ w < 100 * (w \div 100) + 100
  BY <1>1, Division
<1>3. /\ n \div 4 \in Int /\ 4 * (n \div 4) <= n /\ n < 4 * (n \div 4) + 4 /\ n % 4 = n - 4 * (n \div 4)
      /\ n \div 100 \in Int /\ 100 * (n \div 100) <= n /\ n < 100 * (n \div 100) + 100
      /\ n % 100 = n - 100 * (n \div 100)
      /\ n \div 400 \in Int /\ 400 * (n \div 400) <= n /\ n < 400 * (n \div 400) + 400
      /\ n % 400 = n - 400 * (n \div 400)
  BY <1>1, Division
<1> DEFINE w4 == w \div 4
           w100 == w \div 100
           n4 == n \div 4
           n100 == n \div 100
           n400 == n \div 400
<1>4. /\ w4 \in Int /\ 4 * w4 <= w /\ w < 4 * w4 + 4
      /\ w100 \in Int /\ 100 * w100 <= w /\ w < 100 * w100 + 100
      /\ n4 \in Int /\ 4 * n4 <= n /\ n < 4 * n4 + 4 /\ n % 4 = n - 4 * n4
      /\ n100 \in Int /\ 100 * n100 <= n /\ n < 100 * n100 + 100 /\ n % 100 = n - 100 * n100
      /\ n400 \in Int /\ 400 * n400 <= n /\ n < 400 * n400 + 400 /\ n % 400 = n - 400 * n400
  BY <1>2, <1>3
<1>5. n = w + 400 * e
  OBVIOUS
<1>6. LeapEnd(y, e) <=> (n % 4 = 0 /\ (n % 100 # 0 \/ n % 400 = 0))
  BY DEF LeapEnd, Leap
<1> HIDE DEF w4, w100, n4, n100, n400, n
<1>7. /\ n % 4 = 0 <=> 4 * w4 = w
      /\ n % 100 = 0 <=> 100 * w100 = w
      /\ n % 400 = 0 <=> w = 400
  <2>1. n4 = w4 + 100 * e
    BY <1>1, <1>4, <1>5
  <2>2. n100 = w100 + 4 * e
    BY <1>1, <1>4, <1>5
  <2>3. n400 = e \/ n400 = e + 1
    BY <1>1, <1>4, <1>5
  <2> QED BY <1>1, <1>4, <1>5, <2>1, <2>2, <2>3
<1>8. w = 400 <=> y = 399
  OBVIOUS
<1> QED BY <1>6, <1>7, <1>8 DEF w4, w100

\* The day after day doy of year y: it has the next place in its year, or is
\* the first of the next one, after a leap day if there is one.
YearStep(e, y, doy, z, next) ==
  /\ y \in Int /\ z \in Int /\ doy \in Int /\ 0 <= doy
  /\ \/ /\ z = y /\ next = doy + 1
        /\ doy < 364 \/ (doy = 364 /\ LeapEnd(y, e))
     \/ /\ z = y + 1 /\ next = 0
        /\ doy = IF LeapEnd(y, e) THEN 365 ELSE 364

\* One day later civil_date computes the next place in the year.
LEMMA NextDayOfYear ==
  ASSUME NEW doe \in Int, 0 <= doe, doe < 146096, NEW e \in Int,
         NEW y, y = YearOf(doe), NEW z, z = YearOf(doe + 1)
  PROVE  YearStep(e, y, doe - YearStart(y), z, (doe + 1) - YearStart(z))
<1> DEFINE q == y \div 4
           r == y \div 100
           u == (y + 1) \div 4
           v == (y + 1) \div 100
           q2 == z \div 4
           r2 == z \div 100
           u2 == (z + 1) \div 4
           v2 == (z + 1) \div 100
<1>1. /\ y \in Int /\ 0 <= y /\ y <= 399
      /\ YearStart(y) <= doe
      /\ y < 399 => doe < YearStart(y + 1)
      /\ y = 399 => doe <= 145731 + 365
  BY YearOfDay
<1>2. /\ z \in Int /\ 0 <= z /\ z <= 399
      /\ YearStart(z) <= doe + 1
      /\ z < 399 => doe + 1 < YearStart(z + 1)
  <2>1. doe + 1 \in Int /\ 0 <= doe + 1 /\ doe + 1 <= 146096
    OBVIOUS
  <2> QED BY <2>1, YearOfDay
<1>3. /\ q \in Int /\ 4 * q <= y /\ y < 4 * q + 4
      /\ r \in Int /\ 100 * r <= y /\ y < 100 * r + 100
      /\ u \in Int /\ 4 * u <= y + 1 /\ y + 1 < 4 * u + 4
      /\ v \in Int /\ 100 * v <= y + 1 /\ y + 1 < 100 * v + 100
  BY <1>1, Division
<1>4. /\ q2 \in Int /\ 4 * q2 <= z /\ z < 4 * q2 + 4
      /\ r2 \in Int /\ 100 * r2 <= z /\ z < 100 * r2 + 100
      /\ u2 \in Int /\ 4 * u2 <= z + 1 /\ z + 1 < 4 * u2 + 4
      /\ v2 \in Int /\ 100 * v2 <= z + 1 /\ z + 1 < 100 * v2 + 100
  BY <1>2, Division
<1>5. /\ YearStart(y) = 365 * y + q - r /\ YearStart(y + 1) = 365 * (y + 1) + u - v
      /\ YearStart(z) = 365 * z + q2 - r2 /\ YearStart(z + 1) = 365 * (z + 1) + u2 - v2
  BY DEF YearStart
<1>6. LeapEnd(y, e) <=> (4 * u = y + 1 /\ (100 * v # y + 1 \/ y = 399))
  BY <1>1, LeapLinear
<1> HIDE DEF q, r, u, v, q2, r2, u2, v2
<1> DEFINE doy == doe - (365 * y + q - r)
           next == (doe + 1) - (365 * z + q2 - r2)
           leap == 4 * u = y + 1 /\ (100 * v # y + 1 \/ y = 399)
<1>7. \/ /\ z = y /\ q2 = q /\ r2 = r
         /\ doy < 364 \/ (doy = 364 /\ leap)
      \/ /\ z = y + 1 /\ doe + 1 = 365 * z + q2 - r2
         /\ doy = IF leap THEN 365 ELSE 364
  BY <1>1, <1>2, <1>3, <1>4, <1>5, NextYearLinear
<1>8. doy \in Int /\ 0 <= doy
  BY <1>1, <1>3, <1>5
<1>9. CASE z = y /\ q2 = q /\ r2 = r /\ (doy < 364 \/ (doy = 364 /\ leap))
  <2>1. next = doy + 1
    BY <1>1, <1>3, <1>9
  <2> QED BY <1>1, <1>5, <1>6, <1>8, <1>9, <2>1 DEF YearStep
<1>10. CASE z = y + 1 /\ doe + 1 = 365 * z + q2 - r2 /\ doy = IF leap THEN 365 ELSE 364
  <2>1. next = 0
    BY <1>2, <1>4, <1>10
  <2> QED BY <1>1, <1>2, <1>5, <1>6, <1>8, <1>10, <2>1 DEF YearStep
<1> QED BY <1>7, <1>9, <1>10

(* ------------------------------ the months ----------------------------- *)

\* The months from March on; the day of the year on which one begins, and its
\* days, the leap day left out.
MonthStart(mp) == (153 * mp + 2) \div 5
MonthDays(mp) == IF mp = 11 THEN 28 ELSE IF mp \in {1, 3, 6, 8} THEN 30 ELSE 31

\* The day after day `day` of a month, on day doy of the year: it is the next
\* of the month, or the first of the next month.
MonthStep(doy, mp, day, m2, next) ==
  /\ mp \in 0 .. 11 /\ day \in Int /\ (mp = 11 => day = doy - 336)
  /\ \/ m2 = mp /\ next = day + 1 /\ (day < MonthDays(mp) \/ mp = 11)
     \/ m2 = mp + 1 /\ mp # 11 /\ next = 1 /\ day = MonthDays(mp)

\* One day later civil_date computes the next place in the month.
LEMMA NextDayOfMonth ==
  ASSUME NEW doy \in 0 .. 364, NEW mp, mp = (5 * doy + 2) \div 153,
         NEW m2, m2 = (5 * (doy + 1) + 2) \div 153
  PROVE  MonthStep(doy, mp, doy - MonthStart(mp) + 1, m2, (doy + 1) - MonthStart(m2) + 1)
<1>1. mp \in {0, 1, 2, 3, 4, 5, 6, 7, 8, 9, 10, 11} /\ m2 \in {0, 1, 2, 3, 4, 5, 6, 7, 8, 9, 10, 11}
  OBVIOUS
<1>2. m2 = mp \/ m2 = mp + 1
  OBVIOUS
<1>3. /\ MonthStart(0) = 0 /\ MonthStart(1) = 31 /\ MonthStart(2) = 61 /\ MonthStart(3) = 92
      /\ MonthStart(4) = 122 /\ MonthStart(5) = 153 /\ MonthStart(6) = 184 /\ MonthStart(7) = 214
      /\ MonthStart(8) = 245 /\ MonthStart(9) = 275 /\ MonthStart(10) = 306 /\ MonthStart(11) = 337
  BY DEF MonthStart
<1>4. /\ 153 * mp <= 5 * doy + 2 /\ 5 * doy + 2 < 153 * mp + 153
      /\ 153 * m2 <= 5 * doy + 7 /\ 5 * doy + 7 < 153 * m2 + 153
  OBVIOUS
<1> QED BY <1>1, <1>2, <1>3, <1>4 DEF MonthStep, MonthDays

(* ------------------------------ the dates ------------------------------ *)

\* civil_date in the terms of this part: the date of a day of a month, of a
\* day of a year, and of a day of an era.
MonthIndex(doy) == (5 * doy + 2) \div 153
MonthNumber(mp) == mp + (IF mp < 10 THEN 3 ELSE -9)
DayOfMonth(e, y, mp, day) ==
  [year |-> y + e * 400 + (IF MonthNumber(mp) <= 2 THEN 1 ELSE 0),
   month |-> MonthNumber(mp), day |-> day]
DayOfYear(e, y, doy) ==
  DayOfMonth(e, y, MonthIndex(doy), doy - MonthStart(MonthIndex(doy)) + 1)
DayOfEra(e, doe) == DayOfYear(e, YearOf(doe), doe - YearStart(YearOf(doe)))

\* civil_date is the date of a day of an era.
LEMMA CivilDateIn ==
  ASSUME NEW days \in Nat
  PROVE  LET era == (days + 719468) \div 146097
             doe == days + 719468 - era * 146097
         IN  civil_date(days) = DayOfEra(era, doe)
BY DEF civil_date, DayOfEra, DayOfYear, DayOfMonth, MonthNumber, MonthIndex, YearOf, YearStart,
       MonthStart

\* NextDate of a date that is spelt out.
LEMMA NextDateOf ==
  ASSUME NEW y, NEW m, NEW d, NEW civil, civil = [year |-> y, month |-> m, day |-> d]
  PROVE  NextDate(civil) =
           IF d < MonthLength(y, m) THEN [year |-> y, month |-> m, day |-> d + 1]
           ELSE IF m < 12 THEN [year |-> y, month |-> m + 1, day |-> 1]
           ELSE [year |-> y + 1, month |-> 1, day |-> 1]
BY DEF NextDate

\* The length of a month as the calendar has it and as civil_date counts it.
LEMMA MonthLengths ==
  ASSUME NEW mp \in 0 .. 10, NEW year
  PROVE  MonthLength(year, MonthNumber(mp)) = MonthDays(mp)
<1>1. mp \in {0, 1, 2, 3, 4, 5, 6, 7, 8, 9, 10}
  OBVIOUS
<1> QED BY <1>1 DEF MonthLength, MonthNumber, MonthDays

\* The length of the February at the end of a year.
LEMMA FebruaryLength ==
  ASSUME NEW y, NEW e
  PROVE  MonthLength(y + 1 + e * 400, 2) = IF LeapEnd(y, e) THEN 29 ELSE 28
BY DEF MonthLength, LeapEnd

\* A day that is not the last of its month is followed by the next one.
LEMMA NextInMonth ==
  ASSUME NEW e \in Int, NEW y \in Int, NEW mp \in 0 .. 11, NEW day \in Int,
         mp # 11 => day < MonthDays(mp),
         mp = 11 => day < 28 \/ (day = 28 /\ LeapEnd(y, e))
  PROVE  DayOfMonth(e, y, mp, day + 1) = NextDate(DayOfMonth(e, y, mp, day))
<1>1. PICK m, year : m = MonthNumber(mp) /\ year = y + e * 400 + (IF m <= 2 THEN 1 ELSE 0)
  OBVIOUS
<1>2. m \in Int /\ year \in Int
  BY <1>1 DEF MonthNumber
<1>3. /\ DayOfMonth(e, y, mp, day) = [year |-> year, month |-> m, day |-> day]
      /\ DayOfMonth(e, y, mp, day + 1) = [year |-> year, month |-> m, day |-> day + 1]
  BY <1>1 DEF DayOfMonth
<1>4. CASE mp # 11
  <2>1. mp \in 0 .. 10
    BY <1>4
  <2>2. MonthLength(year, m) = MonthDays(mp)
    BY <1>1, <2>1, MonthLengths
  <2>3. day < MonthLength(year, m)
    BY <1>4, <2>2
  <2> QED BY <1>2, <1>3, <2>3, NextDateOf
<1>5. CASE mp = 11
  <2>1. m = 2 /\ year = y + 1 + e * 400
    BY <1>1, <1>5 DEF MonthNumber
  <2>2. MonthLength(year, m) = IF LeapEnd(y, e) THEN 29 ELSE 28
    BY <2>1, FebruaryLength
  <2>3. day < MonthLength(year, m)
    BY <1>5, <2>2
  <2> QED BY <1>2, <1>3, <2>3, NextDateOf
<1> QED BY <1>4, <1>5

\* The last day of a month but February is followed by a first one.
LEMMA NextMonth ==
  ASSUME NEW e \in Int, NEW y \in Int, NEW mp \in 0 .. 10
  PROVE  DayOfMonth(e, y, mp + 1, 1) = NextDate(DayOfMonth(e, y, mp, MonthDays(mp)))
<1>1. PICK m, year, m2, year2, day :
        /\ m = MonthNumber(mp) /\ year = y + e * 400 + (IF m <= 2 THEN 1 ELSE 0)
        /\ m2 = MonthNumber(mp + 1) /\ year2 = y + e * 400 + (IF m2 <= 2 THEN 1 ELSE 0)
        /\ day = MonthDays(mp)
  OBVIOUS
<1>2. m \in Int /\ year \in Int /\ day \in Int
  BY <1>1 DEF MonthNumber, MonthDays
<1>3. /\ DayOfMonth(e, y, mp, day) = [year |-> year, month |-> m, day |-> day]
      /\ DayOfMonth(e, y, mp + 1, 1) = [year |-> year2, month |-> m2, day |-> 1]
  BY <1>1 DEF DayOfMonth
<1>4. day = MonthLength(year, m)
  BY <1>1, MonthLengths
<1>5. CASE mp # 9
  <2>1. m < 12 /\ m2 = m + 1 /\ year2 = year
    BY <1>1, <1>5 DEF MonthNumber
  <2> QED BY <1>1, <1>2, <1>3, <1>4, <2>1, NextDateOf
<1>6. CASE mp = 9
  <2>1. m = 12 /\ m2 = 1 /\ year2 = year + 1
    BY <1>1, <1>6 DEF MonthNumber
  <2> QED BY <1>1, <1>2, <1>3, <1>4, <2>1, NextDateOf
<1> QED BY <1>5, <1>6

\* The last day of February is followed by the first of March.
LEMMA NextMarch ==
  ASSUME NEW e \in Int, NEW y \in Int, NEW day \in Int,
         LeapEnd(y, e) => day = 29, ~ LeapEnd(y, e) => day = 28
  PROVE  DayOfMonth(e, y + 1, 0, 1) = NextDate(DayOfMonth(e, y, 11, day))
<1>1. PICK year \in Int : year = y + 1 + e * 400
  OBVIOUS
<1>2. /\ DayOfMonth(e, y, 11, day) = [year |-> year, month |-> 2, day |-> day]
      /\ DayOfMonth(e, y + 1, 0, 1) = [year |-> year, month |-> 3, day |-> 1]
  <2>1. MonthNumber(11) = 2 /\ MonthNumber(0) = 3
    BY DEF MonthNumber
  <2>2. y + e * 400 + 1 = year /\ y + 1 + e * 400 + 0 = year
    BY <1>1
  <2> QED BY <2>1, <2>2 DEF DayOfMonth
<1>3. day = MonthLength(year, 2)
  BY <1>1, FebruaryLength
<1>4. NextDate([year |-> year, month |-> 2, day |-> day]) = [year |-> year, month |-> 2 + 1, day |-> 1]
  BY <1>3, NextDateOf
<1> QED BY <1>2, <1>4

\* From the last day of a year to the first of the next.
LEMMA NextYear ==
  ASSUME NEW e \in Int, NEW y \in Int, NEW doy \in Int,
         LeapEnd(y, e) => doy = 365, ~ LeapEnd(y, e) => doy = 364
  PROVE  DayOfYear(e, y + 1, 0) = NextDate(DayOfYear(e, y, doy))
<1>1. MonthIndex(365) = 11 /\ MonthIndex(364) = 11 /\ MonthIndex(0) = 0
  BY DEF MonthIndex
<1>2. MonthStart(11) = 337 /\ MonthStart(0) = 0
  BY DEF MonthStart
<1>3. MonthIndex(doy) = 11
  BY <1>1
<1>4. PICK day \in Int : day = doy - 336
  OBVIOUS
<1>5. doy - 337 + 1 = day /\ 0 - 0 + 1 = 1
  BY <1>4
<1>6. DayOfYear(e, y, doy) = DayOfMonth(e, y, 11, day)
  BY <1>2, <1>3, <1>5 DEF DayOfYear
<1>7. DayOfYear(e, y + 1, 0) = DayOfMonth(e, y + 1, 0, 1)
  BY <1>1, <1>2, <1>5 DEF DayOfYear
<1>8. (LeapEnd(y, e) => day = 29) /\ (~ LeapEnd(y, e) => day = 28)
  BY <1>4
<1>9. NextDate(DayOfMonth(e, y, 11, day)) = DayOfMonth(e, y + 1, 0, 1)
  BY <1>8, NextMarch
<1> QED BY <1>6, <1>7, <1>9

\* From one day of a year to the next.
LEMMA NextInYear ==
  ASSUME NEW e \in Int, NEW y \in Int, NEW doy \in 0 .. 364, doy = 364 => LeapEnd(y, e)
  PROVE  DayOfYear(e, y, doy + 1) = NextDate(DayOfYear(e, y, doy))
<1> DEFINE after == doy + 1
           mp == MonthIndex(doy)
           m2 == MonthIndex(after)
           day == doy - MonthStart(mp) + 1
           next == after - MonthStart(m2) + 1
<1>1. MonthStep(doy, mp, day, m2, next)
  BY NextDayOfMonth, Zenon DEF MonthIndex
<1> HIDE DEF after
<1>2. DayOfYear(e, y, doy) = DayOfMonth(e, y, mp, day)
  BY DEF DayOfYear
<1>3. DayOfYear(e, y, after) = DayOfMonth(e, y, m2, next)
  BY DEF DayOfYear
<1> HIDE DEF mp, m2, day, next
<1>4. mp \in 0 .. 11 /\ day \in Int
  BY <1>1 DEF MonthStep
<1>5. mp = 11 => day = doy - 336
  BY <1>1 DEF MonthStep
<1>6. CASE m2 = mp /\ next = day + 1 /\ (day < MonthDays(mp) \/ mp = 11)
  <2>1. mp # 11 => day < MonthDays(mp)
    BY <1>6
  <2>2. mp = 11 => day < 28 \/ (day = 28 /\ LeapEnd(y, e))
    BY <1>4, <1>5
  <2>3. DayOfMonth(e, y, mp, day + 1) = NextDate(DayOfMonth(e, y, mp, day))
    BY <1>4, <2>1, <2>2, NextInMonth
  <2> QED BY <1>2, <1>3, <1>6, <2>3 DEF after
<1>7. CASE m2 = mp + 1 /\ mp # 11 /\ next = 1 /\ day = MonthDays(mp)
  <2>1. mp \in 0 .. 10
    BY <1>4, <1>7
  <2>2. DayOfMonth(e, y, mp + 1, 1) = NextDate(DayOfMonth(e, y, mp, MonthDays(mp)))
    BY <2>1, NextMonth
  <2> QED BY <1>2, <1>3, <1>7, <2>2 DEF after
<1> QED BY <1>1, <1>6, <1>7 DEF MonthStep

\* From one day to the next of an era.
LEMMA NextInEra ==
  ASSUME NEW e \in Int, NEW y, NEW doy, NEW z, NEW next, YearStep(e, y, doy, z, next)
  PROVE  DayOfYear(e, z, next) = NextDate(DayOfYear(e, y, doy))
<1>1. y \in Int /\ doy \in Int
  BY DEF YearStep
<1>2. CASE z = y /\ next = doy + 1 /\ doy \in 0 .. 364 /\ (doy = 364 => LeapEnd(y, e))
  <2>1. DayOfYear(e, y, doy + 1) = NextDate(DayOfYear(e, y, doy))
    BY <1>1, <1>2, NextInYear
  <2> QED BY <1>2, <2>1
<1>3. CASE z = y + 1 /\ next = 0 /\ doy = IF LeapEnd(y, e) THEN 365 ELSE 364
  <2>1. (LeapEnd(y, e) => doy = 365) /\ (~ LeapEnd(y, e) => doy = 364)
    BY <1>3
  <2>2. DayOfYear(e, y + 1, 0) = NextDate(DayOfYear(e, y, doy))
    BY <1>1, <2>1, NextYear
  <2> QED BY <1>3, <2>2
<1> QED BY <1>2, <1>3 DEF YearStep

\* From one day of an era to the next civil_date goes to the next date.
LEMMA NextDayOfEra ==
  ASSUME NEW doe \in Int, 0 <= doe, doe < 146096, NEW e \in Int
  PROVE  DayOfEra(e, doe + 1) = NextDate(DayOfEra(e, doe))
<1>0. YearStep(e, YearOf(doe), doe - YearStart(YearOf(doe)), YearOf(doe + 1),
               (doe + 1) - YearStart(YearOf(doe + 1)))
  BY NextDayOfYear, SMT
<1> DEFINE after == doe + 1
           y == YearOf(doe)
           z == YearOf(after)
           doy == doe - YearStart(y)
           next == after - YearStart(z)
<1>1. YearStep(e, y, doy, z, next)
  BY <1>0, SMT
<1> HIDE DEF after
<1>2. DayOfEra(e, doe) = DayOfYear(e, y, doy)
  BY SMT DEF DayOfEra
<1>3. DayOfEra(e, after) = DayOfYear(e, z, next)
  BY SMT DEF DayOfEra
<1> HIDE DEF y, z, doy, next
<1>4. DayOfYear(e, z, next) = NextDate(DayOfYear(e, y, doy))
  BY <1>1, NextInEra, SMT
<1> QED BY <1>2, <1>3, <1>4, SMT DEF after

\* The last day of an era is a leap day, the first of the next a March 1.
LEMMA NextEra ==
  ASSUME NEW e \in Int
  PROVE  DayOfEra(e + 1, 0) = NextDate(DayOfEra(e, 146096))
<1>1. 146096 \div 1460 = 100 /\ 146096 \div 36524 = 4 /\ 146096 \div 146096 = 1
  OBVIOUS
<1>2. 399 \div 4 = 99 /\ 399 \div 100 = 3 /\ 145999 \div 365 = 399
  OBVIOUS
<1>3. YearOf(146096) = 399 /\ YearStart(399) = 145731
  BY <1>1, <1>2 DEF YearOf, YearStart
<1>4. YearOf(0) = 0 /\ YearStart(0) = 0
  BY DEF YearOf, YearStart
<1>5. MonthIndex(365) = 11 /\ MonthIndex(0) = 0 /\ MonthStart(11) = 337 /\ MonthStart(0) = 0
  BY DEF MonthIndex, MonthStart
<1>6. DayOfEra(e, 146096) = DayOfMonth(e, 399, 11, 29)
  BY <1>3, <1>5 DEF DayOfEra, DayOfYear
<1>7. DayOfEra(e + 1, 0) = DayOfMonth(e + 1, 0, 0, 1)
  BY <1>4, <1>5 DEF DayOfEra, DayOfYear
<1>8. LeapEnd(399, e)
  BY LeapLinear
<1>9. NextDate(DayOfMonth(e, 399, 11, 29)) = DayOfMonth(e, 400, 0, 1)
  BY <1>8, NextMarch
<1>10. DayOfMonth(e, 400, 0, 1) = DayOfMonth(e + 1, 0, 0, 1)
  <2>1. 400 + e * 400 = 0 + (e + 1) * 400
    OBVIOUS
  <2> QED BY <2>1 DEF DayOfMonth
<1> QED BY <1>6, <1>7, <1>9, <1>10

\* civil_date gives for every day from 1970 on the date after that of the day
\* before.
LEMMA CivilDateFollows ==
  ASSUME NEW days \in Nat
  PROVE  civil_date(days + 1) = NextDate(civil_date(days))
<1>1. PICK s, era, doe, era2, doe2 :
        /\ s = days + 719468
        /\ era = s \div 146097 /\ doe = s - era * 146097
        /\ era2 = (s + 1) \div 146097 /\ doe2 = (s + 1) - era2 * 146097
  OBVIOUS
<1>2. era \in Int /\ 0 <= doe /\ doe <= 146096 /\ doe \in Int
  BY <1>1, Division
<1>3. era2 \in Int /\ 0 <= doe2 /\ doe2 <= 146096 /\ doe2 \in Int
  BY <1>1, Division
<1>4. civil_date(days) = DayOfEra(era, doe)
  BY <1>1, CivilDateIn
<1>5. civil_date(days + 1) = DayOfEra(era2, doe2)
  <2>1. days + 1 \in Nat /\ days + 1 + 719468 = s + 1
    BY <1>1
  <2> QED BY <1>1, <2>1, CivilDateIn
<1>6. \/ era2 = era /\ doe2 = doe + 1 /\ doe < 146096
      \/ era2 = era + 1 /\ doe2 = 0 /\ doe = 146096
  <2>1. doe = s - era * 146097 /\ doe2 = (s + 1) - era2 * 146097 /\ s \in Int
    BY <1>1
  <2> QED BY <1>2, <1>3, <2>1
<1>7. CASE era2 = era /\ doe2 = doe + 1 /\ doe < 146096
  BY <1>2, <1>4, <1>5, <1>7, NextDayOfEra
<1>8. CASE era2 = era + 1 /\ doe2 = 0 /\ doe = 146096
  BY <1>2, <1>4, <1>5, <1>8, NextEra
<1> QED BY <1>6, <1>7, <1>8

\* civil_date is the calendar: day 0 is the first of January 1970, and each day
\* has the date after that of the day before.
THEOREM CivilDateCounts ==
  /\ civil_date(0) = [year |-> 1970, month |-> 1, day |-> 1]
  /\ \A days \in Nat : civil_date(days + 1) = NextDate(civil_date(days))
<1>1. civil_date(0) = [year |-> 1970, month |-> 1, day |-> 1]
  <2>1. 719468 \div 146097 = 4 /\ 719468 - 4 * 146097 = 135080
    BY Division
  <2>2. civil_date(0) = DayOfEra(4, 135080)
    BY <2>1, CivilDateIn
  <2>3. YearOf(135080) = 369 /\ YearStart(369) = 134774
    BY DEF YearOf, YearStart
  <2>4. MonthIndex(306) = 10 /\ MonthStart(10) = 306 /\ MonthNumber(10) = 1
    BY DEF MonthIndex, MonthStart, MonthNumber
  <2>5. civil_date(0) = DayOfMonth(4, 369, 10, 1)
    BY <2>2, <2>3, <2>4 DEF DayOfEra, DayOfYear
  <2> QED BY <2>4, <2>5 DEF DayOfMonth
<1> QED BY <1>1, CivilDateFollows

(* ---------------------------- the invariant ---------------------------- *)

TimerFields == {"active", "started", "last_fire", "boot_fired", "persistent_pending", "random",
                "accuracy", "fires", "pending", "seen", "initial"}

\* The clock has run for at most a day a tick, and the date has followed it.
ClockInv ==
  /\ spec \in Specs /\ ticks \in 0 .. MaxTicks
  /\ clock \in Nat /\ spec.start.seconds <= clock
  /\ clock <= spec.start.seconds + ticks * Day
  /\ date = civil_date(clock \div Day)

\* What the daemon and the disk know is of its type and not from the future.
DaemonInv ==
  /\ up \in BOOLEAN /\ asked \in BOOLEAN /\ unsaved \in BOOLEAN
  /\ target \in {"down", "busy"} /\ file \in Files
  /\ stamp \in {Never} \cup Nat /\ stamp <= clock

FieldsInv ==
  /\ DOMAIN t = TimerFields
  /\ t.started \in {Never} \cup Nat /\ t.started <= clock
  /\ t.last_fire \in {Never} \cup Nat
  /\ t.random \in Nat /\ t.accuracy \in Nat
  /\ t.active => t.started \in Nat
  /\ ~ t.active => t = Inactive

\* An instant for which an expression has fired, or is to fire after its
\* delay, has come; the one to come is later than the one that was.
InstantsInv ==
  /\ DOMAIN t.fires = Indices /\ DOMAIN t.pending = Indices
  /\ \A i \in Indices :
       /\ t.fires[i] \in {Never} \cup Nat /\ t.fires[i] <= clock
       /\ t.pending[i] # <<>> =>
            t.pending[i][1] \in Nat /\ t.pending[i][1] <= clock /\ t.fires[i] < t.pending[i][1]

\* The file of a timer that could always be written is no older than anything
\* the timer has fired for.
ServedInv ==
  /\ served \subseteq Nat
  /\ spec.persistent /\ ~ unsaved => \A x \in served : stamp # Never /\ x <= stamp

\* A catch-up that is to come was missed by the file as it still is, until the
\* timer fires.
OwedInv ==
  t.active /\ t.persistent_pending /\ t.last_fire = Never =>
     spec.persistent /\ timer_has_missed_schedule(t.started)

TriggersIInv == ClockInv /\ DaemonInv /\ FieldsInv /\ InstantsInv /\ ServedInv /\ OwedInv

(* ------------------------------ a trigger ------------------------------ *)

\* What a descriptor is assumed to be.
LEMMA Descriptor ==
  ASSUME spec \in Specs
  PROVE  /\ spec.kind \in {"timer", "path"}
         /\ spec.persistent => spec.kind = "timer"
         /\ spec.kind = "path" =>
              spec.watch \in {"exists", "exists_glob", "directory_not_empty", "changed", "modified"}
         /\ spec.randomized_delay \in Nat /\ spec.accuracy \in Nat
         /\ Indices \subseteq Nat /\ spec.start.seconds \in Nat
BY TriggersAssumption DEF Indices

\* A trigger that is not active: it has its fields and has fired for nothing.
Stopped == clock \in Nat /\ t = Inactive

\* Stopped gives what the invariant says of the trigger.
LEMMA InactiveFields == Stopped => FieldsInv /\ InstantsInv /\ OwedInv
<1> SUFFICES ASSUME clock \in Nat, t = Inactive PROVE FieldsInv /\ InstantsInv /\ OwedInv
  BY DEF Stopped
<1>1. /\ DOMAIN t = TimerFields /\ t.active = FALSE /\ t.started = Never /\ t.last_fire = Never
      /\ t.random = 0 /\ t.accuracy = 0
  BY DEF Inactive, TimerFields
<1>2. t.fires = [i \in Indices |-> Never] /\ t.pending = [i \in Indices |-> <<>>]
  BY DEF Inactive
<1>3. Never = -1
  BY DEF Never
<1>4. FieldsInv
  BY <1>1, <1>3 DEF FieldsInv
<1>5. InstantsInv
  BY <1>2, <1>3 DEF InstantsInv
<1>6. OwedInv
  BY <1>1 DEF OwedInv
<1> QED BY <1>4, <1>5, <1>6

\* A set of natural numbers that is not empty has a least one.
LEMMA LeastIndex ==
  ASSUME NEW S \in SUBSET Nat, S # {}
  PROVE  Min(S) \in S
<1>1. IsWellFoundedOn(OpToRel(<, Nat), Nat)
  BY NatLessThanWellFounded
<1>2. PICK x \in S : \A y \in S : <<y, x>> \notin OpToRel(<, Nat)
  BY <1>1, WFMin
<1>3. \A y \in S : ~ (y < x)
  BY <1>2 DEF OpToRel
<1>4. \A y \in S : x <= y
  BY <1>3
<1> QED BY <1>4 DEF Min

\* What a look at the schedule makes of the expressions: the instants stay in
\* order, and when one fires it is for a later instant than before.
LEMMA CalendarDue ==
  ASSUME ClockInv, FieldsInv, InstantsInv
  PROVE  /\ DOMAIN calendar_due = TimerFields
         /\ \A f \in TimerFields \ {"last_fire", "fires", "pending"} : calendar_due[f] = t[f]
         /\ calendar_due.last_fire = IF Firing = {} THEN t.last_fire ELSE clock
         /\ DOMAIN calendar_due.fires = Indices /\ DOMAIN calendar_due.pending = Indices
         /\ \A i \in Indices :
              /\ calendar_due.fires[i] \in {Never} \cup Nat /\ calendar_due.fires[i] <= clock
              /\ calendar_due.pending[i] # <<>> =>
                   /\ calendar_due.pending[i][1] \in Nat /\ calendar_due.pending[i][1] <= clock
                   /\ calendar_due.fires[i] < calendar_due.pending[i][1]
         /\ Firing # {} =>
              /\ Min(Firing) \in Indices /\ Bucket(Min(Firing)) \in Nat
              /\ Bucket(Min(Firing)) <= clock
              /\ calendar_due.fires[Min(Firing)] > t.fires[Min(Firing)]
<1> DEFINE first == Min(Firing)
           new == calendar_due
<1>1. /\ DOMAIN t = TimerFields /\ clock \in Nat /\ Indices \subseteq Nat
      /\ DOMAIN t.fires = Indices /\ DOMAIN t.pending = Indices
  BY Descriptor DEF ClockInv, FieldsInv, InstantsInv
<1>2. \A i \in Indices : NewMatch(i) => t.fires[i] < clock
  BY <1>1 DEF InstantsInv, NewMatch, Never
<1>3. ASSUME NEW last, NEW i \in Indices
      PROVE  /\ DOMAIN Postponed(last) = Indices
             /\ Postponed(last)[i] # <<>> =>
                  /\ Postponed(last)[i][1] \in Nat /\ Postponed(last)[i][1] <= clock
                  /\ t.fires[i] < Postponed(last)[i][1]
  <2>1. DOMAIN Postponed(last) = Indices
    BY DEF Postponed
  <2>2. CASE i < last /\ NewMatch(i)
    <3>1. Postponed(last)[i] = <<clock, clock + schedule_delay>>
      BY <2>2 DEF Postponed
    <3> QED BY <1>1, <1>2, <2>1, <2>2, <3>1
  <2>3. CASE ~ (i < last /\ NewMatch(i))
    <3>1. Postponed(last)[i] = t.pending[i]
      BY <2>3 DEF Postponed
    <3> QED BY <2>1, <3>1 DEF InstantsInv
  <2> QED BY <2>2, <2>3
<1>4. CASE Firing = {}
  <2> DEFINE p == Postponed(Len(spec.on_calendar) + 1)
  <2>1. new = [t EXCEPT !.pending = p]
    BY <1>4 DEF calendar_due
  <2>2. DOMAIN p = Indices
    BY DEF Postponed
  <2>3. /\ DOMAIN new = TimerFields /\ new.pending = p /\ new.fires = t.fires
        /\ new.last_fire = t.last_fire
        /\ \A f \in TimerFields \ {"last_fire", "fires", "pending"} : new[f] = t[f]
    BY <1>1, <2>1 DEF TimerFields
  <2>4. \A i \in Indices :
              p[i] # <<>> => p[i][1] \in Nat /\ p[i][1] <= clock /\ t.fires[i] < p[i][1]
    BY <1>3
  <2> HIDE DEF new, p
  <2> QED BY <1>1, <1>4, <2>2, <2>3, <2>4 DEF InstantsInv, new
<1>5. CASE Firing # {}
  <2> DEFINE p == Postponed(first)
             q == [p EXCEPT ![first] = <<>>]
  <2>1. first \in Firing /\ first \in Indices
    <3>1. Firing \in SUBSET Nat
      BY <1>1 DEF Firing
    <3> QED BY <1>5, <3>1, LeastIndex DEF Firing
  <2>2. Bucket(first) \in Nat /\ Bucket(first) <= clock /\ t.fires[first] < Bucket(first)
    <3> HIDE DEF first
    <3>1. CASE t.pending[first] # <<>>
      BY <2>1, <3>1 DEF Bucket, InstantsInv
    <3>2. CASE t.pending[first] = <<>>
      <4>1. NewMatch(first)
        BY <2>1, <3>2 DEF Firing, CalendarFires
      <4>2. Bucket(first) = clock
        BY <3>2 DEF Bucket
      <4>3. t.fires[first] < clock
        BY <1>2, <2>1, <4>1
      <4> QED BY <1>1, <4>2, <4>3
    <3> QED BY <3>1, <3>2
  <2>3. new = [[t EXCEPT !.pending = q, !.fires[first] = Bucket(first)] EXCEPT !.last_fire = clock]
    BY <1>5 DEF calendar_due, fire_timer
  <2>4. DOMAIN p = Indices
    BY DEF Postponed
  <2>5. \A i \in Indices :
              p[i] # <<>> => p[i][1] \in Nat /\ p[i][1] <= clock /\ t.fires[i] < p[i][1]
    BY <1>3
  <2> HIDE DEF p, first
  <2>6. /\ DOMAIN q = Indices /\ q[first] = <<>>
        /\ \A i \in Indices \ {first} : q[i] = p[i]
    BY <2>1, <2>4
  <2> HIDE DEF q
  <2>7. /\ DOMAIN new = TimerFields /\ new.pending = q
        /\ new.fires = [t.fires EXCEPT ![first] = Bucket(first)] /\ new.last_fire = clock
        /\ \A f \in TimerFields \ {"last_fire", "fires", "pending"} : new[f] = t[f]
    BY <1>1, <2>3 DEF TimerFields
  <2>8. /\ DOMAIN new.fires = Indices /\ new.fires[first] = Bucket(first)
        /\ \A i \in Indices \ {first} : new.fires[i] = t.fires[i]
    BY <1>1, <2>1, <2>7
  <2> HIDE DEF new
  <2>9. ASSUME NEW i \in Indices
        PROVE  /\ new.fires[i] \in {Never} \cup Nat /\ new.fires[i] <= clock
               /\ new.pending[i] # <<>> =>
                    /\ new.pending[i][1] \in Nat /\ new.pending[i][1] <= clock
                    /\ new.fires[i] < new.pending[i][1]
    <3>1. CASE i = first
      BY <2>2, <2>6, <2>7, <2>8, <3>1
    <3>2. CASE i # first
      <4>1. new.fires[i] = t.fires[i] /\ new.pending[i] = p[i]
        BY <2>6, <2>7, <2>8, <3>2
      <4> QED BY <2>5, <4>1 DEF InstantsInv
    <3> QED BY <3>1, <3>2
  <2> QED BY <1>5, <2>1, <2>2, <2>6, <2>7, <2>8, <2>9 DEF new, first
<1> QED BY <1>4, <1>5

\* The instants of a catch-up lie after the one time and not after the other.
LEMMA WindowBounds ==
  ASSUME NEW from \in Int, from >= -1, NEW upto \in Int, NEW x \in Window(from, upto)
  PROVE  x \in Nat /\ x <= upto
<1>1. ScanSeconds \in Nat
  BY TriggersAssumption
<1> DEFINE end == Earliest(upto, from + ScanSeconds)
<1>2. end \in Int /\ end <= upto
  BY <1>1 DEF Earliest
<1>3. PICK m \in from \div Minute + 1 .. end \div Minute : x = m * Minute
  BY DEF Window
<1> HIDE DEF end
<1>4. /\ from \div 60 \in Int /\ from < 60 * (from \div 60) + 60
      /\ end \div 60 \in Int /\ 60 * (end \div 60) <= end
  BY <1>2, Division
<1>5. m \in Int /\ from \div 60 + 1 <= m /\ m <= end \div 60 /\ x = m * 60
  BY <1>3, <1>4 DEF Minute
<1> QED BY <1>2, <1>4, <1>5

\* The fields of a timer that fires.
LEMMA FireFields ==
  ASSUME NEW r, DOMAIN r = TimerFields
  PROVE  /\ DOMAIN fire_timer(r) = TimerFields /\ fire_timer(r).last_fire = clock
         /\ \A f \in TimerFields \ {"last_fire"} : fire_timer(r)[f] = r[f]
BY DEF fire_timer, TimerFields

\* A look at the trigger: what it leaves alone, and what it has fired for.
LEMMA Looked ==
  ASSUME ClockInv, DaemonInv, FieldsInv, InstantsInv, TriggerDue
  PROVE  /\ DOMAIN t' = TimerFields
         /\ t'.active = t.active /\ t'.started = t.started
         /\ t'.random = t.random /\ t'.accuracy = t.accuracy
         /\ t'.persistent_pending => t.persistent_pending
         /\ t'.last_fire = IF asked' /\ spec.kind = "timer" THEN clock ELSE t.last_fire
         /\ asked' \in BOOLEAN
         /\ InstantsInv'
         /\ asked' /\ spec.kind = "timer" => \A x \in FiredFor : x \in Nat /\ x <= clock
         /\ asked' /\ spec.kind = "timer" /\ ~ (CatchUpDue \/ BootDue \/ RepeatDue) =>
              \E i \in Indices : t'.fires[i] > t.fires[i]
<1>1. DOMAIN t = TimerFields /\ clock \in Nat /\ spec.kind \in {"timer", "path"}
  BY Descriptor DEF ClockInv, FieldsInv
<1>2. /\ t' = trigger_due[1] /\ asked' = trigger_due[2] /\ spec' = spec /\ clock' = clock
      /\ Indices' = Indices
  BY DEF TriggerDue, Indices
<1>3. ASSUME t'.fires = t.fires, t'.pending = t.pending PROVE InstantsInv'
  BY <1>2, <1>3 DEF InstantsInv
<1>4. CASE spec.kind = "timer" /\ CatchUpDue
  <2>1. t' = fire_timer([t EXCEPT !.persistent_pending = FALSE]) /\ asked' = TRUE
    BY <1>2, <1>4 DEF trigger_due, timer_due
  <2> DEFINE r == [t EXCEPT !.persistent_pending = FALSE]
  <2>2. /\ DOMAIN r = TimerFields /\ r.persistent_pending = FALSE
        /\ \A f \in TimerFields \ {"persistent_pending"} : r[f] = t[f]
    BY <1>1 DEF TimerFields
  <2> HIDE DEF r
  <2>3. t' = fire_timer(r)
    BY <2>1 DEF r
  <2>4. /\ DOMAIN t' = TimerFields /\ t'.last_fire = clock /\ t'.persistent_pending = FALSE
        /\ \A f \in TimerFields \ {"persistent_pending", "last_fire"} : t'[f] = t[f]
    BY <2>2, <2>3, FireFields DEF TimerFields
  <2>5. \A x \in FiredFor : x \in Nat /\ x <= clock
    <3>1. FiredFor = Window(stamp, t.started)
      BY <1>4 DEF FiredFor
    <3>2. /\ stamp \in Int /\ stamp >= -1 /\ t.started \in Int /\ t.started <= clock
      BY DEF DaemonInv, FieldsInv, Never
    <3>3. ASSUME NEW x \in FiredFor PROVE x \in Nat /\ x <= clock
      <4>1. x \in Nat /\ x <= t.started
        BY <3>1, <3>2, WindowBounds
      <4> QED BY <1>1, <3>2, <4>1
    <3> QED BY <3>3
  <2>6. InstantsInv'
    BY <1>3, <2>4 DEF TimerFields
  <2> QED BY <1>4, <2>1, <2>4, <2>5, <2>6 DEF TimerFields
<1>5. CASE spec.kind = "timer" /\ ~ CatchUpDue /\ BootDue
  <2>1. t' = fire_timer([t EXCEPT !.boot_fired = TRUE]) /\ asked' = TRUE
    BY <1>2, <1>5 DEF trigger_due, timer_due
  <2> DEFINE r == [t EXCEPT !.boot_fired = TRUE]
  <2>2. DOMAIN r = TimerFields /\ \A f \in TimerFields \ {"boot_fired"} : r[f] = t[f]
    BY <1>1 DEF TimerFields
  <2> HIDE DEF r
  <2>3. t' = fire_timer(r)
    BY <2>1 DEF r
  <2>4. /\ DOMAIN t' = TimerFields /\ t'.last_fire = clock
        /\ \A f \in TimerFields \ {"boot_fired", "last_fire"} : t'[f] = t[f]
    BY <2>2, <2>3, FireFields DEF TimerFields
  <2>5. FiredFor = {}
    BY <1>5 DEF FiredFor
  <2>6. InstantsInv'
    BY <1>3, <2>4 DEF TimerFields
  <2> QED BY <1>5, <2>1, <2>4, <2>5, <2>6 DEF TimerFields
<1>6. CASE spec.kind = "timer" /\ ~ CatchUpDue /\ ~ BootDue /\ RepeatDue
  <2>1. t' = fire_timer(t) /\ asked' = TRUE
    BY <1>2, <1>6 DEF trigger_due, timer_due
  <2>2. /\ DOMAIN t' = TimerFields /\ t'.last_fire = clock
        /\ \A f \in TimerFields \ {"last_fire"} : t'[f] = t[f]
    BY <1>1, <2>1, FireFields
  <2>3. FiredFor = {}
    BY <1>6 DEF FiredFor
  <2>4. InstantsInv'
    BY <1>3, <2>2 DEF TimerFields
  <2> QED BY <1>6, <2>1, <2>2, <2>3, <2>4 DEF TimerFields
<1>7. CASE spec.kind = "timer" /\ ~ CatchUpDue /\ ~ BootDue /\ ~ RepeatDue
  <2>1. t' = calendar_due /\ asked' = (Firing # {})
    BY <1>2, <1>7 DEF trigger_due, timer_due
  <2>2. /\ DOMAIN t' = TimerFields
        /\ \A f \in TimerFields \ {"last_fire", "fires", "pending"} : t'[f] = t[f]
        /\ t'.last_fire = IF Firing = {} THEN t.last_fire ELSE clock
    BY <2>1, CalendarDue
  <2>3. InstantsInv'
    <3>1. /\ DOMAIN t'.fires = Indices /\ DOMAIN t'.pending = Indices
          /\ \A i \in Indices :
              /\ t'.fires[i] \in {Never} \cup Nat /\ t'.fires[i] <= clock
              /\ t'.pending[i] # <<>> =>
                   /\ t'.pending[i][1] \in Nat /\ t'.pending[i][1] <= clock
                   /\ t'.fires[i] < t'.pending[i][1]
      BY <2>1, CalendarDue
    <3> QED BY <1>2, <3>1 DEF InstantsInv
  <2>4. Firing # {} => \A x \in FiredFor : x \in Nat /\ x <= clock
    <3>1. FiredFor = {Bucket(Min(Firing))}
      BY <1>7 DEF FiredFor
    <3> QED BY <3>1, CalendarDue
  <2>5. Firing # {} => \E i \in Indices : t'.fires[i] > t.fires[i]
    BY <2>1, CalendarDue
  <2> QED BY <1>7, <2>1, <2>2, <2>3, <2>4, <2>5 DEF TimerFields
<1>8. CASE spec.kind = "path"
  <2> DEFINE current == observe_path_watch(file)
  <2>1. t' = [t EXCEPT !.initial = FALSE, !.seen = current] /\ asked' = WatchDue(current)
    BY <1>2, <1>8 DEF trigger_due, path_due
  <2> HIDE DEF current
  <2>2. /\ DOMAIN t' = TimerFields
        /\ \A f \in TimerFields \ {"initial", "seen"} : t'[f] = t[f]
    BY <1>1, <2>1 DEF TimerFields
  <2>3. WatchDue(current) \in BOOLEAN
    <3>1. spec.watch \in {"exists", "exists_glob", "directory_not_empty", "changed", "modified"}
      BY <1>8, Descriptor DEF ClockInv
    <3> QED BY <3>1 DEF WatchDue
  <2>4. InstantsInv'
    BY <1>3, <2>2 DEF TimerFields
  <2> QED BY <1>8, <2>1, <2>2, <2>3, <2>4 DEF TimerFields
<1> QED BY <1>1, <1>4, <1>5, <1>6, <1>7, <1>8

(* ------------------------------ the steps ------------------------------ *)

\* The first state has TriggersIInv.
LEMMA TriggersInit == Init => TriggersIInv
<1> SUFFICES ASSUME Init PROVE TriggersIInv
  OBVIOUS
<1>1. /\ spec.start.seconds \in Nat /\ MaxTicks \in Nat
      /\ spec.start.date = civil_date(spec.start.seconds \div Day)
  BY TriggersAssumption DEF Init
<1>2. ClockInv
  <2>1. clock = spec.start.seconds /\ ticks = 0 /\ date = spec.start.date /\ spec \in Specs
    BY DEF Init
  <2>2. ticks * Day = 0
    BY <2>1 DEF Day
  <2> QED BY <1>1, <2>1, <2>2 DEF ClockInv
<1>3. DaemonInv
  <2>1. file \in Files
    BY DEF Init, Files, Missing
  <2>2. clock \in Nat /\ stamp = Never /\ Never = -1
    BY <1>1 DEF Init, Never
  <2>3. up = TRUE /\ asked = FALSE /\ unsaved = FALSE /\ target = "down"
    BY DEF Init
  <2>4. stamp \in {Never} \cup Nat /\ stamp <= clock
    BY <2>2
  <2> QED BY <2>1, <2>3, <2>4 DEF DaemonInv
<1>4. FieldsInv /\ InstantsInv /\ OwedInv
  <2>1. clock \in Nat /\ t = Inactive
    BY <1>1 DEF Init
  <2> QED BY <2>1, InactiveFields DEF Stopped
<1>5. ServedInv
  BY DEF Init, ServedInv
<1> QED BY <1>2, <1>3, <1>4, <1>5 DEF TriggersIInv

\* The day of a time.
LEMMA DayDivision ==
  ASSUME NEW a \in Nat
  PROVE  /\ a \div Day \in Int /\ 86400 * (a \div Day) <= a
         /\ a < 86400 * (a \div Day) + 86400
BY SMT DEF Day

\* Time passes: the day stays or is the next one, and the date with it.
LEMMA TickKeepsClock ==
  ASSUME ClockInv, NEW seconds \in Ticks, Tick(seconds)
  PROVE  ClockInv' /\ clock <= clock'
<1> DEFINE q == clock \div Day
           r == clock' \div Day
<1>1. /\ seconds \in Int /\ 0 <= seconds /\ seconds <= 86400 /\ MaxTicks \in Nat
      /\ spec \in Specs /\ spec.start.seconds \in Nat /\ clock \in Nat
  <2>0. Ticks \subseteq 0 .. Day
    BY TriggersAssumption
  <2>1. seconds \in Ticks /\ seconds \in 0 .. Day
    BY <2>0, Zenon
  <2>2. spec \in Specs /\ clock \in Nat
    BY DEF ClockInv
  <2>3. MaxTicks \in Nat /\ spec.start.seconds \in Nat
    BY <2>2, TriggersAssumption
  <2>4. seconds \in Int /\ 0 <= seconds /\ seconds <= Day
    BY <2>1, SMT
  <2>5. Day = 86400
    BY SMT DEF Day
  <2> QED BY <2>2, <2>3, <2>4, <2>5, SMT
<1>2. /\ clock' = clock + seconds /\ ticks' = ticks + 1 /\ ticks < MaxTicks /\ spec' = spec
      /\ date' = IF r > q THEN NextDate(date) ELSE date
  BY DEF Tick
<1>3. /\ clock' \in Nat /\ clock <= clock'
  BY <1>1, <1>2
<1>4. /\ q \in Int /\ 86400 * q <= clock /\ clock < 86400 * q + 86400
  BY <1>1, DayDivision, SMT
<1>5. /\ r \in Int /\ 86400 * r <= clock' /\ clock' < 86400 * r + 86400
  BY <1>3, DayDivision, SMT
<1>6. date = civil_date(q)
  BY DEF ClockInv
<1> HIDE DEF q, r
<1>7. r = q \/ r = q + 1
  BY <1>1, <1>2, <1>4, <1>5, SMT
<1>8. q \in Nat
  BY <1>1, <1>4, SMT
<1>9. date' = civil_date(r)
  <2>1. CASE r = q
    BY <1>2, <1>6, <1>8, <2>1
  <2>2. CASE r = q + 1
    <3>1. civil_date(q + 1) = NextDate(civil_date(q))
      BY <1>8, CivilDateCounts
    <3> QED BY <1>2, <1>6, <1>8, <2>2, <3>1
  <2> QED BY <1>7, <2>1, <2>2
<1>10. /\ ticks \in 0 .. MaxTicks /\ spec.start.seconds <= clock
       /\ clock <= spec.start.seconds + ticks * 86400
  BY DEF ClockInv, Day
<1>11. /\ ticks' \in 0 .. MaxTicks /\ spec'.start.seconds <= clock'
       /\ clock' <= spec'.start.seconds + ticks' * 86400
  BY <1>1, <1>2, <1>10, SMT
<1> QED BY <1>1, <1>2, <1>3, <1>9, <1>11, SMT DEF ClockInv, Day, r

\* What the other invariants say of a time they say of a later one.
LEMMA LaterKeeps ==
  ASSUME ClockInv, DaemonInv, FieldsInv, InstantsInv, ServedInv, OwedInv, clock' \in Nat, clock <= clock',
         UNCHANGED <<spec, up, t, asked, target, file, stamp, served, unsaved>>
  PROVE  DaemonInv' /\ FieldsInv' /\ InstantsInv' /\ ServedInv' /\ OwedInv'
<1>1. clock \in Nat /\ Indices' = Indices /\ Inactive' = Inactive
  BY DEF ClockInv, Indices, Inactive, Missing
<1>2. DaemonInv'
  BY <1>1 DEF DaemonInv, Never
<1>3. FieldsInv'
  BY <1>1 DEF FieldsInv, Never
<1>4. InstantsInv'
  <2>1. ASSUME NEW i \in Indices
        PROVE  /\ t.fires[i] \in {Never} \cup Nat /\ t.fires[i] <= clock'
               /\ t.pending[i] # <<>> =>
                    t.pending[i][1] \in Nat /\ t.pending[i][1] <= clock' /\ t.fires[i] < t.pending[i][1]
    BY <1>1 DEF InstantsInv, Never
  <2> QED BY <1>1, <2>1 DEF InstantsInv
<1>5. ServedInv'
  BY DEF ServedInv
<1>6. OwedInv'
  BY <1>1 DEF OwedInv, timer_has_missed_schedule
<1> QED BY <1>2, <1>3, <1>4, <1>5, <1>6

\* A look at the trigger keeps what the file and the catch-up promise.
LEMMA TriggerDueKeeps ==
  ASSUME TriggersIInv, TriggerDue PROVE TriggersIInv'
<1> USE DEF TriggersIInv
<1>1. /\ UNCHANGED <<spec, clock, date, ticks, stops, up, target, file>> /\ t.active
      /\ IF asked' /\ spec.kind = "timer"
         THEN record_timer_fire /\ served' = served \cup FiredFor
         ELSE UNCHANGED <<stamp, unsaved, served>>
  BY DEF TriggerDue
<1>2. /\ DOMAIN t' = TimerFields
      /\ t'.active = t.active /\ t'.started = t.started
      /\ t'.random = t.random /\ t'.accuracy = t.accuracy
      /\ t'.persistent_pending => t.persistent_pending
      /\ t'.last_fire = IF asked' /\ spec.kind = "timer" THEN clock ELSE t.last_fire
      /\ asked' \in BOOLEAN
  BY Looked
<1>3. asked' /\ spec.kind = "timer" => \A x \in FiredFor : x \in Nat /\ x <= clock
  BY Looked
<1>4. InstantsInv'
  BY Looked
<1>5. ClockInv'
  BY <1>1 DEF ClockInv
<1>6. clock \in Nat
  BY DEF ClockInv
<1>7. FieldsInv'
  BY <1>1, <1>2, <1>6 DEF FieldsInv
<1>8. /\ stamp' \in {stamp, clock} /\ unsaved' \in BOOLEAN
  BY <1>1 DEF record_timer_fire, DaemonInv
<1>9. DaemonInv'
  BY <1>1, <1>2, <1>6, <1>8 DEF DaemonInv
<1>10. ServedInv'
  <2>1. CASE asked' /\ spec.kind = "timer"
    <3>1. served' \subseteq Nat /\ \A x \in served' : x \in served \/ x <= clock
      BY <1>1, <1>3, <2>1 DEF ServedInv
    <3>2. spec'.persistent /\ ~ unsaved' => stamp' = clock /\ ~ unsaved /\ spec.persistent
      BY <1>1, <2>1 DEF record_timer_fire
    <3>3. \A x \in served : spec.persistent /\ ~ unsaved => x <= clock
      BY <1>6 DEF ServedInv, DaemonInv, Never
    <3> QED BY <1>6, <3>1, <3>2, <3>3 DEF ServedInv, Never
  <2>2. CASE ~ (asked' /\ spec.kind = "timer")
    BY <1>1, <2>2 DEF ServedInv
  <2> QED BY <2>1, <2>2
<1>11. OwedInv'
  <2>1. CASE asked' /\ spec.kind = "timer"
    BY <1>2, <1>6, <2>1 DEF OwedInv, Never
  <2>2. CASE ~ (asked' /\ spec.kind = "timer")
    BY <1>1, <1>2, <2>2 DEF OwedInv, timer_has_missed_schedule, Indices
  <2> QED BY <2>1, <2>2
<1> QED BY <1>4, <1>5, <1>7, <1>9, <1>10, <1>11

\* A trigger that is started owes what the file has missed.
LEMMA StartKeeps ==
  ASSUME TriggersIInv, StartTrigger PROVE TriggersIInv'
<1> USE DEF TriggersIInv
<1>1. UNCHANGED <<spec, clock, date, ticks, stops, up, asked, target, file, stamp, served, unsaved>>
  BY DEF StartTrigger
<1>2. PICK random \in 0 .. spec.randomized_delay, accuracy \in 0 .. spec.accuracy :
        t' = spawn_trigger(random, accuracy)
  BY DEF StartTrigger
<1>3. random \in Nat /\ accuracy \in Nat /\ clock \in Nat
  BY Descriptor DEF ClockInv
<1>4. /\ DOMAIN t' = TimerFields /\ t'.active = TRUE /\ t'.started = clock /\ t'.last_fire = Never
      /\ t'.random = random /\ t'.accuracy = accuracy
      /\ t'.persistent_pending = (spec.persistent /\ timer_has_missed_schedule(clock))
      /\ t'.fires = [i \in Indices |-> Never] /\ t'.pending = [i \in Indices |-> <<>>]
  BY <1>2 DEF spawn_trigger, Inactive, TimerFields
<1>5. Indices' = Indices /\ Never = -1
  BY <1>1 DEF Indices, Never
<1>6. ClockInv' /\ DaemonInv' /\ ServedInv'
  BY <1>1 DEF ClockInv, DaemonInv, ServedInv
<1>7. FieldsInv'
  BY <1>1, <1>3, <1>4, <1>5 DEF FieldsInv
<1>8. InstantsInv'
  BY <1>1, <1>3, <1>4, <1>5 DEF InstantsInv
<1>9. OwedInv'
  BY <1>1, <1>4, <1>5 DEF OwedInv, timer_has_missed_schedule
<1> QED BY <1>6, <1>7, <1>8, <1>9

\* A trigger that is stopped, by a stop or by the end of the daemon.
LEMMA StopKeeps ==
  ASSUME TriggersIInv, t' = Inactive, up' \in BOOLEAN, asked' \in BOOLEAN, target' \in {"down", "busy"},
         UNCHANGED <<spec, clock, date, ticks, file, stamp, served, unsaved>>
  PROVE  TriggersIInv'
<1> USE DEF TriggersIInv
<1>1. ClockInv' /\ DaemonInv' /\ ServedInv'
  BY DEF ClockInv, DaemonInv, ServedInv
<1>2. Stopped'
  BY DEF ClockInv, Stopped, Inactive, Indices, Missing
<1>3. FieldsInv' /\ InstantsInv' /\ OwedInv'
  BY <1>2, InactiveFields, PTL
<1> QED BY <1>1, <1>3

\* Every step keeps TriggersIInv.
LEMMA TriggersNext == TriggersIInv /\ [Next]_vars => TriggersIInv'
<1> SUFFICES ASSUME TriggersIInv, [Next]_vars PROVE TriggersIInv'
  OBVIOUS
<1>0. ASSUME UNCHANGED <<spec, clock, date, ticks, t, stamp, served, unsaved>>, up' \in BOOLEAN,
             asked' \in BOOLEAN, target' \in {"down", "busy"}, file' \in Files
      PROVE  TriggersIInv'
  <2>1. ClockInv' /\ DaemonInv' /\ ServedInv'
    BY <1>0 DEF TriggersIInv, ClockInv, DaemonInv, ServedInv
  <2>2. Indices' = Indices /\ Inactive' = Inactive
    BY <1>0 DEF Indices, Inactive, Missing
  <2>3. FieldsInv' /\ InstantsInv'
    BY <1>0, <2>2 DEF TriggersIInv, FieldsInv, InstantsInv
  <2>4. OwedInv'
    BY <1>0, <2>2 DEF TriggersIInv, OwedInv, timer_has_missed_schedule
  <2> QED BY <2>1, <2>3, <2>4 DEF TriggersIInv
<1>1. CASE TriggerDue
  BY <1>1, TriggerDueKeeps
<1>2. CASE Activate
  BY <1>0, <1>2 DEF Activate, TriggersIInv, DaemonInv
<1>3. CASE StartTrigger
  BY <1>3, StartKeeps
<1>4. CASE StopTrigger
  BY <1>4, StopKeeps DEF StopTrigger, reset_trigger_state, TriggersIInv, DaemonInv
<1>5. CASE Crash
  BY <1>5, StopKeeps DEF Crash
<1>6. CASE Boot
  BY <1>0, <1>6 DEF Boot, TriggersIInv, DaemonInv
<1>7. CASE TargetEnds
  BY <1>0, <1>7 DEF TargetEnds, TriggersIInv, DaemonInv
<1>8. CASE FileChanges
  BY <1>0, <1>8 DEF FileChanges, TriggersIInv, DaemonInv
<1>9. CASE \E seconds \in Ticks : Tick(seconds)
  <2>1. PICK seconds \in Ticks : Tick(seconds)
    BY <1>9
  <2>2. ClockInv' /\ clock <= clock'
    BY <2>1, TickKeepsClock DEF TriggersIInv
  <2>3. clock' \in Nat
    BY <2>2 DEF ClockInv
  <2>4. UNCHANGED <<spec, up, t, asked, target, file, stamp, served, unsaved>>
    BY <2>1 DEF Tick
  <2>5. DaemonInv' /\ FieldsInv' /\ InstantsInv' /\ ServedInv' /\ OwedInv'
    BY <2>2, <2>3, <2>4, LaterKeeps DEF TriggersIInv
  <2> QED BY <2>2, <2>5 DEF TriggersIInv
<1>10. CASE UNCHANGED vars
  BY <1>0, <1>10 DEF vars, TriggersIInv, DaemonInv
<1> QED BY <1>1, <1>2, <1>3, <1>4, <1>5, <1>6, <1>7, <1>8, <1>9, <1>10 DEF Next

\* TriggersIInv is an invariant of the trigger.
THEOREM TriggersInductive == Spec => []TriggersIInv
BY TriggersInit, TriggersNext, PTL DEF Spec

(* ---------------------------- the properties --------------------------- *)

\* The date of the clock is one that CivilTime knows, and the right one.
LEMMA InvariantDates == TriggersIInv => TriggerInv
<1> SUFFICES ASSUME TriggersIInv PROVE TriggerInv
  OBVIOUS
<1>1. ClockInv /\ DaemonInv /\ FieldsInv
  BY DEF TriggersIInv
<1>2. TypeOK
  <2>1. DOMAIN t = DOMAIN Inactive
    BY <1>1 DEF FieldsInv, Inactive, TimerFields
  <2> QED BY <1>1, <2>1 DEF ClockInv, DaemonInv, FieldsInv, TypeOK
<1>3. CivilDateIsRight
  <2> DEFINE q == clock \div Day
             p == spec.start.seconds \div Day
  <2>1. /\ spec.start.seconds \in Nat /\ clock \in Nat /\ ticks \in Nat /\ ticks <= MaxTicks
        /\ MaxTicks \in Nat /\ spec.start.seconds <= clock
        /\ clock <= spec.start.seconds + ticks * 86400
    <3>1. MaxTicks \in Nat
      BY TriggersAssumption
    <3> QED BY <1>1, <3>1, Descriptor DEF ClockInv, Day
  <2>2. /\ q \in Int /\ 86400 * q <= clock /\ clock < 86400 * q + 86400
        /\ p \in Int /\ 86400 * p <= spec.start.seconds /\ spec.start.seconds < 86400 * p + 86400
    BY <2>1, DayDivision, SMT
  <2>3. p .. p + MaxTicks \subseteq Days
    BY <1>1, TriggersAssumption DEF ClockInv
  <2>4. date = civil_date(q) /\ CivilTime(clock).date = DateOf[q]
    BY <1>1 DEF ClockInv, CivilTime
  <2> HIDE DEF p, q
  <2>5. p <= q /\ q <= p + ticks
    BY <2>1, <2>2, SMT
  <2>6. q \in p .. p + MaxTicks
    BY <2>1, <2>2, <2>5
  <2>7. q \in Days
    BY <2>3, <2>6
  <2>8. DateOf[q] = civil_date(q)
    BY <2>7 DEF DateOf
  <2> QED BY <2>4, <2>8 DEF CivilDateIsRight
<1> QED BY <1>2, <1>3 DEF TriggerInv

\* The trigger is of its type, and the date that civil_date computes for the
\* clock is always the one reached by counting days.
THEOREM CalendarIsRight == Spec => []TriggerInv
BY TriggersInductive, InvariantDates, PTL

\* A step that fires for an instant of the calendar fires for a later one than
\* the expression fired for before.
LEMMA FiresLater ==
  ASSUME TriggersIInv, [Next]_vars, ~ asked, asked', spec.kind = "timer",
         ~ (CatchUpDue \/ BootDue \/ RepeatDue)
  PROVE  \E i \in Indices : t'.fires[i] > t.fires[i]
<1>1. TriggerDue
  BY DEF Next, vars, Activate, StartTrigger, StopTrigger, Crash, Boot, TargetEnds, FileChanges, Tick
<1> QED BY <1>1, Looked DEF TriggersIInv

\* A catch-up that is not put on top of another fire is for an instant that
\* was missed.
LEMMA CatchUpMissed ==
  ASSUME TriggersIInv, TriggerDue, CatchUpDue, ~ unsaved, t.last_fire = Never
  PROVE  \/ Window(stamp, t.started) \ served # {}
         \/ LongAgo
         \/ \E d \in spec.repeat : t.started - stamp >= d
         \/ \E i \in Indices : second_precision(spec.on_calendar[i])
<1>1. t.active /\ t.persistent_pending
  BY DEF TriggerDue, CatchUpDue
<1>2. spec.persistent /\ timer_has_missed_schedule(t.started)
  BY <1>1 DEF TriggersIInv, OwedInv
<1>3. /\ stamp # Never /\ stamp \in Nat /\ t.started \in Nat /\ ScanSeconds \in Nat
  BY <1>1, <1>2, TriggersAssumption DEF TriggersIInv, DaemonInv, FieldsInv, timer_has_missed_schedule
<1>4. SUFFICES ASSUME NEW i \in Indices,
                      calendar_missed_since(spec.on_calendar[i], stamp, t.started),
                      ~ LongAgo, ~ second_precision(spec.on_calendar[i])
               PROVE  Window(stamp, t.started) \ served # {}
  BY <1>2 DEF timer_has_missed_schedule
<1> DEFINE end == Earliest(t.started, stamp + ScanSeconds)
<1>5. PICK n \in stamp + 1 .. end :
        n % ScanStep(spec.on_calendar[i]) = 0 /\ calendar_match(spec.on_calendar[i], n)
  BY <1>4 DEF calendar_missed_since, LongAgo
<1>6. n % 60 = 0
  BY <1>4, <1>5 DEF ScanStep, Minute
<1>7. end \in Int
  BY <1>3 DEF Earliest
<1>8. n \in Window(stamp, t.started)
  <2> HIDE DEF end
  <2>1. n \in Int /\ stamp < n /\ n <= end
    BY <1>3, <1>5, <1>7
  <2>2. /\ n \div 60 \in Int /\ n = (n \div 60) * 60
        /\ stamp \div 60 \in Int /\ 60 * (stamp \div 60) <= stamp
        /\ end \div 60 \in Int /\ end < 60 * (end \div 60) + 60
    BY <1>3, <1>6, <1>7, <2>1, Division
  <2>3. n \div 60 \in stamp \div 60 + 1 .. end \div 60
    BY <1>3, <1>7, <2>1, <2>2
  <2>4. n \in {m * Minute : m \in stamp \div Minute + 1 .. end \div Minute}
    BY <2>2, <2>3 DEF Minute
  <2> QED BY <1>4, <1>5, <2>4 DEF Window, end
<1>9. n \notin served
  BY <1>2, <1>3, <1>5, <1>7 DEF TriggersIInv, ServedInv
<1> QED BY <1>8, <1>9

\* No instant is served twice, by polling again in the same second or by a
\* catch-up after a restart.
THEOREM InstantsAreServedOnce == Spec => FiresOnce
<1>1. TriggersIInv /\ [Next]_vars =>
        [~ asked /\ asked' /\ spec.kind = "timer" /\ ~ (CatchUpDue \/ BootDue \/ RepeatDue)
           => \E i \in Indices : t'.fires[i] > t.fires[i]]_vars
  BY FiresLater
<1>2. TriggersIInv /\ [Next]_vars =>
        [TriggerDue /\ CatchUpDue /\ ~ unsaved /\ t.last_fire = Never =>
            \/ Window(stamp, t.started) \ served # {}
            \/ LongAgo
            \/ \E d \in spec.repeat : t.started - stamp >= d
            \/ \E i \in Indices : second_precision(spec.on_calendar[i])]_vars
  BY CatchUpMissed
<1> QED BY <1>1, <1>2, TriggersInductive, PTL DEF Spec, FiresOnce, OncePerInstant, CatchUpIsOwed
=============================================================================
