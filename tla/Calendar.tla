------------------------------ MODULE Calendar ------------------------------
(* Calendar expressions of timers: the functions calendar_match,           *)
(* calendar_missed_since and their helpers of fractald-supervisor.         *)
(*                                                                         *)
(* The text of an expression is abstracted to what its tokens mean:        *)
(*   - an alias is [form |-> "alias", ...] with the sets of weekdays,      *)
(*     months, days, hours and minutes it stands for;                      *)
(*   - other expressions are [form |-> "fields", weekday, date, clock],    *)
(*     each field Absent or the parts between its commas;                  *)
(*   - anything else (an unknown or repeated token) is Malformed.          *)
(* A part is a base, an interval and a step: "*" is the base "any", a      *)
(* number the base "from", a pair joined by two dots the base "range".     *)
EXTENDS Integers, Sequences

CONSTANTS
    ScanSeconds,    \* how far back a missed schedule is looked for; 370 days
                    \* of 86400 seconds in the code
    Days            \* bound: the days that are considered

Day    == 86400
Hour   == 3600
Minute == 60

Absent    == <<>>
Malformed == [form |-> "malformed"]

Part(base, first, last, step) ==
    [base |-> base, first |-> first, last |-> last, step |-> step]
Every       == {Part("any", 0, 0, 1)}
From(n)     == {Part("from", n, n, 1)}

Alias(weekdays, months, days, hours, minutes) ==
    [form |-> "alias", weekdays |-> weekdays, months |-> months,
     days |-> days, hours |-> hours, minutes |-> minutes]
Fields(weekday, date, clock) ==
    [form |-> "fields", weekday |-> weekday, date |-> date, clock |-> clock]

\* Mutant: the last day of an era counts as one of the next year.
civil_date_leap(days) ==
    LET shifted == days + 719468
        doe     == shifted % 146097
        yoe     == (doe - doe \div 1460 + doe \div 36524) \div 365
        doy     == doe - (365 * yoe + yoe \div 4 - yoe \div 100)
        mp      == (5 * doy + 2) \div 153
        month   == mp + (IF mp < 10 THEN 3 ELSE -9)
    IN  [year  |-> yoe + (shifted \div 146097) * 400 + (IF month <= 2 THEN 1 ELSE 0),
         month |-> month,
         day   |-> doy - (153 * mp + 2) \div 5 + 1]

\* Year, month and day of a day number counted from 1970-01-01; days are not
\* negative here, so `/` of the code is \div.
civil_date(days) ==
    LET shifted == days + 719468
        era     == shifted \div 146097
        doe     == shifted - era * 146097
        yoe     == (doe - doe \div 1460 + doe \div 36524 - doe \div 146096) \div 365
        doy     == doe - (365 * yoe + yoe \div 4 - yoe \div 100)
        mp      == (5 * doy + 2) \div 153
        month   == mp + (IF mp < 10 THEN 3 ELSE -9)
    IN  [year  |-> yoe + era * 400 + (IF month <= 2 THEN 1 ELSE 0),
         month |-> month,
         day   |-> doy - (153 * mp + 2) \div 5 + 1]

DateOf == [days \in Days |-> civil_date(days)]

CivilTime(seconds) ==
    [date    |-> DateOf[seconds \div Day],
     hour    |-> (seconds % Day) \div Hour,
     minute  |-> (seconds % Hour) \div Minute,
     second  |-> seconds % Minute,
     weekday |-> (seconds \div Day + 4) % 7]

weekday_matches(parts, weekday) ==
    \E p \in parts :
        IF p.first <= p.last THEN weekday \in p.first .. p.last
                             ELSE weekday >= p.first \/ weekday <= p.last

\* A plain number has step 1, so it matches every value from it on.
matches_component(parts, value) ==
    \E p \in parts :
        /\ p.step # 0
        /\ \/ p.base = "any" /\ value % p.step = 0
           \/ /\ p.base = "from"
              /\ value >= p.first /\ (value - p.first) % p.step = 0
           \/ /\ p.base = "range"
              /\ value \in p.first .. p.last /\ (value - p.first) % p.step = 0

AliasMatches(e, time) ==
    /\ time.weekday \in e.weekdays
    /\ time.date.month \in e.months /\ time.date.day \in e.days
    /\ time.hour \in e.hours /\ time.minute \in e.minutes
    /\ time.second = 0

\* A clock without seconds has the seconds "0", which matches_component lets
\* match every second.
Seconds(clock) == IF Len(clock) = 3 THEN clock[3] ELSE From(0)

FieldsMatch(e, time) ==
    /\ e.weekday # Absent \/ e.date # Absent \/ e.clock # Absent
    /\ e.weekday # Absent => weekday_matches(e.weekday[1], time.weekday)
    /\ e.date # Absent =>
           /\ matches_component(e.date[1], time.date.year)
           /\ matches_component(e.date[2], time.date.month)
           /\ matches_component(e.date[3], time.date.day)
    /\ IF e.clock # Absent
       THEN /\ matches_component(e.clock[1], time.hour)
            /\ matches_component(e.clock[2], time.minute)
            /\ matches_component(Seconds(e.clock), time.second)
       ELSE time.hour = 0 /\ time.minute = 0 /\ time.second = 0

\* Whether a second matches; the bucket of a match is the second itself.
calendar_match(e, seconds) ==
    CASE e.form = "alias"  -> AliasMatches(e, CivilTime(seconds))
      [] e.form = "fields" -> FieldsMatch(e, CivilTime(seconds))
      [] OTHER             -> FALSE

\* Only a plain number other than 0 in the third field of the clock counts.
second_precision(e) ==
    /\ e.form = "fields" /\ Len(e.clock) = 3
    /\ \E n \in 1..59 : e.clock[3] = From(n)

ScanStep(e) == IF second_precision(e) THEN 1 ELSE Minute

Earliest(a, b) == IF a < b THEN a ELSE b

\* Mutant: what lies further back than the scan is not missed.
calendar_missed_since_scanned(e, last, now) ==
    /\ now > last
    /\ \E c \in last + 1 .. Earliest(now, last + ScanSeconds) :
           c % ScanStep(e) = 0 /\ calendar_match(e, c)

calendar_missed_since(e, last, now) ==
    /\ now > last
    /\ \/ \E c \in last + 1 .. Earliest(now, last + ScanSeconds) :
              c % ScanStep(e) = 0 /\ calendar_match(e, c)
       \/ now > last + ScanSeconds
=============================================================================
