----------------------------- MODULE MCTriggers -----------------------------
(* Timers and path services for TLC. Time starts a minute before midnight  *)
(* of days around the end of February and of the year.                     *)
EXTENDS Triggers

Start(day, y, m, d) == [seconds |-> day * Day + Day - Minute,
                        date |-> [year |-> y, month |-> m, day |-> d]]
Leap1972 == Start(788, 1972, 2, 28)
Leap2000 == Start(11015, 2000, 2, 28)
Year2001 == Start(11381, 2001, 2, 28)
Year1999 == Start(10956, 1999, 12, 31)

Timer == [kind |-> "timer", on_boot |-> {}, repeat |-> {}, on_calendar |-> <<>>,
          persistent |-> FALSE, randomized_delay |-> 0, accuracy |-> 0,
          watch |-> "none", start |-> Leap1972]
Path(watch) == [Timer EXCEPT !.kind = "path", !.watch = watch]

Always == 0..59
daily   == Alias(0..6, 1..12, 1..31, {0}, {0})
monthly == Alias(0..6, 1..12, {1}, {0}, {0})
minutely == Alias(0..6, 1..12, 1..31, Always, Always)
\* The last two days of the week and the first, with no clock.
Weekend == Fields(<<{[first |-> 5, last |-> 0]}>>, Absent, Absent)
\* Any day of any month of 2000 on, at 00:00:30.
Seconds30 == Fields(Absent, <<From(2000), Every, Every>>, <<Every, Every, From(30)>>)
\* Every second minute from the 58th to the 59th.
LastMinutes == Fields(Absent, Absent, <<Every, {Part("range", 58, 59, 2)}, {Part("range", 0, 0, 1)}>>)

MCSpecs == {
    [Timer EXCEPT !.on_boot = {30}, !.repeat = {60}, !.accuracy = 1],
    [Timer EXCEPT !.repeat = {60}, !.persistent = TRUE],
    [Timer EXCEPT !.on_calendar = <<daily, Weekend>>, !.persistent = TRUE,
                  !.start = Leap2000],
    [Timer EXCEPT !.on_calendar = <<minutely, monthly>>, !.randomized_delay = 1,
                  !.persistent = TRUE, !.start = Year2001],
    [Timer EXCEPT !.on_calendar = <<Seconds30, LastMinutes, Malformed>>,
                  !.persistent = TRUE, !.start = Year1999],
    [Timer EXCEPT !.on_calendar = <<minutely>>, !.accuracy = 1, !.persistent = TRUE],
    Path("exists"), Path("exists_glob"), Path("directory_not_empty"), Path("changed")}
MCDays == UNION {(s.start.seconds \div Day) .. (s.start.seconds \div Day + 5) : s \in MCSpecs}
=============================================================================
