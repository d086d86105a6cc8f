------------------------------ MODULE Triggers ------------------------------
(* A timer or path service of the supervisor, the service it starts, and   *)
(* the file in which a persistent timer keeps the time it last fired.      *)
(*                                                                         *)
(* t is the part of ManagedService that belongs to the trigger. One poll   *)
(* of the supervisor is two steps here, TriggerDue and Activate, because   *)
(* the file is written in the first and the service started in the second  *)
(* and the daemon may be killed in between. `now` and the wall clock are   *)
(* one clock, in seconds, that is never set back.                          *)
EXTENDS Calendar, FiniteSets, FiniteSetsExt, TLC

CONSTANTS
    Specs,      \* the trigger descriptors, each with the time at which the
                \* clock starts and the date of that time
    Ticks,      \* by how much time passes in a step
    MaxTicks,   \* bound: how often time passes
    MaxStops    \* bound: how often the trigger is stopped or the daemon dies

\* A descriptor names a time by its seconds and by its date. Time passes by a
\* day at most, so that no day is left out, and Days has all that are reached.
ASSUME TriggersAssumption ==
    /\ Ticks \subseteq 0..Day /\ MaxTicks \in Nat /\ MaxStops \in Nat /\ ScanSeconds \in Nat
    /\ \A s \in Specs :
           /\ s.kind \in {"timer", "path"} /\ s.persistent \in {TRUE, FALSE}
           /\ s.persistent => s.kind = "timer"
           /\ s.kind = "path" => s.watch \in {"exists", "exists_glob", "directory_not_empty",
                                             "changed", "modified"}
           /\ s.repeat \subseteq Nat /\ s.on_boot \subseteq Nat
           /\ s.randomized_delay \in Nat /\ s.accuracy \in Nat
           /\ DOMAIN s.on_calendar \subseteq Nat
           /\ s.start.seconds \in Nat
           /\ s.start.date = civil_date(s.start.seconds \div Day)
           /\ s.start.seconds \div Day .. s.start.seconds \div Day + MaxTicks \subseteq Days

VARIABLES
    spec,       \* the descriptor
    clock,      \* the time, in seconds
    date,       \* the date of that time, counted day by day
    ticks,      \* how often time has passed
    stops,      \* how often the trigger was stopped or the daemon died
    up,         \* whether the daemon runs
    t,          \* the trigger
    asked,      \* trigger_due has returned the service, start has not been called
    target,     \* the service: "down", "busy"
    file,       \* the watched path
    stamp,      \* the contents of the file of the timer, or Never
    served,     \* history: the instants of the calendar for which it fired
    unsaved     \* history: the file could not be written

vars == <<spec, clock, date, ticks, stops, up, t, asked, target, file, stamp,
          served, unsaved>>

Never == -1

\* What observe_path_watch returns: existence, version and emptiness. A glob
\* has no version. The version stands for length and modification time.
Files == [exists : BOOLEAN, version : 0..1, nonempty : BOOLEAN]
Missing == [exists |-> FALSE, version |-> 0, nonempty |-> FALSE]
observe_path_watch(f) ==
    IF ~ f.exists \/ spec.watch = "exists_glob"
    THEN [Missing EXCEPT !.exists = f.exists]
    ELSE f

Indices == DOMAIN spec.on_calendar

Inactive ==
    [active |-> FALSE, started |-> Never, last_fire |-> Never,
     boot_fired |-> FALSE, persistent_pending |-> FALSE,
     random |-> 0, accuracy |-> 0,
     fires |-> [i \in Indices |-> Never], pending |-> [i \in Indices |-> <<>>],
     seen |-> Missing, initial |-> TRUE]

reset_trigger_state == Inactive

timer_has_missed_schedule(now) ==
    /\ stamp # Never
    /\ \/ \E i \in Indices :
              calendar_missed_since(spec.on_calendar[i], stamp, now)
       \/ \E d \in spec.repeat : now - stamp >= d

-----------------------------------------------------------------------------
(* The methods of the trigger.                                             *)

\* timer_random_delay returns any delay up to its maximum.
spawn_trigger(random, accuracy) ==
    [Inactive EXCEPT
        !.active = TRUE, !.started = clock,
        !.persistent_pending = spec.persistent /\ timer_has_missed_schedule(clock),
        !.random = random, !.accuracy = accuracy,
        !.seen = IF spec.kind = "path" THEN observe_path_watch(file) ELSE @]

schedule_delay == t.random + t.accuracy

CatchUpDue == t.persistent_pending /\ clock - t.started >= schedule_delay
BootDue == /\ ~ t.boot_fired
           /\ \E d \in spec.on_boot : clock - t.started >= d + schedule_delay
RepeatDue ==
    \E d \in spec.repeat :
        clock - (IF t.last_fire = Never THEN t.started ELSE t.last_fire)
            >= d + schedule_delay

NewMatch(i) == /\ t.pending[i] = <<>>
               /\ calendar_match(spec.on_calendar[i], clock)
               /\ t.fires[i] # clock
CalendarFires(i) == \/ t.pending[i] # <<>> /\ clock >= t.pending[i][2]
                    \/ NewMatch(i) /\ t.random = 0

\* The expressions are tried in order up to the first that fires; those
\* before it that match now and have a random delay are postponed.
Firing == {i \in Indices : CalendarFires(i)}
Postponed(last) ==
    [i \in Indices |-> IF i < last /\ NewMatch(i)
                       THEN <<clock, clock + schedule_delay>>
                       ELSE t.pending[i]]
Bucket(i) == IF t.pending[i] # <<>> THEN t.pending[i][1] ELSE clock

fire_timer(new) == [new EXCEPT !.last_fire = clock]

calendar_due ==
    IF Firing = {}
    THEN [t EXCEPT !.pending = Postponed(Len(spec.on_calendar) + 1)]
    ELSE fire_timer(
           [t EXCEPT !.pending = [Postponed(Min(Firing)) EXCEPT ![Min(Firing)] = <<>>],
                     !.fires[Min(Firing)] = Bucket(Min(Firing))])

\* The trigger after a look at its schedule, and whether it has fired.
timer_due ==
    CASE CatchUpDue -> <<fire_timer([t EXCEPT !.persistent_pending = FALSE]), TRUE>>
      [] ~ CatchUpDue /\ BootDue ->
             <<fire_timer([t EXCEPT !.boot_fired = TRUE]), TRUE>>
      [] ~ CatchUpDue /\ ~ BootDue /\ RepeatDue -> <<fire_timer(t), TRUE>>
      [] OTHER -> <<calendar_due, Firing # {}>>

WatchDue(current) ==
    CASE spec.watch \in {"exists", "exists_glob"} ->
             current.exists /\ (t.initial \/ ~ t.seen.exists)
      [] spec.watch = "directory_not_empty" ->
             current.nonempty /\ (t.initial \/ ~ t.seen.nonempty)
      [] spec.watch \in {"changed", "modified"} ->
             ~ t.initial /\ current # t.seen

path_due ==
    LET current == observe_path_watch(file)
    IN  <<[t EXCEPT !.initial = FALSE, !.seen = current], WatchDue(current)>>

trigger_due == IF spec.kind = "timer" THEN timer_due ELSE path_due

-----------------------------------------------------------------------------
(* The daemon.                                                             *)

\* The instants on whole minutes that a catch-up stands for; a time that is
\* longer than ScanSeconds counts as missed whatever the expressions are.
Window(from, upto) ==
    {s \in {m * Minute : m \in from \div Minute + 1 .. Earliest(upto, from + ScanSeconds) \div Minute} :
        \E i \in Indices : calendar_match(spec.on_calendar[i], s)}
LongAgo == t.started > stamp + ScanSeconds

FiredFor == IF CatchUpDue THEN Window(stamp, t.started)
            ELSE IF BootDue \/ RepeatDue THEN {} ELSE {Bucket(Min(Firing))}

\* Mutant: the time at which the timer was started is written.
record_timer_fire_started ==
    \/ ~ spec.persistent /\ UNCHANGED <<stamp, unsaved>>
    \/ spec.persistent /\ stamp' = t.started /\ UNCHANGED unsaved
    \/ spec.persistent /\ unsaved' = TRUE /\ UNCHANGED stamp

\* record_timer_fire writes a temporary file and renames it over the old
\* one: the file has its old contents or the new ones.
record_timer_fire ==
    \/ ~ spec.persistent /\ UNCHANGED <<stamp, unsaved>>
    \/ spec.persistent /\ stamp' = clock /\ UNCHANGED unsaved
    \/ spec.persistent /\ unsaved' = TRUE /\ UNCHANGED stamp

TriggerDue ==
    /\ up /\ t.active /\ ~ asked
    /\ t' = trigger_due[1] /\ asked' = trigger_due[2]
    /\ IF asked' /\ spec.kind = "timer"
       THEN record_timer_fire /\ served' = served \cup FiredFor
       ELSE UNCHANGED <<stamp, unsaved, served>>
    /\ UNCHANGED <<spec, clock, date, ticks, stops, up, target, file>>

\* The rest of progress_trigger_activation: a service that is not down is
\* left alone, and a start that fails is reported and forgotten.
Activate ==
    /\ up /\ asked
    /\ asked' = FALSE
    /\ \/ target = "down" /\ target' = "busy"
       \/ UNCHANGED target
    /\ UNCHANGED <<spec, clock, date, ticks, stops, up, t, file, stamp, served, unsaved>>

StartTrigger ==
    /\ up /\ ~ t.active /\ ~ asked
    /\ \E random \in 0..spec.randomized_delay, accuracy \in 0..spec.accuracy :
           t' = spawn_trigger(random, accuracy)
    /\ UNCHANGED <<spec, clock, date, ticks, stops, up, asked, target, file,
                   stamp, served, unsaved>>

StopTrigger ==
    /\ up /\ t.active /\ ~ asked
    /\ stops < MaxStops /\ stops' = stops + 1
    /\ t' = reset_trigger_state
    /\ UNCHANGED <<spec, clock, date, ticks, up, asked, target, file, stamp,
                   served, unsaved>>

Crash ==
    /\ up /\ stops < MaxStops /\ stops' = stops + 1
    /\ up' = FALSE /\ asked' = FALSE /\ t' = Inactive /\ target' = "down"
    /\ UNCHANGED <<spec, clock, date, ticks, file, stamp, served, unsaved>>

Boot ==
    /\ ~ up /\ up' = TRUE
    /\ UNCHANGED <<spec, clock, date, ticks, stops, t, asked, target, file,
                   stamp, served, unsaved>>

TargetEnds ==
    /\ target = "busy" /\ target' = "down"
    /\ UNCHANGED <<spec, clock, date, ticks, stops, up, t, asked, file, stamp,
                   served, unsaved>>

FileChanges ==
    /\ spec.kind = "path" /\ ~ asked
    /\ file' \in Files \ {file}
    /\ file'.exists \/ file' = Missing
    /\ UNCHANGED <<spec, clock, date, ticks, stops, up, t, asked, target, stamp,
                   served, unsaved>>

\* The calendar as everyone knows it.
Leap(y) == y % 4 = 0 /\ (y % 100 # 0 \/ y % 400 = 0)
MonthLength(y, m) == IF m = 2 THEN (IF Leap(y) THEN 29 ELSE 28)
                     ELSE IF m \in {4, 6, 9, 11} THEN 30 ELSE 31
NextDate(d) ==
    IF d.day < MonthLength(d.year, d.month)
    THEN [year |-> d.year, month |-> d.month, day |-> d.day + 1]
    ELSE IF d.month < 12 THEN [year |-> d.year, month |-> d.month + 1, day |-> 1]
    ELSE [year |-> d.year + 1, month |-> 1, day |-> 1]

Tick(seconds) ==
    /\ ticks < MaxTicks /\ ticks' = ticks + 1
    /\ spec.kind = "timer" /\ ~ asked
    /\ clock' = clock + seconds
    /\ date' = IF clock' \div Day > clock \div Day THEN NextDate(date) ELSE date
    /\ UNCHANGED <<spec, stops, up, t, asked, target, file, stamp, served, unsaved>>

Init ==
    /\ spec \in Specs
    /\ clock = spec.start.seconds /\ date = spec.start.date
    /\ ticks = 0 /\ stops = 0
    /\ up = TRUE /\ t = Inactive /\ asked = FALSE /\ target = "down"
    /\ file = Missing
    /\ stamp = Never /\ served = {} /\ unsaved = FALSE

Next ==
    \/ TriggerDue \/ Activate \/ StartTrigger \/ StopTrigger
    \/ Crash \/ Boot \/ TargetEnds \/ FileChanges
    \/ \E seconds \in Ticks : Tick(seconds)

Spec == Init /\ [][Next]_vars

\* daemon_loop polls for ever, and a daemon that runs carries a poll through:
\* weak fairness of a poll that changes something, and of the start.
PollPending == up /\ t.active /\ ~ asked /\ trigger_due # <<t, FALSE>>
FairSpec ==
    /\ Spec /\ WF_vars(Activate)
    /\ []<>(~ PollPending) \/ []<><<TriggerDue>>_vars

-----------------------------------------------------------------------------
(* Properties.                                                             *)

\* A trigger that is not active remembers nothing, and no file is from the future.
TypeOK ==
    /\ spec \in Specs /\ clock \in Nat /\ up \in BOOLEAN /\ asked \in BOOLEAN
    /\ target \in {"down", "busy"} /\ file \in Files
    /\ stamp \in {Never} \cup Nat /\ stamp <= clock
    /\ DOMAIN t = DOMAIN Inactive
    /\ ~ t.active => t = Inactive

\* civil_date is the calendar: the date it computes for the day of the clock
\* is the one reached by counting days, leap days included.
CivilDateIsRight == CivilTime(clock).date = date

\* The trigger is of its type and its calendar is the calendar.
TriggerInv == TypeOK /\ CivilDateIsRight

\* trigger_due fires at most once for an instant of an expression while the
\* timer runs: the bucket remembered in calendar_fires or calendar_pending
\* keeps the next poll in the same second from starting the service again.
OncePerInstant ==
    [][~ asked /\ asked' /\ spec.kind = "timer" /\ ~ (CatchUpDue \/ BootDue \/ RepeatDue)
         => \E i \in Indices : t'.fires[i] > t.fires[i]]_vars

\* A catch-up after a restart is for an instant that was missed: when the file
\* could always be written, a timer that has fired for every instant so far
\* does not fire again because the daemon or the timer was restarted. The
\* exception is a timer that has fired while its catch-up was put off for
\* accuracy: the catch-up then comes on top, even when the one instant missed
\* was the second in which the timer was started.
CatchUpIsOwed ==
    [][TriggerDue /\ CatchUpDue /\ ~ unsaved /\ t.last_fire = Never =>
          \/ Window(stamp, t.started) \ served # {}
          \/ LongAgo
          \/ \E d \in spec.repeat : t.started - stamp >= d
          \/ \E i \in Indices : second_precision(spec.on_calendar[i])]_vars

\* No instant is served twice, by polling again or by catching up.
FiresOnce == OncePerInstant /\ CatchUpIsOwed

\* Whether an instant on a whole minute was missed since the timer last fired.
Owes == /\ t.active /\ t.last_fire = Never /\ spec.persistent /\ stamp # Never
        /\ LongAgo \/ Window(stamp, t.started) \ served # {}
        /\ clock - t.started >= schedule_delay

\* A persistent timer catches up: when it comes up after a time in which it
\* should have fired, it fires.
CaughtUp == Owes ~> ~ Owes

\* What the watch waits for is there, and whether a poll has seen it.
Present == /\ up /\ t.active
           /\ \/ spec.watch \in {"exists", "exists_glob"} /\ file.exists
              \/ spec.watch = "directory_not_empty" /\ file.nonempty
SeenPresent == IF spec.watch = "directory_not_empty" THEN t.seen.nonempty ELSE t.seen.exists
Unseen == Present /\ (t.initial \/ ~ SeenPresent)

\* A path that comes into being, or a directory that is filled, before or
\* after the trigger is started, gets the service started, unless it is gone
\* again or the trigger is stopped before the next poll.
PathIsServed == Unseen ~> asked \/ ~ Present

\* Nothing a trigger waits for is passed over.
TriggersServe == CaughtUp /\ PathIsServed
=============================================================================
