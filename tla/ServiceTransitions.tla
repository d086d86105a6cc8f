-------------------------- MODULE ServiceTransitions --------------------------
(***************************************************************************)
(* The transition rules of one service record (crates/fractald-core,       *)
(* ServiceRecord).  Every method of the record is a pair of operators:     *)
(* method_ok(...) is the condition under which `transition' returns Ok,    *)
(* and method(...) is the record it leaves behind.  When the condition is  *)
(* false the method returns an error and the record is unchanged.          *)
(*                                                                         *)
(* u is the descriptor (ServiceSpec), r the record.  The wording of errors *)
(* and the length of back-off delays are left out.  The actions a method   *)
(* returns are recovered from the step: Spawn from start and restart_due,  *)
(* ScheduleRestart from a step into Backoff, SendSignal from the operators *)
(* whose names end in _signals.                                            *)
(***************************************************************************)
EXTENDS Integers

CONSTANTS Pids,           \* process identifiers the kernel may hand out
          NoPid,          \* Option::None of the pid field
          NoExit,         \* Option::None of the last_exit field
          Statuses,       \* exit codes and signal numbers told apart
          MaxGeneration   \* largest generation (u64::MAX in the code)

ASSUME PidAssumption == NoPid \notin Pids
ASSUME StatusAssumption == Statuses \subseteq Int /\ {0, 1, 124, 127} \subseteq Statuses
ASSUME GenerationAssumption == MaxGeneration \in Nat /\ MaxGeneration >= 2

ServiceType == {"Simple", "Forking", "Oneshot", "Notify", "Dbus", "Idle",
                "Socket", "Timer", "Path", "Mount", "Swap"}

RestartPolicy == {"Never", "OnSuccess", "OnFailure", "OnAbnormal", "OnAbort", "Always"}

ServiceState == {"Defined", "Starting", "Running", "Active", "Stopping",
                 "Backoff", "Exited", "Skipped", "Failed"}

ExitReason == [kind : {"Exited", "Signaled", "CoreDumped"}, status : Statuses]

Exited(code) == [kind |-> "Exited", status |-> code]

Generations == 0 .. MaxGeneration

\* The fields of a descriptor that the record consults.
ServiceSpec == [service_type : ServiceType,
                restart : RestartPolicy,
                restart_limit : Nat,
                remain_after_exit : BOOLEAN,
                has_stop : BOOLEAN,
                success_exit_status : SUBSET Statuses,
                restart_prevent_exit_status : SUBSET Statuses]

ServiceRecord == [state : ServiceState,
                  pid : Pids \cup {NoPid},
                  generation : Generations,
                  restart_count : Nat,
                  last_exit : ExitReason \cup {NoExit},
                  start_failed : BOOLEAN,
                  runtime_failed : BOOLEAN]

NewRecord == [state |-> "Defined", pid |-> NoPid, generation |-> 0,
              restart_count |-> 0, last_exit |-> NoExit,
              start_failed |-> FALSE, runtime_failed |-> FALSE]

-----------------------------------------------------------------------------
(***************************************************************************)
(* Exit reasons, restart policies and generations.                         *)
(***************************************************************************)

is_success(reason) == reason.kind = "Exited" /\ reason.status = 0

is_signaled(reason) == reason.kind \in {"Signaled", "CoreDumped"}

should_restart(policy, reason) ==
  \/ policy = "Always"
  \/ policy = "OnSuccess" /\ is_success(reason)
  \/ policy = "OnFailure" /\ ~ is_success(reason)
  \/ policy = "OnAbnormal" /\ is_signaled(reason)
  \/ policy = "OnAbort" /\ reason.kind = "CoreDumped"

exit_status_matches(statuses, reason) == reason.status \in statuses

successful_exit(u, reason) ==
  is_success(reason) \/ exit_status_matches(u.success_exit_status, reason)

\* Mutant: the counter does not wrap.
advance_generation_overflow(g) == g + 1

\* checked_add(1).unwrap_or(1): the counter wraps past zero.
advance_generation(g) == IF g = MaxGeneration THEN 1 ELSE g + 1

check_generation(r, observed) == observed = r.generation

\* One automatic restart is charged to the budget and scheduled.
ScheduleRestart(r) ==
  [r EXCEPT !.state = "Backoff", !.restart_count = @ + 1]

\* The record comes to rest and its budget is restored.
AtRest(r, state) == [r EXCEPT !.state = state, !.restart_count = 0]

\* Mutant: one restart too many.
BudgetLeft_inclusive(u, r) == r.restart_count <= u.restart_limit

\* The budget test every restart path makes.
BudgetLeft(u, r) == r.restart_count < u.restart_limit

-----------------------------------------------------------------------------
(***************************************************************************)
(* Start: the request, and the possible answers to the Spawn it returns.   *)
(***************************************************************************)

\* Active is accepted too, but changes nothing.
start_ok(r) == r.state \in {"Defined", "Exited", "Skipped", "Failed", "Backoff"}

start(r) ==
  [r EXCEPT !.generation = advance_generation(@),
            !.state = "Starting",
            !.pid = NoPid,
            !.last_exit = NoExit,
            !.restart_count = 0,
            !.start_failed = FALSE,
            !.runtime_failed = FALSE]

\* Mutant: a late answer is accepted.
spawned_ok_stale(r, generation) == r.state \in {"Starting", "Stopping"}

spawned_ok(r, generation) ==
  /\ r.state \in {"Starting", "Stopping"}
  /\ check_generation(r, generation)

\* Notify and D-Bus services stay Starting until they report readiness.
spawned(u, r, pid) ==
  [r EXCEPT !.pid = pid,
            !.state = IF @ = "Starting" /\ u.service_type \notin {"Notify", "Dbus"}
                      THEN "Running" ELSE @]

\* Mutant: a process spawned after the stop is not told.
spawned_signals_none(r) == FALSE

spawned_signals(r) == r.state = "Stopping"

adopted_ok(r, generation) == r.state = "Running" /\ check_generation(r, generation)

adopted(r, pid) == [r EXCEPT !.pid = pid]

ready_ok(r, pid, generation) ==
  /\ r.state = "Starting"
  /\ check_generation(r, generation)
  /\ r.pid # NoPid /\ r.pid = pid

ready(r) == [r EXCEPT !.state = "Running"]

activated_ok(r, generation) == r.state = "Starting" /\ check_generation(r, generation)

activated(r) ==
  [r EXCEPT !.pid = NoPid, !.state = "Active", !.restart_count = 0, !.start_failed = FALSE]

spawn_failed_ok(r, generation) == r.state = "Starting" /\ check_generation(r, generation)

spawn_failed(u, r) ==
  LET failed == [r EXCEPT !.last_exit = Exited(127)]
  IN  IF should_restart(u.restart, Exited(127)) /\ BudgetLeft(u, r)
      THEN ScheduleRestart(failed)
      ELSE [failed EXCEPT !.state = "Failed"]

condition_skipped_ok(r, generation) ==
  r.state = "Starting" /\ check_generation(r, generation)

condition_skipped(r) ==
  [r EXCEPT !.pid = NoPid, !.state = "Skipped", !.restart_count = 0, !.start_failed = FALSE]

start_failed_ok(r, generation) ==
  r.state \in {"Starting", "Running"} /\ check_generation(r, generation)

start_failed(r) ==
  IF r.pid # NoPid
  THEN [r EXCEPT !.start_failed = TRUE, !.state = "Stopping"]
  ELSE [r EXCEPT !.start_failed = TRUE, !.state = "Failed",
                 !.generation = advance_generation(@)]

-----------------------------------------------------------------------------
(***************************************************************************)
(* Stop and exit.                                                          *)
(***************************************************************************)

\* A stop is always accepted; in the states not named it changes nothing.
stop(r) ==
  CASE r.state \in {"Starting", "Running"} ->
         [r EXCEPT !.state = "Stopping", !.start_failed = FALSE, !.runtime_failed = FALSE]
    [] r.state \in {"Active", "Backoff"} ->
         AtRest(r, "Exited")
    [] OTHER -> r

\* With a stop command the record sends no signal: the supervisor runs it.
stop_signals(u, r) ==
  r.state \in {"Starting", "Running"} /\ ~ u.has_stop /\ r.pid # NoPid

stop_completed_ok(r) == r.state = "Stopping" /\ r.pid = NoPid

stop_completed(r) ==
  [r EXCEPT !.state = "Exited", !.restart_count = 0,
            !.start_failed = FALSE, !.runtime_failed = FALSE]

exited_ok(r, pid, generation) ==
  /\ r.state \in {"Starting", "Running", "Stopping"}
  /\ check_generation(r, generation)
  /\ r.pid # NoPid /\ r.pid = pid

\* The policy, with restart_prevent_exit_status above it and
\* success_exit_status turning a failure into a success.
restarts_after(u, reason) ==
  /\ ~ exit_status_matches(u.restart_prevent_exit_status, reason)
  /\ IF successful_exit(u, reason) /\ ~ is_success(reason)
     THEN u.restart \in {"OnSuccess", "Always"}
     ELSE should_restart(u.restart, reason)

\* Mutant: a failed run that is being stopped counts as a clean stop.
exited_stopping_masked(u, r, gone) ==
  IF r.start_failed
  THEN IF should_restart(u.restart, Exited(1)) /\ BudgetLeft(u, r)
       THEN ScheduleRestart(gone)
       ELSE [gone EXCEPT !.state = "Failed"]
  ELSE AtRest(gone, "Exited")

\* A process that was being stopped has ended: a requested stop is a clean
\* exit, a stop after a failed start or run counts as exit status 1.
exited_stopping(u, r, gone) ==
  IF r.start_failed \/ r.runtime_failed
  THEN IF /\ ~ exit_status_matches(u.restart_prevent_exit_status, Exited(1))
          /\ should_restart(u.restart, Exited(1))
          /\ BudgetLeft(u, r)
       THEN ScheduleRestart(gone)
       ELSE [gone EXCEPT !.state = "Failed"]
  ELSE AtRest(gone, "Exited")

\* A process ended by itself.
exited_running(u, r, gone, reason) ==
  IF successful_exit(u, reason) /\ u.remain_after_exit
  THEN AtRest(gone, "Active")
  ELSE IF restarts_after(u, reason) /\ BudgetLeft(u, r)
       THEN ScheduleRestart(gone)
       ELSE IF successful_exit(u, reason)
            THEN AtRest(gone, "Exited")
            ELSE [gone EXCEPT !.state = "Failed"]

\* Mutant: the exit of a stopping process is treated like any other.
exited_unasked(u, r, reason) ==
  exited_running(u, r,
                 [r EXCEPT !.pid = NoPid, !.last_exit = reason,
                           !.start_failed = FALSE, !.runtime_failed = FALSE],
                 reason)

exited(u, r, reason) ==
  LET gone == [r EXCEPT !.pid = NoPid, !.last_exit = reason,
                        !.start_failed = FALSE, !.runtime_failed = FALSE]
  IN  IF r.state = "Stopping" THEN exited_stopping(u, r, gone)
                              ELSE exited_running(u, r, gone, reason)

-----------------------------------------------------------------------------
(***************************************************************************)
(* Deadlines, limits and reset.                                            *)
(***************************************************************************)

start_timed_out_ok(r, generation) == r.state = "Starting" /\ check_generation(r, generation)

start_timed_out(r) ==
  IF r.pid # NoPid
  THEN [r EXCEPT !.state = "Stopping", !.start_failed = TRUE]
  ELSE [r EXCEPT !.state = "Failed", !.start_failed = FALSE, !.runtime_failed = FALSE,
                 !.generation = advance_generation(@)]

job_timed_out_ok(r) == r.state \in {"Defined", "Exited", "Skipped", "Failed", "Backoff"}

job_timed_out(r) ==
  [r EXCEPT !.pid = NoPid, !.last_exit = Exited(124),
            !.start_failed = FALSE, !.runtime_failed = FALSE,
            !.restart_count = 0, !.state = "Failed",
            !.generation = advance_generation(@)]

runtime_timed_out_ok(r, generation) == r.state = "Running" /\ check_generation(r, generation)

runtime_timed_out(r) ==
  IF r.pid # NoPid
  THEN [r EXCEPT !.state = "Stopping", !.runtime_failed = TRUE]
  ELSE [r EXCEPT !.state = "Failed", !.runtime_failed = FALSE,
                 !.generation = advance_generation(@)]

stop_timed_out_ok(r, generation) == r.state = "Stopping" /\ check_generation(r, generation)

\* Mutant: the record gives the process up instead of waiting for its exit.
stop_timed_out_forgets(r) ==
  [r EXCEPT !.state = "Exited", !.generation = advance_generation(@)]

\* With a process the answer is SIGKILL and the record waits for its exit.
stop_timed_out(r) ==
  IF r.pid # NoPid
  THEN r
  ELSE [r EXCEPT !.state = "Exited", !.generation = advance_generation(@)]

stop_timed_out_signals(r) == r.pid # NoPid

start_limit_hit_ok(r, generation) ==
  /\ r.state \in {"Defined", "Starting", "Backoff", "Exited", "Skipped", "Failed"}
  /\ check_generation(r, generation)

start_limit_hit(r) ==
  [r EXCEPT !.pid = NoPid, !.last_exit = Exited(1),
            !.start_failed = FALSE, !.runtime_failed = FALSE,
            !.restart_count = 0, !.state = "Failed",
            !.generation = advance_generation(@)]

restart_due_ok(r, generation) == r.state = "Backoff" /\ check_generation(r, generation)

restart_due(r) ==
  [r EXCEPT !.generation = advance_generation(@), !.state = "Starting"]

reset_ok(r) == r.state \in {"Defined", "Exited", "Skipped", "Failed"}

reset(r) == [NewRecord EXCEPT !.generation = r.generation]

=============================================================================
