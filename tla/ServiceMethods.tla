---------------------------- MODULE ServiceMethods ----------------------------
(***************************************************************************)
(* The methods of crates/fractald-supervisor, ManagedService.  It owns a   *)
(* record (ServiceTransitions), the main process, the helper processes of  *)
(* ExecCondition, ExecStartPre, ExecStartPost, ExecStop, ExecStopPost and  *)
(* ExecReload, and the deadlines.                                          *)
(*                                                                         *)
(* A method is an operator from the structure x to the structure it leaves *)
(* behind, whose field err says that the method returned Err.  s is the    *)
(* descriptor, and f the one operating-system call of the step that fails, *)
(* or "none".  What a poll observes it observes as of its beginning.       *)
(***************************************************************************)
EXTENDS Integers

CONSTANTS Pids, NoPid, NoExit, Statuses, MaxGeneration   \* see ServiceTransitions

R == INSTANCE ServiceTransitions

Deadline == {"none", "armed", "due"}

HelperOutcomes == {"ok", "skip", "fail"}

Helpers == {"exec_condition_helper", "start_helper", "start_post_helper",
            "active_stop_helper", "stop_post_helper", "stop_command",
            "reload_command", "dbus_probe"}

Deadlines == {"start_deadline", "stop_deadline", "runtime_deadline",
              "watchdog_deadline", "restart_at"}

new == [rec |-> R!NewRecord, err |-> FALSE,
        wants_running |-> FALSE, restart_after_stop |-> FALSE,
        child |-> "none", exit |-> NoExit, signal |-> "none",
        forking_pending |-> FALSE, forking_parent_exited |-> FALSE,
        adopted |-> FALSE, daemon |-> FALSE,
        notify |-> "closed", dbus_ready |-> TRUE, oom |-> FALSE, lost |-> FALSE,
        exec_conditions_done |-> FALSE, reload_failed |-> FALSE,
        prepared |-> FALSE, start_attempts |-> 0,
        exec_condition_helper |-> "none", start_helper |-> "none",
        start_post_helper |-> "none", active_stop_helper |-> "none",
        stop_post_helper |-> "none", stop_command |-> "none",
        reload_command |-> "none", dbus_probe |-> "none",
        start_deadline |-> "none", stop_deadline |-> "none",
        runtime_deadline |-> "none", watchdog_deadline |-> "none",
        restart_at |-> "none"]

-----------------------------------------------------------------------------
(***************************************************************************)
(* Building blocks.                                                        *)
(***************************************************************************)

Err(x) == [x EXCEPT !.err = TRUE]

\* F applied to the value of x, which is evaluated once.
With(x, F(_)) == CHOOSE r \in {F(y) : y \in {x}} : TRUE

\* The `?' operator: go on with F unless x is an error.
Try(x, F(_)) == With(x, LAMBDA y : IF y.err THEN y ELSE F(y))

\* Commit a transition of the record, or return its error.
Commit(x, ok, rec) == IF ok THEN [x EXCEPT !.rec = rec] ELSE Err(x)

timeout_deadline(finite) == IF finite THEN "armed" ELSE "none"

Up(x) == x.rec.state \in {"Starting", "Running", "Active"}

StoppingProcess(x) == x.rec.state = "Stopping" /\ x.rec.pid # NoPid

\* The strongest signal the main process has received.
send_signal(s, x, signal) ==
  IF s.kill_mode = "None" \/ x.signal = "kill" THEN x ELSE [x EXCEPT !.signal = signal]

SignalIf(wanted, s, x, signal) == IF wanted THEN send_signal(s, x, signal) ELSE x

cleanup_directories(x) == [x EXCEPT !.prepared = FALSE]

kill(x, helpers) == [field \in DOMAIN x |-> IF field \in helpers THEN "none" ELSE x[field]]

arm_runtime_limit(s, x) == [x EXCEPT !.runtime_deadline = timeout_deadline(s.runtime_max)]

arm_watchdog(s, x) == [x EXCEPT !.watchdog_deadline = timeout_deadline(s.watchdog)]

\* Mutant: a start asked for earlier survives.
CallOff_keeps_restart(x) ==
  kill([x EXCEPT !.restart_at = "none", !.runtime_deadline = "none"], {"dbus_probe"})

\* What a stop and a job timeout begin with: nothing is wanted any more.
CallOff(x) ==
  kill([x EXCEPT !.wants_running = FALSE, !.restart_after_stop = FALSE,
                 !.restart_at = "none", !.runtime_deadline = "none"],
       {"dbus_probe"})

\* Give a stopping process its time to end.
arm_stop_deadline(s, x) ==
  IF StoppingProcess(x) THEN [x EXCEPT !.stop_deadline = timeout_deadline(s.stop_timeout)] ELSE x

\* The record began to stop a process: signal it, and give it its time.
EndProcess(s, x) == arm_stop_deadline(s, SignalIf(StoppingProcess(x), s, x, "term"))

\* A restart by policy waits for its delay.
ArmRestart(x) ==
  IF ~ x.err /\ x.rec.state = "Backoff" THEN [x EXCEPT !.restart_at = "armed"] ELSE x

-----------------------------------------------------------------------------
(***************************************************************************)
(* Spawning.                                                               *)
(***************************************************************************)

mark_spawn_failed(s, x) ==
  ArmRestart(Commit(cleanup_directories(kill(x, {"exec_condition_helper"})),
                    R!spawn_failed_ok(x.rec, x.rec.generation), R!spawn_failed(s, x.rec)))

spawn_start_post(s, f, x) ==
  IF ~ s.start_post \/ x.start_post_helper # "none" THEN x
  ELSE IF f = "start_post" THEN Err(send_signal(s, x, "term"))
  ELSE [x EXCEPT !.start_post_helper = "running"]

\* Mutant: only the deadline of a requested start is used.
StartDeadline_requested(s, deadline) == deadline

\* A start that has no deadline yet gets one with its process.
StartDeadline(s, deadline) ==
  IF deadline = "none" THEN timeout_deadline(s.start_timeout) ELSE deadline

\* Services whose readiness comes after their process.
Late(s) == s.service_type \in {"Forking", "Dbus"}

\* The process is there, and the record knows it.
MainSpawned(s, x, rec) ==
  [x EXCEPT !.rec = rec,
            !.child = "alive", !.signal = "none",
            !.forking_pending = (s.service_type = "Forking"),
            !.forking_parent_exited = FALSE,
            !.notify = IF s.service_type = "Notify" \/ s.watchdog THEN "open" ELSE "closed",
            !.dbus_ready = (s.service_type # "Dbus"),
            !.watchdog_deadline = "none",
            !.runtime_deadline =
               timeout_deadline(rec.state = "Running" /\ ~ Late(s) /\ s.runtime_max),
            !.oom = FALSE,
            !.start_deadline = StartDeadline(s, @)]

spawn_main(s, f, x) ==
  IF f = "main" THEN Err(mark_spawn_failed(s, x))
  ELSE IF ~ R!spawned_ok(x.rec, x.rec.generation) THEN Err(x)
  ELSE With(MainSpawned(s, x, R!spawned(s, x.rec, CHOOSE pid \in Pids : TRUE)),
            LAMBDA y : IF Late(s) THEN y ELSE spawn_start_post(s, f, y))

\* Sockets, timers and paths have no process of their own.
Activate(x) ==
  Try(Commit(x, R!activated_ok(x.rec, x.rec.generation), R!activated(x.rec)),
      LAMBDA y : [y EXCEPT !.start_deadline = "none"])

spawn(s, f, x) ==
  IF s.service_type = "Socket" /\ f = "listen" THEN Err(mark_spawn_failed(s, x))
  ELSE IF s.service_type \in {"Socket", "Timer", "Path"} THEN Activate(x)
  ELSE IF s.exec_conditions /\ ~ x.exec_conditions_done
  THEN IF f = "exec_condition" THEN Err(mark_spawn_failed(s, x))
       ELSE [x EXCEPT !.exec_condition_helper = "running"]
  ELSE IF s.start_pre
  THEN IF f = "start_pre" THEN Err(mark_spawn_failed(s, x))
       ELSE [x EXCEPT !.start_helper = "running"]
  ELSE spawn_main(s, f, x)

spawn_stop_post(s, f, x) ==
  IF ~ s.stop_post THEN x
  ELSE [x EXCEPT !.stop_post_helper = IF f = "stop_post" THEN "none" ELSE "running"]

\* Directories, credentials and the private /tmp go when nothing needs them.
CleanUnless(x, helper) == IF x[helper] = "none" THEN cleanup_directories(x) ELSE x

-----------------------------------------------------------------------------
(***************************************************************************)
(* Requests.                                                               *)
(***************************************************************************)

enforce_start_limit(s, x) ==
  IF s.start_limit_burst = 0 THEN x
  ELSE IF x.start_attempts < s.start_limit_burst
  THEN [x EXCEPT !.start_attempts = @ + 1]
  ELSE IF R!start_limit_hit_ok(x.rec, x.rec.generation)
  THEN Err([cleanup_directories(x) EXCEPT !.rec = R!start_limit_hit(@),
                                          !.wants_running = FALSE,
                                          !.restart_at = "none"])
  ELSE Err(x)

\* The part of start that follows the record's transition.
BeginStart(s, f, x) ==
  IF f = "conditions"
  THEN [x EXCEPT !.rec = R!condition_skipped(@), !.start_deadline = "none"]
  ELSE IF f = "assertions"
  THEN [x EXCEPT !.rec = R!start_failed(@), !.start_deadline = "none"]
  ELSE IF f = "prepare"
  THEN Err(mark_spawn_failed(s, [x EXCEPT !.exec_conditions_done = FALSE]))
  ELSE spawn(s, f, [x EXCEPT !.exec_conditions_done = FALSE, !.prepared = TRUE,
                             !.start_deadline = timeout_deadline(s.start_timeout)])

start(s, f, x) ==
  LET y == [x EXCEPT !.wants_running = TRUE, !.restart_after_stop = FALSE, !.restart_at = "none"]
  IN  IF Up(x) THEN y
      ELSE IF \/ x.rec.state = "Stopping"
              \/ /\ x.rec.state = "Exited"
                 /\ x.active_stop_helper # "none" \/ x.stop_post_helper # "none"
      THEN [y EXCEPT !.restart_after_stop = TRUE]
      ELSE Try(enforce_start_limit(s, y),
               LAMBDA z : BeginStart(s, f, [z EXCEPT !.runtime_deadline = "none",
                                                     !.rec = R!start(@)]))

\* A start that was asked for while the service was still being torn down.
maybe_start_after_teardown(s, f, x) ==
  IF /\ x.restart_after_stop /\ x.wants_running
     /\ x.rec.state = "Exited"
     /\ x.active_stop_helper = "none" /\ x.stop_post_helper = "none"
  THEN start(s, f, x) ELSE x

\* The record stops, and its process is signalled unless a command does it.
StopRecord(s, x) ==
  SignalIf(R!stop_signals(s, x.rec), s, [CallOff(x) EXCEPT !.rec = R!stop(@)], "term")

\* Nothing was spawned yet: the stop is complete.
CompleteUnspawned(x) ==
  IF ~ R!stop_completed_ok(x.rec) THEN x
  ELSE [kill(x, {"exec_condition_helper", "start_helper", "start_post_helper"})
          EXCEPT !.rec = R!stop_completed(@), !.start_deadline = "none"]

\* An active service has no process: its stop command runs on its own.
StopActive(s, f, was_active, x) ==
  IF ~ (was_active /\ x.rec.state = "Exited") THEN x
  ELSE IF ~ s.has_stop THEN spawn_stop_post(s, f, x)
  ELSE IF f = "stop" THEN Err(x)
  ELSE [x EXCEPT !.active_stop_helper = "running",
                 !.stop_deadline = timeout_deadline(s.stop_timeout)]

ReleaseAtRest(x) ==
  IF x.rec.state = "Exited" /\ x.active_stop_helper = "none"
  THEN CleanUnless(x, "stop_post_helper") ELSE x

StopCommand(s, f, x) ==
  IF x.rec.pid = NoPid \/ ~ s.has_stop THEN x
  ELSE IF f = "stop" THEN send_signal(s, x, "term")
  ELSE [x EXCEPT !.stop_command = "running"]

stop_with_signal(s, f, x) ==
  Try(StopActive(s, f, x.rec.state = "Active", CompleteUnspawned(StopRecord(s, x))),
      LAMBDA y : arm_stop_deadline(s, [StopCommand(s, f, ReleaseAtRest(y))
                                         EXCEPT !.stop_deadline = "none"]))

restart(s, f, x) ==
  LET y == [x EXCEPT !.wants_running = TRUE, !.restart_at = "none"]
      again(z) == IF z.rec.state = "Exited" THEN start(s, f, z)
                  ELSE [z EXCEPT !.wants_running = TRUE, !.restart_after_stop = TRUE]
  IN  CASE x.rec.state \in {"Running", "Starting"} -> Try(stop_with_signal(s, f, y), again)
        [] x.rec.state = "Stopping" -> [y EXCEPT !.restart_after_stop = TRUE]
        [] x.rec.state = "Backoff" -> start(s, f, [y EXCEPT !.rec = R!stop(@)])
        [] x.rec.state = "Active" ->
             Try(stop_with_signal(s, f, y), LAMBDA z : start(s, f, z))
        [] OTHER -> start(s, f, y)

reload(s, f, x) ==
  IF x.rec.state # "Running" \/ ~ s.reload THEN Err(x)
  ELSE IF x.reload_command # "none" THEN x
  ELSE IF f = "reload" THEN Err([x EXCEPT !.reload_failed = FALSE])
  ELSE [x EXCEPT !.reload_failed = FALSE, !.reload_command = "running"]

reset_failed(x) ==
  IF x.rec.state # "Failed" THEN x
  ELSE [cleanup_directories(x) EXCEPT !.rec = R!reset(@), !.start_attempts = 0,
                                      !.runtime_deadline = "none"]

\* The start job the service belongs to has run out of time.
mark_job_timeout(s, x) ==
  LET y == CallOff(x)
      failing(rec) ==
        LET z == kill([y EXCEPT !.rec = rec, !.start_deadline = "none"],
                      {"start_helper", "exec_condition_helper", "start_post_helper"})
        IN  EndProcess(s, z)
  IN  CASE R!job_timed_out_ok(x.rec) ->
             [cleanup_directories(y) EXCEPT !.rec = R!job_timed_out(@), !.start_deadline = "none"]
        [] x.rec.state = "Starting" -> failing(R!start_timed_out(x.rec))
        [] x.rec.state = "Running" -> failing(R!start_failed(x.rec))
        [] OTHER -> y

-----------------------------------------------------------------------------
(***************************************************************************)
(* Poll: what has ended, arrived or expired, in the order of the code.     *)
(***************************************************************************)

\* The service has reported readiness.
BecomeReady(s, f, x) ==
  Try(Commit(x, R!ready_ok(x.rec, x.rec.pid, x.rec.generation), R!ready(x.rec)),
      LAMBDA y : spawn_start_post(s, f,
                   [arm_runtime_limit(s, y) EXCEPT !.start_deadline = "none"]))

observe_notify(s, f, x) ==
  LET read == [x EXCEPT !.notify = IF @ = "closed" THEN @ ELSE "open"]
  IN  CASE x.notify = "READY=1" /\ x.rec.pid # NoPid /\ x.rec.state = "Starting" ->
             BecomeReady(s, f, arm_watchdog(s, read))
        [] x.notify = "WATCHDOG=1" /\ x.rec.state = "Running" -> arm_watchdog(s, read)
        [] OTHER -> read

observe_dbus(s, f, x) ==
  IF s.service_type # "Dbus" \/ x.dbus_ready \/ x.rec.state # "Starting" THEN x
  ELSE CASE x.dbus_probe = "running" -> x
         [] x.dbus_probe = "ok" ->
              BecomeReady(s, f, [x EXCEPT !.dbus_probe = "none",
                                          !.dbus_ready = (x.rec.pid # NoPid)])
         [] OTHER -> [x EXCEPT !.dbus_probe = "running"]

check_oom(s, f, x) ==
  LET y == [x EXCEPT !.oom = FALSE]
  IN  IF ~ x.oom \/ x.rec.state # "Running" \/ s.oom_policy = "Continue" THEN y
      ELSE IF s.oom_policy = "Stop" THEN stop_with_signal(s, f, y)
      ELSE [y EXCEPT !.signal = "kill"]

check_watchdog(s, x) ==
  IF x.rec.state # "Running" \/ x.watchdog_deadline # "due" THEN x
  ELSE send_signal(s, [x EXCEPT !.watchdog_deadline = "none"], "abort")

check_runtime_limit(s, x) ==
  IF x.rec.state # "Running" \/ x.runtime_deadline # "due" THEN x
  ELSE EndProcess(s, [x EXCEPT !.runtime_deadline = "none", !.rec = R!runtime_timed_out(@)])

\* A start helper that outlived a stop request completes the stop.
CompleteStop(x) ==
  Try(Commit(x, R!stop_completed_ok(x.rec), R!stop_completed(x.rec)),
      LAMBDA y : [y EXCEPT !.start_deadline = "none"])

handle_exec_condition_exit(s, f, x) ==
  LET y == [x EXCEPT !.exec_condition_helper = "none"]
      ended == [y EXCEPT !.start_deadline = "none"]
  IN  IF x.rec.state = "Stopping" THEN Try(CompleteStop(y), cleanup_directories)
      ELSE CASE x.exec_condition_helper = "ok" ->
                  LET z == [y EXCEPT !.exec_conditions_done = TRUE]
                  IN  IF z.rec.state = "Starting" THEN spawn(s, f, z) ELSE z
             [] x.exec_condition_helper = "skip" ->
                  Try(Commit(ended, R!condition_skipped_ok(x.rec, x.rec.generation),
                                    R!condition_skipped(x.rec)),
                      cleanup_directories)
             [] OTHER -> mark_spawn_failed(s, ended)

handle_start_helper_exit(s, f, x) ==
  LET y == [x EXCEPT !.start_helper = "none"]
  IN  IF x.rec.state = "Stopping" THEN CompleteStop(y)
      ELSE IF x.start_helper # "ok"
      THEN mark_spawn_failed(s, [y EXCEPT !.start_deadline = "none"])
      ELSE IF x.rec.state = "Starting" THEN spawn_main(s, f, y) ELSE y

handle_start_post_exit(s, x) ==
  LET y == [x EXCEPT !.start_post_helper = "none"]
  IN  IF x.start_post_helper = "ok" \/ x.rec.state # "Running" THEN y
      ELSE EndProcess(s, [y EXCEPT !.rec = R!start_failed(@), !.start_deadline = "none",
                                   !.stop_deadline = "none"])

\* The stop command of an active service has ended, or was given up.
AfterActiveStop(s, f, x) ==
  maybe_start_after_teardown(s, f,
    CleanUnless(spawn_stop_post(s, f, [x EXCEPT !.active_stop_helper = "none",
                                                !.stop_deadline = "none"]),
                "stop_post_helper"))

handle_stop_post_exit(s, f, x) ==
  maybe_start_after_teardown(s, f,
    cleanup_directories([x EXCEPT !.stop_post_helper = "none", !.stop_deadline = "none"]))

handle_reload_exit(x) ==
  [x EXCEPT !.reload_failed = (x.reload_command # "ok"), !.reload_command = "none"]

handle_stop_exit(s, x) ==
  LET y == [x EXCEPT !.stop_command = "none"]
  IN  IF y.rec.pid = NoPid THEN y ELSE send_signal(s, y, "term")

\* Go on with F within the start limit; beyond it the error is only logged.
UnlessLimited(s, x, F(_)) ==
  With(enforce_start_limit(s, x), LAMBDA y : IF y.err THEN [y EXCEPT !.err = FALSE] ELSE F(y))

\* What follows the exit of the main process: a restart by policy waits for
\* its delay, a restart asked for during the stop begins at once.
RestartAfterExit(s, f, x) ==
  IF x.rec.state = "Backoff" /\ x.wants_running THEN ArmRestart(x)
  ELSE IF ~ (x.restart_after_stop /\ x.wants_running) THEN x
  ELSE UnlessLimited(s, [x EXCEPT !.restart_after_stop = FALSE],
         LAMBDA y : IF R!start_ok(y.rec) THEN spawn(s, f, [y EXCEPT !.rec = R!start(@)]) ELSE y)

\* Mutant: a launcher that was given up is still waited for.
ProcessGone_keeps_forking(x) ==
  [kill(x, {"stop_command", "reload_command", "dbus_probe"})
     EXCEPT !.child = "none", !.exit = NoExit, !.signal = "none",
            !.adopted = FALSE, !.start_deadline = "none", !.stop_deadline = "none"]

\* What belonged to the process goes with it.
ProcessGone(x) ==
  [kill(x, {"stop_command", "reload_command", "dbus_probe"})
     EXCEPT !.reload_failed = @ \/ x.reload_command # "none",
            !.child = "none", !.exit = NoExit, !.signal = "none",
            !.forking_pending = FALSE, !.forking_parent_exited = FALSE,
            !.adopted = FALSE, !.notify = "closed", !.dbus_ready = TRUE,
            !.watchdog_deadline = "none", !.runtime_deadline = "none",
            !.oom = FALSE, !.start_deadline = "none", !.stop_deadline = "none"]

handle_exit(s, f, x, exit) ==
  LET reason == IF s.main_ignore_failure THEN R!Exited(0) ELSE exit
      teardown(y) == IF y.rec.state = "Active" THEN y
                     ELSE CleanUnless(spawn_stop_post(s, f, y), "stop_post_helper")
  IN  IF x.rec.pid = NoPid THEN Err(x)
      ELSE Try(Commit(ProcessGone(x), R!exited_ok(x.rec, x.rec.pid, x.rec.generation),
                                      R!exited(s, x.rec, reason)),
               LAMBDA y : RestartAfterExit(s, f, teardown(y)))

\* The launcher of a forking service is gone; its daemon is taken over as
\* soon as it is found, and given up at the start deadline.
try_adopt_forking(s, f, x) ==
  IF ~ x.daemon
  THEN IF x.start_deadline = "due" THEN handle_exit(s, f, x, R!Exited(1)) ELSE x
  ELSE LET pid == CHOOSE p \in Pids : p # x.rec.pid
       IN  Try(Commit(x, R!adopted_ok(x.rec, x.rec.generation), R!adopted(x.rec, pid)),
               LAMBDA y :
           IF f = "attach" THEN Err([y EXCEPT !.daemon = FALSE])
           ELSE spawn_start_post(s, f,
                  arm_runtime_limit(s, [y EXCEPT !.child = "alive", !.daemon = FALSE,
                                                 !.adopted = TRUE,
                                                 !.forking_pending = FALSE,
                                                 !.forking_parent_exited = FALSE,
                                                 !.start_deadline = "none"])))

\* The kernel reports no status for a process that is not our child.
observe_exit(s, f, x) ==
  LET exit == IF x.adopted THEN R!Exited(1) ELSE x.exit
  IN  IF x.child # "ended" THEN x
      ELSE IF x.forking_pending /\ ~ x.forking_parent_exited /\ R!is_success(exit)
      THEN try_adopt_forking(s, f, [x EXCEPT !.child = "none", !.exit = NoExit,
                                                !.forking_parent_exited = TRUE])
      ELSE handle_exit(s, f, x, exit)

\* Mutant: the deadline passes and nothing happens.
check_stop_deadline_silent(s, x) ==
  IF x.stop_deadline # "due" THEN x ELSE [x EXCEPT !.stop_deadline = "none"]

\* The process did not end in time: SIGKILL.
check_stop_deadline(s, x) ==
  IF x.rec.state # "Stopping" \/ x.stop_deadline # "due" THEN x
  ELSE kill(SignalIf(R!stop_timed_out_signals(x.rec), s,
                     [x EXCEPT !.rec = R!stop_timed_out(@), !.stop_deadline = "none"], "kill"),
            {"start_helper", "exec_condition_helper", "start_post_helper",
             "dbus_probe", "stop_command"})

check_active_stop_deadline(s, f, x) ==
  IF x.rec.state # "Exited" \/ x.active_stop_helper = "none" \/ x.stop_deadline # "due"
  THEN x ELSE AfterActiveStop(s, f, x)

check_start_deadline(s, x) ==
  IF x.rec.state # "Starting" \/ x.start_deadline # "due" THEN x
  ELSE EndProcess(s, kill([x EXCEPT !.rec = R!start_timed_out(@), !.start_deadline = "none"],
                          {"start_helper", "start_post_helper", "dbus_probe"}))

check_restart_due(s, f, x) ==
  IF ~ (x.wants_running /\ x.rec.state = "Backoff" /\ x.restart_at = "due") THEN x
  ELSE UnlessLimited(s, [x EXCEPT !.restart_at = "none"],
                     LAMBDA y : spawn(s, f, [y EXCEPT !.rec = R!restart_due(@)]))

\* Act on a helper only when it has ended.
WhenEnded(x, helper, F(_)) ==
  Try(x, LAMBDA y : IF y[helper] \in {"none", "running"} THEN y ELSE F(y))

\* A mount point or a device of an active service has gone away.
refresh_lost_mount(s, x) ==
  IF ~ (s.watched /\ x.lost /\ x.rec.state = "Active") THEN x
  ELSE [cleanup_directories(x) EXCEPT !.wants_running = FALSE, !.rec = R!stop(@)]

poll(s, f, x0) ==
  LET a == observe_notify(s, f, x0)
      b == Try(a, LAMBDA x : observe_dbus(s, f, x))
      c == Try(b, LAMBDA x : check_oom(s, f, x))
      d == Try(c, LAMBDA x : check_runtime_limit(s, check_watchdog(s, x)))
      e == WhenEnded(d, "exec_condition_helper", LAMBDA x : handle_exec_condition_exit(s, f, x))
      g == WhenEnded(e, "start_helper", LAMBDA x : handle_start_helper_exit(s, f, x))
      h == WhenEnded(g, "start_post_helper", LAMBDA x : handle_start_post_exit(s, x))
      i == WhenEnded(h, "active_stop_helper", LAMBDA x : AfterActiveStop(s, f, x))
      j == WhenEnded(i, "stop_post_helper", LAMBDA x : handle_stop_post_exit(s, f, x))
      k == WhenEnded(j, "reload_command", handle_reload_exit)
      l == WhenEnded(k, "stop_command", LAMBDA x : handle_stop_exit(s, x))
      n == Try(l, LAMBDA x : observe_exit(s, f, x))
      o == Try(n, LAMBDA x : IF x.forking_pending /\ x.forking_parent_exited
                             THEN try_adopt_forking(s, f, x) ELSE x)
      p == Try(o, LAMBDA x : check_active_stop_deadline(s, f, check_stop_deadline(s, x)))
      q == Try(p, LAMBDA x : check_start_deadline(s, x))
  IN  Try(q, LAMBDA x : check_restart_due(s, f, x))

\* What the manager waits for before it shuts down.
is_stopped(x) ==
  /\ x.child = "none"
  /\ ~ x.forking_pending /\ ~ x.forking_parent_exited /\ ~ x.adopted
  /\ x.notify = "closed" /\ x.watchdog_deadline = "none"
  /\ \A helper \in Helpers : x[helper] = "none"
  /\ x.rec.state \in {"Defined", "Exited", "Skipped", "Failed"}
  /\ x.restart_at = "none" /\ x.runtime_deadline = "none"
  /\ ~ x.prepared

\* What a job waits for before it starts the dependents.  A Notify service is
\* Running only after its READY=1.
ready_for_dependency(s, x) ==
  /\ x.rec.state = "Running" /\ ~ x.forking_pending /\ x.start_post_helper = "none"
  /\ s.service_type \notin {"Oneshot", "Mount", "Swap"}
  /\ s.service_type = "Dbus" => x.dbus_ready

=============================================================================
