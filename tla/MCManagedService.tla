--------------------------- MODULE MCManagedService ---------------------------
(***************************************************************************)
(* Descriptors for TLC.                                                    *)
(***************************************************************************)
EXTENDS ManagedService

Plain == [service_type |-> "Simple", restart |-> "Never", restart_limit |-> 1,
          remain_after_exit |-> FALSE, has_stop |-> FALSE,
          success_exit_status |-> {}, restart_prevent_exit_status |-> {},
          exec_conditions |-> FALSE, start_pre |-> FALSE, start_post |-> FALSE,
          stop_post |-> FALSE, reload |-> FALSE, main_ignore_failure |-> FALSE,
          start_timeout |-> TRUE, stop_timeout |-> TRUE,
          runtime_max |-> FALSE, watchdog |-> FALSE, oom_policy |-> "Continue", watched |-> FALSE,
          start_limit_burst |-> 0, kill_mode |-> "ControlGroup"]

OnFailure == [Plain EXCEPT !.restart = "OnFailure"]

Exits == {[kind |-> "Exited", status |-> 0], [kind |-> "Exited", status |-> 1]}

Everything ==
  {Plain, OnFailure,
   [OnFailure EXCEPT !.service_type = "Notify", !.watchdog = TRUE],
   [OnFailure EXCEPT !.service_type = "Dbus"],
   [OnFailure EXCEPT !.service_type = "Forking"],
   [Plain EXCEPT !.service_type = "Socket"],
   [Plain EXCEPT !.service_type = "Mount", !.remain_after_exit = TRUE, !.watched = TRUE],
   [Plain EXCEPT !.service_type = "Oneshot", !.remain_after_exit = TRUE, !.has_stop = TRUE],
   [OnFailure EXCEPT !.exec_conditions = TRUE],
   [OnFailure EXCEPT !.start_pre = TRUE],
   [OnFailure EXCEPT !.start_post = TRUE],
   [OnFailure EXCEPT !.has_stop = TRUE],
   [OnFailure EXCEPT !.stop_post = TRUE],
   [OnFailure EXCEPT !.reload = TRUE],
   [OnFailure EXCEPT !.runtime_max = TRUE],
   [Plain EXCEPT !.oom_policy = "Stop"],
   [OnFailure EXCEPT !.start_limit_burst = 2]}

\* Descriptors whose starts and stops are all timed: no helper that runs
\* without a deadline, and no launcher to wait for.
Timed ==
  {Plain, [OnFailure EXCEPT !.runtime_max = TRUE],
   [OnFailure EXCEPT !.service_type = "Notify", !.watchdog = TRUE],
   [OnFailure EXCEPT !.service_type = "Dbus"],
   [OnFailure EXCEPT !.start_post = TRUE],
   [Plain EXCEPT !.has_stop = TRUE],
   [Plain EXCEPT !.oom_policy = "Stop"]}

\* One descriptor for each disagreement between the code and its tests or docs.
Restarting == {OnFailure}
WithExecCondition == {[OnFailure EXCEPT !.exec_conditions = TRUE]}
WithStopPost == {[Plain EXCEPT !.stop_post = TRUE]}

Calls == {"conditions", "assertions", "prepare", "listen", "exec_condition", "start_pre",
          "main", "start_post", "stop", "stop_post", "reload", "attach"}
=============================================================================
