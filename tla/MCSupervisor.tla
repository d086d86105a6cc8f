------------------------------ MODULE MCSupervisor ------------------------------
(***************************************************************************)
(* Small instances of Supervisor: three services.                          *)
(***************************************************************************)
EXTENDS Supervisor

MCNames == 1 .. 3

None == [n \in Names |-> {}]

NoAction == [n \in Names |-> 0]

\* Three simple services that have nothing to do with each other.
Unrelated ==
  [loaded |-> Names, requires |-> None, binds_to |-> None, mounts |-> None,
   wants |-> None, wanted_mounts |-> None, after |-> None, before |-> None,
   requisite |-> None, conflicts |-> None, part_of |-> None,
   on_failure |-> None, on_success |-> None, activates |-> None,
   kind |-> [n \in Names |-> "Simple"],
   refuse_manual_start |-> {}, refuse_manual_stop |-> {},
   stop_when_unneeded |-> {}, mounted |-> {},
   allow_isolate |-> {}, ignore_on_isolate |-> {},
   job_timeout |-> {}, job_timeout_action |-> NoAction,
   failure_action |-> NoAction, success_action |-> NoAction]

\* 1 requires 2, which comes after 3, which 1 only wants.
Ordered ==
  [Unrelated EXCEPT !.requires[1] = {2}, !.wants[1] = {3}, !.after[2] = {3},
                    !.kind[2] = "Notify", !.kind[3] = "Oneshot",
                    !.refuse_manual_start = {2, 3},
                    !.job_timeout = {1}, !.job_timeout_action[1] = 2]

\* 1 conflicts with 2, and 3 requires 1.
Conflicting ==
  [Unrelated EXCEPT !.conflicts[1] = {2}, !.requires[3] = {1},
                    !.refuse_manual_stop = {1, 2}, !.kind[1] = "Notify",
                    !.allow_isolate = {2}, !.ignore_on_isolate = {3}]

\* 1 is bound to 2, 3 is part of 2 and handles its failure.
Bound ==
  [Unrelated EXCEPT !.binds_to[1] = {2}, !.part_of[3] = {2}, !.on_failure[2] = {3},
                    !.stop_when_unneeded = {2}, !.kind[2] = "Notify"]

\* 1 accepts connections for 2, which a timer starts too.
Activated ==
  [Unrelated EXCEPT !.kind = <<"Accept", "Oneshot", "Trigger">>,
                    !.activates = <<{2}, {}, {2}>>, !.requisite[2] = {1},
                    !.success_action[2] = 1]

\* 1 is a socket of 2 and 3 follows a success of 2.
Listening ==
  [Unrelated EXCEPT !.kind = <<"Socket", "Oneshot", "Oneshot">>,
                    !.activates = <<{2}, {}, {}>>, !.on_success[2] = {3}]

After(state, wants, exit) ==
  [NewView EXCEPT !.state = state, !.wants = wants, !.exit = exit,
                  !.stopped = state \in Resting, !.ready = (state = "Running")]

Case(method, view) == [method |-> method, view |-> view, err |-> FALSE]

Failing(method, view) == [method |-> method, view |-> view, err |-> TRUE]

MCSurprises ==
  {Case("poll", After("Running", TRUE, "none")),
   Case("poll", After("Exited", TRUE, "ok")),
   Case("poll", After("Failed", TRUE, "none")),
   Case("poll", After("Backoff", TRUE, "none")),
   Case("refresh_lost_mount", After("Exited", FALSE, "none")),
   Case("start", After("Skipped", TRUE, "none")),
   Failing("start", After("Failed", FALSE, "none")),
   Case("restart", After("Failed", FALSE, "none")),
   Failing("accept", NewView)}

MCRegistries == {Ordered, Conflicting, Bound, Activated, Listening}

\* No service is started by the end of another.
Quiet == {Ordered, Conflicting, [Bound EXCEPT !.on_failure = None], Activated}

\* No service waits to be restarted.
Decided == {s \in MCSurprises : s.view.state # "Backoff"}

OnlyBound == {Bound}

=============================================================================
