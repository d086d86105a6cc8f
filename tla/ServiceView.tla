------------------------------ MODULE ServiceView ------------------------------
(***************************************************************************)
(* A managed service as the supervisor sees it, and what each method of    *)
(* ManagedService may do to this view: may_m(v, w) holds when the method m *)
(* may turn the view v into w.  ManagedService implements ServiceContract, *)
(* which is made of these relations, and Supervisor relies on nothing else *)
(* about its services.                                                     *)
(***************************************************************************)

ServiceState == {"Defined", "Starting", "Running", "Active", "Stopping",
                 "Backoff", "Exited", "Skipped", "Failed"}

View == [state : ServiceState,
         ready : BOOLEAN,            \* ready_for_dependency
         wants : BOOLEAN,            \* wants_running
         again : BOOLEAN,            \* restart_after_stop
         stopped : BOOLEAN,          \* is_stopped
         exit : {"none", "ok", "bad"}]   \* last_exit of an active or exited service

NewView == [state |-> "Defined", ready |-> FALSE, wants |-> FALSE, again |-> FALSE,
            stopped |-> TRUE, exit |-> "none"]

Resting == {"Defined", "Exited", "Skipped", "Failed"}

service_was_up(v) == v.state \in {"Starting", "Running", "Active"}

WellFormed(v) ==
  /\ v.ready => v.state = "Running"
  /\ v.stopped => v.state \in Resting
  /\ v.exit # "none" => v.state \in {"Active", "Exited"}

-----------------------------------------------------------------------------

\* The same but for the wishes, and perhaps for what was left to be cleaned up.
SameState(v, w) ==
  /\ w.state = v.state /\ w.ready = v.ready /\ w.exit = v.exit
  /\ v.stopped => w.stopped

\* A start was begun; beyond the start limit it also ends being wanted.
Begun(w) ==
  /\ w.state \in {"Starting", "Running", "Active", "Skipped", "Failed", "Backoff"}
  /\ w.wants \/ w.state = "Failed"

\* A start that has to wait until the previous run is torn down.
Postponed(v, w) ==
  /\ v.state = "Stopping" \/ (v.state = "Exited" /\ ~ v.stopped)
  /\ w = [v EXCEPT !.wants = TRUE, !.again = TRUE]

may_start(v, w) ==
  IF service_was_up(v) THEN w = [v EXCEPT !.wants = TRUE, !.again = FALSE]
  ELSE \/ Postponed(v, w)
       \/ v.state # "Stopping" /\ Begun(w) /\ ~ w.again

\* Without a process the stop is complete at once.
Stopped(v, w) ==
  CASE v.state \in {"Starting", "Running"} -> w.state \in {"Stopping", "Exited"}
    [] v.state \in {"Active", "Backoff"} -> w.state = "Exited"
    [] OTHER -> SameState(v, w)

may_stop(v, w) == Stopped(v, w) /\ ~ w.wants /\ ~ w.again

\* A restart stops what is up, and starts it at once or when it has ended.
may_restart(v, w) ==
  IF service_was_up(v) \/ v.state = "Backoff"
  THEN \/ w.state \in {"Stopping", "Exited"} /\ w.wants /\ w.again
       \/ Begun(w)
       \/ v.state = "Active" /\ may_stop(v, w)
  ELSE \/ Postponed(v, w)
       \/ v.state # "Stopping" /\ Begun(w)

may_time_out(v, w) ==
  /\ ~ w.wants /\ ~ w.again
  /\ CASE v.state \in {"Starting", "Running"} -> w.state \in {"Stopping", "Failed"}
       [] v.state \in {"Stopping", "Active"} -> SameState(v, w)
       [] OTHER -> w.state = "Failed"

may_reset(v, w) ==
  /\ w.wants = v.wants /\ w.again = v.again
  /\ IF v.state = "Failed" THEN w.state = "Defined" ELSE SameState(v, w)

\* A mount point or a device is found lost.
may_refresh(v, w) ==
  \/ w = v
  \/ v.state = "Active" /\ w.state = "Exited" /\ ~ w.wants /\ w.again = v.again

\* A poll neither makes a service wanted nor brings an unwanted one up.  A
\* service at rest comes up only for a start that was postponed.
may_poll(v, w) ==
  /\ w.wants => v.wants
  /\ w.again => v.again
  /\ CASE v.state \in {"Defined", "Skipped", "Failed"} -> SameState(v, w)
       [] v.state = "Active" -> SameState(v, w) \/ w.state = "Exited"
       [] v.state = "Exited" -> SameState(v, w) \/ (v.wants /\ v.again /\ Begun(w))
       [] v.state = "Backoff" -> SameState(v, w) \/ (v.wants /\ Begun(w))
       [] v.state = "Stopping" -> \/ w.state \in {"Stopping", "Exited", "Failed", "Backoff"}
                                  \/ v.wants /\ v.again /\ Begun(w)
       [] OTHER -> w.state # "Defined"

=============================================================================
