---------------------------- MODULE ManagedService ----------------------------
(***************************************************************************)
(* One supervised service.  The manager is single threaded: a request or a *)
(* poll runs to its end (ServiceMethods), and between two of them          *)
(* processes end, messages arrive and deadlines pass.                      *)
(***************************************************************************)
EXTENDS ServiceMethods

CONSTANTS Services,      \* descriptors
          MainExits,     \* how a main process may end
          Faults         \* calls that may fail

ASSUME ManagedAssumption ==
  /\ NoPid \notin Pids /\ \E p, q \in Pids : p # q
  /\ {0, 1, 124, 127} \subseteq Statuses
  /\ MaxGeneration \in Nat \ {0}
  /\ MainExits \subseteq R!ExitReason /\ NoExit \notin MainExits
  /\ \A s \in Services : s.start_limit_burst \in Nat

VARIABLES
  u,            \* the descriptor
  m,            \* the structure
  manager,      \* "up", or "down" after a poll returned Err
  clients,      \* somebody may still send requests
  stop_asked    \* the last request was a stop

vars == <<u, m, manager, clients, stop_asked>>

-----------------------------------------------------------------------------
(***************************************************************************)
(* The specification.                                                      *)
(***************************************************************************)
Init ==
  /\ u \in Services
  /\ m = new
  /\ manager = "up" /\ clients = TRUE /\ stop_asked = FALSE

\* A request is answered: its error goes to the client and is forgotten.
Answer(x) ==
  /\ clients
  /\ m' = [x EXCEPT !.err = FALSE]
  /\ UNCHANGED <<u, manager, clients>>

\* The calls that a service of this shape makes at all.
Makes(call) ==
  CASE call = "listen" -> u.service_type = "Socket"
    [] call = "attach" -> u.service_type = "Forking"
    [] call = "exec_condition" -> u.exec_conditions
    [] call = "start_pre" -> u.start_pre
    [] call = "start_post" -> u.start_post
    [] call = "stop" -> u.has_stop
    [] call = "stop_post" -> u.stop_post
    [] call = "reload" -> u.reload
    [] OTHER -> TRUE

Outcomes == {"none"} \cup {call \in Faults : Makes(call)}

StartRequested(f) == Answer(start(u, f, m)) /\ stop_asked' = FALSE

StopRequested(f) == Answer(stop_with_signal(u, f, m)) /\ stop_asked' = TRUE

RestartRequested(f) == Answer(restart(u, f, m)) /\ stop_asked' = FALSE

ReloadRequested(f) == Answer(reload(u, f, m)) /\ UNCHANGED stop_asked

ResetRequested == Answer(reset_failed(m)) /\ UNCHANGED stop_asked

JobTimedOut == Answer(mark_job_timeout(u, m)) /\ UNCHANGED stop_asked

\* An error of a poll ends the daemon's loop.
Poll(f) ==
  LET x == poll(u, f, refresh_lost_mount(u, m))
  IN  /\ m' = [x EXCEPT !.err = FALSE]
      /\ manager' = IF x.err THEN "down" ELSE "up"
      /\ UNCHANGED <<u, clients, stop_asked>>

World(x) == m' = x /\ UNCHANGED <<u, manager, clients, stop_asked>>

MainEnds(reason) ==
  /\ m.child = "alive"
  /\ World([m EXCEPT !.child = "ended", !.exit = reason])

HelperEnds(helper, outcome) ==
  /\ m[helper] = "running"
  /\ outcome = "skip" => helper = "exec_condition_helper"
  /\ World([m EXCEPT ![helper] = outcome])

Expires(deadline) == m[deadline] = "armed" /\ World([m EXCEPT ![deadline] = "due"])

Notified(message) ==
  /\ m.notify = "open" /\ m.child = "alive"
  /\ World([m EXCEPT !.notify = message])

OutOfMemory ==
  /\ u.oom_policy # "Continue"
  /\ m.child = "alive" /\ ~ m.oom
  /\ World([m EXCEPT !.oom = TRUE])

\* A mount point or a device disappears, or comes back.
TargetChanges == u.watched /\ World([m EXCEPT !.lost = ~ @])

\* A start leaves the window of the start limit.
AttemptAges == m.start_attempts > 0 /\ World([m EXCEPT !.start_attempts = @ - 1])

DaemonForked == m.forking_pending /\ ~ m.daemon /\ World([m EXCEPT !.daemon = TRUE])

DaemonEnds == m.daemon /\ World([m EXCEPT !.daemon = FALSE])

\* No request follows.
ClientsLeave ==
  /\ clients
  /\ clients' = FALSE
  /\ UNCHANGED <<u, m, manager, stop_asked>>

\* The manager is gone: nothing supervises the service any more.
Unsupervised == manager = "down" /\ UNCHANGED vars

Request ==
  \/ \E f \in Outcomes : \/ StartRequested(f) \/ StopRequested(f)
                         \/ RestartRequested(f) \/ ReloadRequested(f)
  \/ ResetRequested \/ JobTimedOut \/ ClientsLeave

Environment ==
  \/ \E reason \in MainExits : MainEnds(reason)
  \/ \E helper \in Helpers, outcome \in HelperOutcomes : HelperEnds(helper, outcome)
  \/ \E deadline \in Deadlines : Expires(deadline)
  \/ \E message \in {"READY=1", "WATCHDOG=1"} : Notified(message)
  \/ OutOfMemory \/ TargetChanges \/ AttemptAges \/ DaemonForked \/ DaemonEnds

Next ==
  \/ manager = "up" /\ (Request \/ (\E f \in Outcomes : Poll(f)) \/ Environment)
  \/ Unsupervised

Spec == Init /\ [][Next]_vars

-----------------------------------------------------------------------------
(***************************************************************************)
(* Properties.                                                             *)
(***************************************************************************)

\* Fields of a managed service, with the start limit never exceeded.
TypeOK ==
  /\ u \in Services
  /\ m.rec \in R!ServiceRecord
  /\ \A helper \in Helpers : m[helper] \in {"none", "running"} \cup HelperOutcomes
  /\ \A deadline \in Deadlines : m[deadline] \in Deadline
  /\ m.child \in {"none", "alive", "ended"} /\ m.exit \in MainExits \cup {NoExit}
  /\ m.signal \in {"none", "term", "abort", "kill"}
  /\ m.notify \in {"closed", "open", "READY=1", "WATCHDOG=1"}
  /\ m.start_attempts \in 0 .. u.start_limit_burst
  /\ ~ m.err
  /\ manager \in {"up", "down"} /\ clients \in BOOLEAN /\ stop_asked \in BOOLEAN

(***************************************************************************)
(* The record names a process exactly while the supervisor holds one, or   *)
(* waits for the daemon of a forking launcher: an exit is never met        *)
(* without a recorded pid (the first error of handle_exit), and no process *)
(* is dropped while it is alive.                                           *)
(***************************************************************************)
ProcessMatchesRecord ==
  m.rec.pid # NoPid <=> m.child # "none" \/ (m.forking_pending /\ m.forking_parent_exited)

(***************************************************************************)
(* The phases of a start do not overlap: ExecCondition, ExecStartPre and   *)
(* the main process run one after the other, whatever was stopped, timed   *)
(* out or asked for again in between.                                      *)
(***************************************************************************)
OneStartPhase ==
  \A a, b \in {"exec_condition_helper", "start_helper"} :
    m[a] = "running" => m.rec.pid = NoPid /\ (m[b] = "running" => a = b)

(***************************************************************************)
(* A service that waits for its restart and is still wanted has a time for *)
(* it (handle_exit, mark_spawn_failed, poll): it cannot be forgotten.      *)
(***************************************************************************)
BackoffIsScheduled ==
  m.rec.state = "Backoff" /\ m.wants_running => m.restart_at # "none"

(***************************************************************************)
(* After a stop request no poll brings the service up again, although      *)
(* restarts by policy, by a flag set earlier and after teardown are begun  *)
(* in three different places.                                              *)
(***************************************************************************)
StopWins == stop_asked => ~ Up(m)

(***************************************************************************)
(* The stop and reload commands run beside a main process and never        *)
(* outlive it: they are given its pid (kill_stop_command and               *)
(* kill_reload_command in handle_exit).                                    *)
(***************************************************************************)
CommandsHaveMain ==
  m.stop_command # "none" \/ m.reload_command # "none" => m.rec.pid # NoPid

(***************************************************************************)
(* "stop_escalates_to_kill": a process that is being stopped has a         *)
(* deadline before it, or SIGKILL behind it.                               *)
(***************************************************************************)
StopEscalates ==
  StoppingProcess(m) /\ u.stop_timeout /\ u.kill_mode # "None" =>
    m.stop_deadline # "none" \/ m.signal = "kill"

(***************************************************************************)
(* "start_timeout": every start, also an automatic one, runs against a     *)
(* deadline.                                                               *)
(***************************************************************************)
StartIsTimed ==
  m.rec.state = "Starting" /\ u.start_timeout => m.start_deadline # "none"

(***************************************************************************)
(* Deadlines exist while something is waited for, although a start and a   *)
(* stop pass through several phases that set and clear the same fields.    *)
(***************************************************************************)
DeadlinesArmed == StopEscalates /\ StartIsTimed

(***************************************************************************)
(* The fields of a managed service agree between any two steps, whatever   *)
(* call failed: process and record, the phases of a start, the commands    *)
(* beside the main process and the time of the next restart.               *)
(***************************************************************************)
ServiceInv ==
  TypeOK /\ ProcessMatchesRecord /\ OneStartPhase /\ CommandsHaveMain /\ BackoffIsScheduled

(***************************************************************************)
(* "FractalD then remains process 1": while no operating-system call       *)
(* fails, no poll of a service ends the manager.                           *)
(***************************************************************************)
ManagerSurvives == manager = "up"

-----------------------------------------------------------------------------
(***************************************************************************)
(* The service as the supervisor sees it.                                  *)
(***************************************************************************)
ExitSeen(r) ==
  IF r.state \notin {"Active", "Exited"} \/ r.last_exit = NoExit THEN "none"
  ELSE IF R!is_success(r.last_exit) THEN "ok" ELSE "bad"

view == [state |-> m.rec.state, ready |-> ready_for_dependency(u, m),
         wants |-> m.wants_running, again |-> m.restart_after_stop,
         stopped |-> is_stopped(m), exit |-> ExitSeen(m.rec)]

C == INSTANCE ServiceContract WITH view <- view, held <- stop_asked

(***************************************************************************)
(* Every request and every poll, with all that can happen between them,    *)
(* does to the service only what the supervisor counts on.                 *)
(***************************************************************************)
Contract == C!Spec

-----------------------------------------------------------------------------
(***************************************************************************)
(* Liveness.  The daemon polls in every turn of its loop, time passes, and *)
(* SIGKILL ends a process.  Nothing else is assumed: a process may ignore  *)
(* SIGTERM, a helper may hang, a notification may never come.              *)
(***************************************************************************)
Killed == m.signal = "kill" /\ \E reason \in MainExits : MainEnds(reason)

FairSpec ==
  /\ Spec
  /\ WF_vars(manager = "up" /\ Poll("none"))
  /\ \A deadline \in Deadlines : WF_vars(manager = "up" /\ Expires(deadline))
  /\ WF_vars(manager = "up" /\ Killed)

(***************************************************************************)
(* A process that is being stopped ends.  (Every stop request gives it its *)
(* full time again, so this is about the time after the last request.)     *)
(***************************************************************************)
StopEnds == ~ clients /\ StoppingProcess(m) ~> ~ StoppingProcess(m)

(***************************************************************************)
(* A service without a restart policy that was asked to stop becomes       *)
(* stopped in every respect the manager's shutdown waits for.              *)
(***************************************************************************)
StopSettles == ~ clients /\ stop_asked /\ u.restart = "Never" ~> is_stopped(m)

(***************************************************************************)
(* A start ends: the service runs, is skipped, fails or is stopped.        *)
(***************************************************************************)
StartEnds == ~ clients /\ m.rec.state = "Starting" ~> m.rec.state # "Starting"

(***************************************************************************)
(* A start or restart that was asked for during a stop is carried out, or  *)
(* called off by a later stop.                                             *)
(***************************************************************************)
AskedAgainComesBack ==
  ~ clients /\ m.restart_after_stop ~>
    Up(m) \/ m.rec.state \in {"Failed", "Skipped"} \/ ~ m.wants_running

(***************************************************************************)
(* Nothing hangs: stops end, starts end, a stopped service settles, and    *)
(* what was asked for during a stop comes.                                 *)
(***************************************************************************)
PhasesEnd == StopEnds /\ StopSettles /\ StartEnds /\ AskedAgainComesBack

=============================================================================
