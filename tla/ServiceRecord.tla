---------------------------- MODULE ServiceRecord ----------------------------
(***************************************************************************)
(* One service record and the processes behind it.                         *)
(*                                                                         *)
(* The record changes only by the transitions of ServiceTransitions.  Its  *)
(* owner (ManagedService in crates/fractald-supervisor) answers a Spawn    *)
(* with a process, a failure, an activation or a skip; reports exits; lets *)
(* deadlines fire; and forwards requests.  Here the owner is as slow as    *)
(* the generation field allows: a spawn may be answered, and an exit       *)
(* reported, after the record has moved on, and the kernel may reuse the   *)
(* pid of a process whose exit is still to be reported.                    *)
(***************************************************************************)
EXTENDS ServiceTransitions

CONSTANT Specs    \* descriptors the record may be created from

ASSUME SpecsAssumption == Specs \subseteq ServiceSpec

VARIABLES
  spec,           \* the record's descriptor
  rec,            \* the record
  spawning,       \* generations whose Spawn is not answered yet
  procs,          \* live main processes
  notices,        \* exits observed by the kernel and not yet reported
  told,           \* the recorded process has been asked to end
  stop_wanted,    \* a stop was carried out and no start was asked for since
  auto_restarts   \* automatic restarts since the last requested start

vars == <<spec, rec, spawning, procs, notices, told, stop_wanted, auto_restarts>>

Process == [pid : Pids, generation : Generations]
Notice == [pid : Pids, generation : Generations, reason : ExitReason]

\* The record, and the generations, processes and exits around it.
TypeOK ==
  /\ spec \in Specs
  /\ rec \in ServiceRecord
  /\ spawning \subseteq Generations
  /\ procs \subseteq Process
  /\ notices \subseteq Notice
  /\ told \in BOOLEAN
  /\ stop_wanted \in BOOLEAN
  /\ auto_restarts \in Nat

Init ==
  /\ spec \in Specs
  /\ rec = NewRecord
  /\ spawning = {} /\ procs = {} /\ notices = {}
  /\ told = FALSE /\ stop_wanted = FALSE /\ auto_restarts = 0

-----------------------------------------------------------------------------
(***************************************************************************)
(* Nothing in flight outlives the 2^64 generations that separate two uses  *)
(* of one generation.                                                      *)
(***************************************************************************)
NextGenerationUnused ==
  LET g == advance_generation(rec.generation)
  IN  /\ g \notin spawning
      /\ \A p \in procs : p.generation # g
      /\ \A n \in notices : n.generation # g

World == <<spawning, procs, notices>>
History == <<told, stop_wanted, auto_restarts>>

(***************************************************************************)
(* Start.                                                                  *)
(***************************************************************************)
StartRequested ==
  /\ start_ok(rec)
  /\ NextGenerationUnused
  /\ rec' = start(rec)
  /\ spawning' = spawning \cup {rec'.generation}
  /\ stop_wanted' = FALSE
  /\ auto_restarts' = 0
  /\ UNCHANGED <<spec, procs, notices, told>>

\* spawn_main: the child is forked and registered.
Spawned(g, pid) ==
  /\ g \in spawning
  /\ \A p \in procs : p.pid # pid
  /\ spawned_ok(rec, g)
  /\ rec' = spawned(spec, rec, pid)
  /\ procs' = procs \cup {[pid |-> pid, generation |-> g]}
  /\ spawning' = spawning \ {g}
  /\ told' = spawned_signals(rec)
  /\ UNCHANGED <<spec, notices, stop_wanted, auto_restarts>>

\* The record refuses the answer: a child is killed and reaped on the spot,
\* a failure or a skip is dropped.
AnswerRefused(g) ==
  /\ g \in spawning
  /\ ~ spawned_ok(rec, g)
  /\ spawning' = spawning \ {g}
  /\ UNCHANGED <<spec, rec, procs, notices, told, stop_wanted, auto_restarts>>

SpawnFailed(g) ==
  /\ g \in spawning
  /\ spawn_failed_ok(rec, g)
  /\ rec' = spawn_failed(spec, rec)
  /\ spawning' = spawning \ {g}
  /\ UNCHANGED <<spec, procs, notices, told, stop_wanted, auto_restarts>>

\* Sockets, timers and paths have no main process.
Activated(g) ==
  /\ g \in spawning
  /\ spec.service_type \in {"Socket", "Timer", "Path"}
  /\ activated_ok(rec, g)
  /\ rec' = activated(rec)
  /\ spawning' = spawning \ {g}
  /\ UNCHANGED <<spec, procs, notices, told, stop_wanted, auto_restarts>>

ConditionSkipped(g) ==
  /\ g \in spawning
  /\ condition_skipped_ok(rec, g)
  /\ rec' = condition_skipped(rec)
  /\ spawning' = spawning \ {g}
  /\ UNCHANGED <<spec, procs, notices, told, stop_wanted, auto_restarts>>

\* A false assertion: the Spawn is abandoned before any process exists.
AssertionFailed(g) ==
  /\ g \in spawning
  /\ start_failed_ok(rec, g)
  /\ NextGenerationUnused
  /\ rec' = start_failed(rec)
  /\ spawning' = spawning \ {g}
  /\ UNCHANGED <<spec, procs, notices, told, stop_wanted, auto_restarts>>

\* The main process reports readiness (notify socket or D-Bus name).
Ready(p) ==
  /\ spec.service_type \in {"Notify", "Dbus"}
  /\ p \in procs
  /\ ready_ok(rec, p.pid, p.generation)
  /\ rec' = ready(rec)
  /\ UNCHANGED <<spec, World, History>>

\* A forking launcher has ended successfully and left a daemon behind, which
\* takes its place.
Adopted(p, pid) ==
  /\ spec.service_type = "Forking"
  /\ p \in procs
  /\ \A other \in procs : other.pid # pid
  /\ p.pid = rec.pid
  /\ adopted_ok(rec, p.generation)
  /\ rec' = adopted(rec, pid)
  /\ procs' = (procs \ {p}) \cup {[p EXCEPT !.pid = pid]}
  /\ UNCHANGED <<spec, spawning, notices, History>>

\* ExecStartPost failed: the running process is told to end.
StartPostFailed(g) ==
  /\ rec.state = "Running"
  /\ start_failed_ok(rec, g)
  /\ NextGenerationUnused
  /\ rec' = start_failed(rec)
  /\ told' = (rec.pid # NoPid)
  /\ UNCHANGED <<spec, World, stop_wanted, auto_restarts>>

(***************************************************************************)
(* Stop and exit.                                                          *)
(***************************************************************************)
StopRequested ==
  /\ rec' = stop(rec)
  /\ rec' # rec
  /\ told' = IF rec'.state = "Stopping"
             THEN stop_signals(spec, rec) \/ (spec.has_stop /\ rec.pid # NoPid)
             ELSE told
  /\ stop_wanted' = TRUE
  /\ UNCHANGED <<spec, World, auto_restarts>>

\* The owner has cancelled the Spawn it was working on.
StopCompleted ==
  /\ stop_completed_ok(rec)
  /\ rec' = stop_completed(rec)
  /\ spawning' = spawning \ {rec.generation}
  /\ UNCHANGED <<spec, procs, notices, History>>

ProcessEnds(p, reason) ==
  /\ p \in procs
  /\ procs' = procs \ {p}
  /\ notices' = notices \cup
       {[pid |-> p.pid, generation |-> p.generation, reason |-> reason]}
  /\ UNCHANGED <<spec, rec, spawning, History>>

ExitReported(n) ==
  /\ n \in notices
  /\ notices' = notices \ {n}
  /\ rec' = IF exited_ok(rec, n.pid, n.generation)
            THEN exited(spec, rec, n.reason) ELSE rec
  /\ told' = (told /\ rec' = rec)
  /\ UNCHANGED <<spec, spawning, procs, stop_wanted, auto_restarts>>

(***************************************************************************)
(* Deadlines, limits and reset.                                            *)
(***************************************************************************)
StartTimedOut(g) ==
  /\ start_timed_out_ok(rec, g)
  /\ NextGenerationUnused
  /\ rec' = start_timed_out(rec)
  /\ told' = (rec.pid # NoPid)
  /\ UNCHANGED <<spec, World, stop_wanted, auto_restarts>>

JobTimedOut ==
  /\ job_timed_out_ok(rec)
  /\ NextGenerationUnused
  /\ rec' = job_timed_out(rec)
  /\ UNCHANGED <<spec, World, History>>

RuntimeTimedOut(g) ==
  /\ runtime_timed_out_ok(rec, g)
  /\ NextGenerationUnused
  /\ rec' = runtime_timed_out(rec)
  /\ told' = (rec.pid # NoPid)
  /\ UNCHANGED <<spec, World, stop_wanted, auto_restarts>>

StopTimedOut(g) ==
  /\ stop_timed_out_ok(rec, g)
  /\ NextGenerationUnused
  /\ rec' = stop_timed_out(rec)
  /\ told' = (told \/ stop_timed_out_signals(rec))
  /\ UNCHANGED <<spec, World, stop_wanted, auto_restarts>>

\* enforce_start_limit runs before a start, never while one is under way.
StartLimitHit(g) ==
  /\ rec.state # "Starting"
  /\ start_limit_hit_ok(rec, g)
  /\ NextGenerationUnused
  /\ rec' = start_limit_hit(rec)
  /\ UNCHANGED <<spec, World, History>>

RestartDue(g) ==
  /\ restart_due_ok(rec, g)
  /\ NextGenerationUnused
  /\ rec' = restart_due(rec)
  /\ spawning' = spawning \cup {rec'.generation}
  /\ auto_restarts' = auto_restarts + 1
  /\ UNCHANGED <<spec, procs, notices, told, stop_wanted>>

Reset ==
  /\ reset_ok(rec)
  /\ rec' = reset(rec)
  /\ UNCHANGED <<spec, World, History>>

-----------------------------------------------------------------------------
Answer ==
  \E g \in spawning :
    \/ \E pid \in Pids : Spawned(g, pid)
    \/ AnswerRefused(g) \/ SpawnFailed(g) \/ Activated(g)
    \/ ConditionSkipped(g) \/ AssertionFailed(g)

ProcessStep ==
  \E p \in procs :
    \/ Ready(p)
    \/ \E pid \in Pids : Adopted(p, pid)
    \/ \E reason \in ExitReason : ProcessEnds(p, reason)

Report == \E n \in notices : ExitReported(n)

Timer ==
  \E g \in Generations :
    \/ StartPostFailed(g) \/ StartTimedOut(g) \/ RuntimeTimedOut(g)
    \/ StopTimedOut(g) \/ StartLimitHit(g) \/ RestartDue(g)

Request == StartRequested \/ StopRequested \/ StopCompleted \/ JobTimedOut \/ Reset

Next == Answer \/ ProcessStep \/ Report \/ Timer \/ Request

Spec == Init /\ [][Next]_vars

-----------------------------------------------------------------------------
(***************************************************************************)
(* Properties.                                                             *)
(***************************************************************************)

(***************************************************************************)
(* A recorded pid belongs to a run that is not over: only Starting,        *)
(* Running and Stopping keep one, Running always has one, and the process  *)
(* is alive or its exit is still to be reported under the record's own     *)
(* generation.  (ServiceRecord.pid, used by send_signal and handle_exit.)  *)
(***************************************************************************)
PidIsCurrent ==
  /\ rec.pid # NoPid =>
       /\ rec.state \in {"Starting", "Running", "Stopping"}
       /\ \E x \in procs \cup notices :
            x.pid = rec.pid /\ x.generation = rec.generation
  /\ rec.state = "Running" => rec.pid # NoPid

(***************************************************************************)
(* A service has at most one main process and the record knows it: no      *)
(* late answer, stale exit or reused pid makes the record forget a process *)
(* that is still alive.                                                    *)
(***************************************************************************)
NoOrphan ==
  \A p \in procs : p.pid = rec.pid /\ p.generation = rec.generation

(***************************************************************************)
(* Between two requested starts the record restarts itself at most         *)
(* restart_limit times, over every mix of exits, failed starts and         *)
(* timeouts.                                                               *)
(***************************************************************************)
RestartBudget ==
  auto_restarts <= spec.restart_limit /\ rec.restart_count <= spec.restart_limit

(***************************************************************************)
(* A stop that was carried out is final: until the next requested start    *)
(* the record neither starts, runs nor waits for a restart, even when the  *)
(* process exits with a status its policy would restart.                   *)
(***************************************************************************)
StopIsFinal ==
  stop_wanted => rec.state \in {"Stopping", "Exited", "Failed", "Defined"}

(***************************************************************************)
(* A process of a stopping service has been asked to end, also when it was *)
(* spawned after the stop: otherwise the stop waits for its deadline.      *)
(***************************************************************************)
StoppingIsTold ==
  rec.state = "Stopping" /\ rec.pid # NoPid => told

(***************************************************************************)
(* A start or a run that failed while its process was alive is never       *)
(* reported as a clean stop: leaving Stopping with a failure recorded      *)
(* leads to Backoff or Failed (exited, stop, stop_completed,               *)
(* stop_timed_out).                                                        *)
(***************************************************************************)
FailureNotMasked ==
  [][/\ rec.state = "Stopping"
     /\ rec.start_failed \/ rec.runtime_failed
     /\ rec'.state # "Stopping"
     => rec'.state \in {"Backoff", "Failed"}]_vars

(***************************************************************************)
(* The inductive invariant of the properties above.                        *)
(***************************************************************************)

\* An unanswered Spawn belongs to no process, alive or waiting to be reported.
SpawnUnanswered ==
  \A g \in spawning :
    /\ \A p \in procs : p.generation # g
    /\ \A n \in notices : n.generation # g

\* An unreported exit is the exit of the recorded process, and the only one.
NoticeIsCurrent ==
  /\ \A n \in notices : n.pid = rec.pid /\ n.generation = rec.generation
  /\ \A m, n \in notices : m = n
  /\ procs = {} \/ notices = {}

\* A failure is recorded only while its process is being stopped, or for good.
FlagsMeanFailing ==
  rec.start_failed \/ rec.runtime_failed =>
    \/ rec.state = "Failed"
    \/ rec.state = "Stopping" /\ rec.pid # NoPid /\ ~ stop_wanted

\* Each automatic restart that happened has been charged.
RestartsCharged ==
  /\ rec.state \in {"Starting", "Running", "Stopping"} => auto_restarts <= rec.restart_count
  /\ rec.state = "Backoff" => auto_restarts < rec.restart_count

\* The part about processes and the part about what the record remembers.
ProcessInv == PidIsCurrent /\ NoOrphan /\ SpawnUnanswered /\ NoticeIsCurrent

MemoryInv ==
  FlagsMeanFailing /\ RestartBudget /\ RestartsCharged /\ StopIsFinal /\ StoppingIsTold

IInv == TypeOK /\ ProcessInv /\ MemoryInv

=============================================================================
