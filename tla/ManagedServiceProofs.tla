------------------------ MODULE ManagedServiceProofs ------------------------
(***************************************************************************)
(* Proofs about ManagedService: for every set of descriptors, of process   *)
(* identifiers and of exits, and whatever call fails, the fields of the    *)
(* structure agree between any two steps.  Each method of ServiceMethods   *)
(* has a lemma of its own, in the order of that module.                    *)
(***************************************************************************)
EXTENDS ManagedService, TLAPS

-----------------------------------------------------------------------------
(***************************************************************************)
(* The inductive invariant, of a structure x and its descriptor s.         *)
(***************************************************************************)

Fields == DOMAIN new

HelperValue == {"none", "running"} \cup HelperOutcomes

Typed(s, x) ==
  /\ x = [field \in Fields |-> x[field]]
  /\ x.rec \in R!ServiceRecord
  /\ \A helper \in Helpers : x[helper] \in HelperValue
  /\ \A deadline \in Deadlines : x[deadline] \in Deadline
  /\ x.child \in {"none", "alive", "ended"}
  /\ x.exit \in MainExits \cup {NoExit}
  /\ x.signal \in {"none", "term", "abort", "kill"}
  /\ x.notify \in {"closed", "open", "READY=1", "WATCHDOG=1"}
  /\ x.start_attempts \in 0 .. s.start_limit_burst

\* ExecCondition has been passed, or there is none.
Passed(s, x) == x.exec_conditions_done \/ ~ s.exec_conditions

\* The state of the record, its pid, the process and its commands.
ProcessLinked(x) ==
  /\ x.rec.pid # NoPid => x.rec.state \in {"Starting", "Running", "Stopping"}
  /\ x.rec.state \in {"Running", "Stopping"} => x.rec.pid # NoPid
  /\ x.rec.pid # NoPid <=> x.child # "none" \/ (x.forking_pending /\ x.forking_parent_exited)
  /\ x.forking_pending => x.rec.pid # NoPid
  /\ x.child = "ended" => x.exit \in MainExits
  /\ x.stop_command # "none" \/ x.reload_command # "none" => x.rec.pid # NoPid

\* The phases of a start: a condition that outlived its start holds back
\* the next one, until its own has passed.
PhasesLinked(s, x) ==
  /\ x.exec_condition_helper # "none" => ~ Passed(s, x)
  /\ x.start_helper # "none" => x.rec.state = "Starting" /\ x.rec.pid = NoPid /\ Passed(s, x)
  /\ x.rec.pid # NoPid => Passed(s, x)

RestartLinked(x) == x.rec.state = "Backoff" /\ x.wants_running => x.restart_at # "none"

\* All but the time of the next restart, which a start takes away.
Coherent(s, x) == Typed(s, x) /\ ProcessLinked(x) /\ PhasesLinked(s, x)

Sound(s, x) == Coherent(s, x) /\ RestartLinked(x)

\* The fields that Sound relates to the record and to each other are the same.
Around(x, y) ==
  /\ y.child = x.child /\ y.exit = x.exit
  /\ y.forking_pending = x.forking_pending
  /\ y.forking_parent_exited = x.forking_parent_exited
  /\ y.stop_command = x.stop_command /\ y.reload_command = x.reload_command
  /\ y.exec_condition_helper = x.exec_condition_helper
  /\ y.start_helper = x.start_helper
  /\ y.exec_conditions_done = x.exec_conditions_done
  /\ y.wants_running = x.wants_running /\ y.restart_after_stop = x.restart_after_stop
  /\ y.restart_at = x.restart_at

\* And so is the record.
Agree(x, y) == y.rec = x.rec /\ Around(x, y)

\* A step from x to y makes nothing wanted, and brings up only what is.
Quiet(x, y) ==
  /\ y.wants_running => x.wants_running
  /\ y.restart_after_stop => x.restart_after_stop
  /\ Up(y) => Up(x) \/ x.wants_running

Goes(s, x, y) == Sound(s, y) /\ Quiet(x, y)

\* A start has begun, and nothing of it runs yet.
Launchable(s, x) ==
  /\ Sound(s, x) /\ ~ x.err
  /\ x.rec.state = "Starting" /\ x.rec.pid = NoPid /\ x.start_helper = "none"

-----------------------------------------------------------------------------
(***************************************************************************)
(* Records and structures.                                                 *)
(***************************************************************************)

(***************************************************************************)
(* The fields of a managed service.                                        *)
(***************************************************************************)
LEMMA FieldsAre ==
  Fields = {"rec", "err", "wants_running", "restart_after_stop", "child", "exit", "signal",
            "forking_pending", "forking_parent_exited", "adopted", "daemon", "notify",
            "dbus_ready", "oom", "lost", "exec_conditions_done", "reload_failed", "prepared",
            "start_attempts", "exec_condition_helper", "start_helper", "start_post_helper",
            "active_stop_helper", "stop_post_helper", "stop_command", "reload_command",
            "dbus_probe", "start_deadline", "stop_deadline", "runtime_deadline",
            "watchdog_deadline", "restart_at"}
BY DEF Fields, new

(***************************************************************************)
(* What the transitions of a record that begin or end a start leave.       *)
(***************************************************************************)
LEMMA StartTransitions ==
  ASSUME NEW s, NEW r \in R!ServiceRecord, NEW pid \in Pids
  PROVE  /\ R!start(r) \in R!ServiceRecord
         /\ R!start(r).state = "Starting" /\ R!start(r).pid = NoPid
         /\ R!spawned(s, r, pid) \in R!ServiceRecord
         /\ R!spawned(s, r, pid).pid = pid
         /\ R!spawned(s, r, pid).state \in {r.state, "Running"}
         /\ R!adopted(r, pid) \in R!ServiceRecord
         /\ R!adopted(r, pid).pid = pid /\ R!adopted(r, pid).state = r.state
         /\ R!ready(r) \in R!ServiceRecord
         /\ R!ready(r).pid = r.pid /\ R!ready(r).state = "Running"
         /\ R!activated(r) \in R!ServiceRecord
         /\ R!activated(r).pid = NoPid /\ R!activated(r).state = "Active"
         /\ R!restart_due(r) \in R!ServiceRecord
         /\ R!restart_due(r).pid = r.pid /\ R!restart_due(r).state = "Starting"
         /\ R!condition_skipped(r) \in R!ServiceRecord
         /\ R!condition_skipped(r).pid = NoPid /\ R!condition_skipped(r).state = "Skipped"
<1>1. R!advance_generation(r.generation) \in R!Generations
  BY ManagedAssumption DEF R!ServiceRecord, R!Generations, R!advance_generation
<1>2. 0 \in Nat
  OBVIOUS
<1>3. R!start(r) \in R!ServiceRecord /\ R!start(r).state = "Starting" /\ R!start(r).pid = NoPid
  BY <1>1, <1>2 DEF R!start, R!ServiceRecord, R!ServiceState
<1>4. /\ R!spawned(s, r, pid) \in R!ServiceRecord
      /\ R!spawned(s, r, pid).pid = pid
      /\ R!spawned(s, r, pid).state \in {r.state, "Running"}
  BY DEF R!spawned, R!ServiceRecord, R!ServiceState
<1>5. /\ R!adopted(r, pid) \in R!ServiceRecord
      /\ R!adopted(r, pid).pid = pid /\ R!adopted(r, pid).state = r.state
      /\ R!ready(r) \in R!ServiceRecord
      /\ R!ready(r).pid = r.pid /\ R!ready(r).state = "Running"
  BY DEF R!adopted, R!ready, R!ServiceRecord, R!ServiceState
<1>6. /\ R!activated(r) \in R!ServiceRecord
      /\ R!activated(r).pid = NoPid /\ R!activated(r).state = "Active"
  BY <1>2 DEF R!activated, R!ServiceRecord, R!ServiceState
<1>7. /\ R!restart_due(r) \in R!ServiceRecord
      /\ R!restart_due(r).pid = r.pid /\ R!restart_due(r).state = "Starting"
  BY <1>1 DEF R!restart_due, R!ServiceRecord, R!ServiceState
<1>8. /\ R!condition_skipped(r) \in R!ServiceRecord
      /\ R!condition_skipped(r).pid = NoPid /\ R!condition_skipped(r).state = "Skipped"
  BY <1>2 DEF R!condition_skipped, R!ServiceRecord, R!ServiceState
<1> QED BY <1>3, <1>4, <1>5, <1>6, <1>7, <1>8

(***************************************************************************)
(* The synthetic exit statuses are exit reasons.                           *)
(***************************************************************************)
LEMMA ExitedType == \A c \in {0, 1, 124, 127} : R!Exited(c) \in R!ExitReason
BY ManagedAssumption DEF R!Exited, R!ExitReason

(***************************************************************************)
(* What the transitions that report a failure leave.                       *)
(***************************************************************************)
LEMMA FailTransitions ==
  ASSUME NEW s, NEW r \in R!ServiceRecord
  PROVE  /\ R!spawn_failed(s, r) \in R!ServiceRecord
         /\ R!spawn_failed(s, r).pid = r.pid
         /\ R!spawn_failed(s, r).state \in {"Backoff", "Failed"}
         /\ R!start_failed(r) \in R!ServiceRecord
         /\ R!start_failed(r).pid = r.pid
         /\ R!start_failed(r).state = IF r.pid # NoPid THEN "Stopping" ELSE "Failed"
         /\ R!start_timed_out(r) \in R!ServiceRecord
         /\ R!start_timed_out(r).pid = r.pid
         /\ R!start_timed_out(r).state = IF r.pid # NoPid THEN "Stopping" ELSE "Failed"
         /\ R!runtime_timed_out(r) \in R!ServiceRecord
         /\ R!runtime_timed_out(r).pid = r.pid
         /\ R!runtime_timed_out(r).state = IF r.pid # NoPid THEN "Stopping" ELSE "Failed"
         /\ R!job_timed_out(r) \in R!ServiceRecord
         /\ R!job_timed_out(r).pid = NoPid /\ R!job_timed_out(r).state = "Failed"
         /\ R!start_limit_hit(r) \in R!ServiceRecord
         /\ R!start_limit_hit(r).pid = NoPid /\ R!start_limit_hit(r).state = "Failed"
         /\ R!reset(r) \in R!ServiceRecord
         /\ R!reset(r).pid = NoPid /\ R!reset(r).state = "Defined"
<1>1. r.restart_count + 1 \in Nat
  BY DEF R!ServiceRecord
<1>2. R!advance_generation(r.generation) \in R!Generations
  BY ManagedAssumption DEF R!ServiceRecord, R!Generations, R!advance_generation
<1>3. 0 \in Nat /\ r.generation \in R!Generations
  BY DEF R!ServiceRecord
<1>4. /\ R!spawn_failed(s, r) \in R!ServiceRecord
      /\ R!spawn_failed(s, r).pid = r.pid
      /\ R!spawn_failed(s, r).state \in {"Backoff", "Failed"}
  <2> DEFINE failed == [r EXCEPT !.last_exit = R!Exited(127)]
  <2>1. /\ failed \in R!ServiceRecord /\ failed.pid = r.pid
        /\ failed.restart_count + 1 \in Nat
    BY <1>1, ExitedType DEF R!ServiceRecord
  <2>2. \/ R!spawn_failed(s, r) = R!ScheduleRestart(failed)
        \/ R!spawn_failed(s, r) = [failed EXCEPT !.state = "Failed"]
    BY DEF R!spawn_failed
  <2> HIDE DEF failed
  <2>3. CASE R!spawn_failed(s, r) = R!ScheduleRestart(failed)
    BY <2>1, <2>3 DEF R!ScheduleRestart, R!ServiceRecord, R!ServiceState
  <2>4. CASE R!spawn_failed(s, r) = [failed EXCEPT !.state = "Failed"]
    BY <2>1, <2>4 DEF R!ServiceRecord, R!ServiceState
  <2> QED BY <2>2, <2>3, <2>4
<1>5. /\ R!start_failed(r) \in R!ServiceRecord
      /\ R!start_failed(r).pid = r.pid
      /\ R!start_failed(r).state = IF r.pid # NoPid THEN "Stopping" ELSE "Failed"
      /\ R!start_timed_out(r) \in R!ServiceRecord
      /\ R!start_timed_out(r).pid = r.pid
      /\ R!start_timed_out(r).state = IF r.pid # NoPid THEN "Stopping" ELSE "Failed"
      /\ R!runtime_timed_out(r) \in R!ServiceRecord
      /\ R!runtime_timed_out(r).pid = r.pid
      /\ R!runtime_timed_out(r).state = IF r.pid # NoPid THEN "Stopping" ELSE "Failed"
  BY <1>2 DEF R!start_failed, R!start_timed_out, R!runtime_timed_out, R!ServiceRecord, R!ServiceState
<1>6. /\ R!job_timed_out(r) \in R!ServiceRecord
      /\ R!job_timed_out(r).pid = NoPid /\ R!job_timed_out(r).state = "Failed"
      /\ R!start_limit_hit(r) \in R!ServiceRecord
      /\ R!start_limit_hit(r).pid = NoPid /\ R!start_limit_hit(r).state = "Failed"
  BY <1>2, ExitedType DEF R!job_timed_out, R!start_limit_hit, R!ServiceRecord, R!ServiceState
<1>7. /\ R!reset(r) \in R!ServiceRecord
      /\ R!reset(r).pid = NoPid /\ R!reset(r).state = "Defined"
  BY <1>3 DEF R!reset, R!NewRecord, R!ServiceRecord, R!ServiceState
<1> QED BY <1>4, <1>5, <1>6, <1>7

(***************************************************************************)
(* What the transitions of a stop leave.                                   *)
(***************************************************************************)
LEMMA StopTransitions ==
  ASSUME NEW s, NEW r \in R!ServiceRecord
  PROVE  /\ R!stop(r) \in R!ServiceRecord
         /\ R!stop(r).pid = r.pid
         /\ R!stop(r).state = CASE r.state \in {"Starting", "Running"} -> "Stopping"
                                [] r.state \in {"Active", "Backoff"} -> "Exited"
                                [] OTHER -> r.state
         /\ R!stop_completed(r) \in R!ServiceRecord
         /\ R!stop_completed(r).pid = r.pid /\ R!stop_completed(r).state = "Exited"
         /\ R!stop_timed_out(r) \in R!ServiceRecord
         /\ R!stop_timed_out(r).pid = r.pid
         /\ R!stop_timed_out(r).state = IF r.pid # NoPid THEN r.state ELSE "Exited"
<1>1. R!advance_generation(r.generation) \in R!Generations
  BY ManagedAssumption DEF R!ServiceRecord, R!Generations, R!advance_generation
<1>2. /\ R!stop(r) \in R!ServiceRecord
      /\ R!stop(r).pid = r.pid
      /\ R!stop(r).state = CASE r.state \in {"Starting", "Running"} -> "Stopping"
                             [] r.state \in {"Active", "Backoff"} -> "Exited"
                             [] OTHER -> r.state
  BY DEF R!stop, R!AtRest, R!ServiceRecord, R!ServiceState
<1>3. /\ R!stop_completed(r) \in R!ServiceRecord
      /\ R!stop_completed(r).pid = r.pid /\ R!stop_completed(r).state = "Exited"
      /\ R!stop_timed_out(r) \in R!ServiceRecord
      /\ R!stop_timed_out(r).pid = r.pid
      /\ R!stop_timed_out(r).state = IF r.pid # NoPid THEN r.state ELSE "Exited"
  BY <1>1 DEF R!stop_completed, R!stop_timed_out, R!ServiceRecord, R!ServiceState
<1> QED BY <1>2, <1>3

(***************************************************************************)
(* What an exit leaves: a process that was being stopped does not leave an *)
(* active service, and no other does without RemainAfterExit.              *)
(***************************************************************************)
LEMMA ExitTransition ==
  ASSUME NEW s, NEW r \in R!ServiceRecord, NEW reason \in R!ExitReason
  PROVE  /\ R!exited(s, r, reason) \in R!ServiceRecord
         /\ R!exited(s, r, reason).pid = NoPid
         /\ R!exited(s, r, reason).state \in {"Active", "Exited", "Failed", "Backoff"}
         /\ R!exited(s, r, reason).state = "Active" =>
              r.state # "Stopping" /\ s.remain_after_exit
<1> DEFINE gone == [r EXCEPT !.pid = NoPid, !.last_exit = reason,
                             !.start_failed = FALSE, !.runtime_failed = FALSE]
<1>1. gone \in R!ServiceRecord /\ gone.pid = NoPid
  BY DEF R!ServiceRecord
<1>2. R!exited(s, r, reason) = IF r.state = "Stopping" THEN R!exited_stopping(s, r, gone)
                               ELSE R!exited_running(s, r, gone, reason)
  BY DEF R!exited
<1> HIDE DEF gone
<1>3. \/ R!exited(s, r, reason) = R!ScheduleRestart(gone)
      \/ R!exited(s, r, reason) = [gone EXCEPT !.state = "Failed"]
      \/ R!exited(s, r, reason) = R!AtRest(gone, "Exited")
      \/ /\ R!exited(s, r, reason) = R!AtRest(gone, "Active")
         /\ r.state # "Stopping" /\ s.remain_after_exit
  BY <1>2 DEF R!exited_stopping, R!exited_running
<1>4. gone.restart_count + 1 \in Nat /\ 0 \in Nat
  BY <1>1 DEF R!ServiceRecord
<1>5. CASE R!exited(s, r, reason) = R!ScheduleRestart(gone)
  BY <1>1, <1>4, <1>5 DEF R!ScheduleRestart, R!ServiceRecord, R!ServiceState
<1>6. CASE R!exited(s, r, reason) = [gone EXCEPT !.state = "Failed"]
  BY <1>1, <1>6 DEF R!ServiceRecord, R!ServiceState
<1>7. CASE R!exited(s, r, reason) = R!AtRest(gone, "Exited")
  BY <1>1, <1>4, <1>7 DEF R!AtRest, R!ServiceRecord, R!ServiceState
<1>8. CASE /\ R!exited(s, r, reason) = R!AtRest(gone, "Active")
           /\ r.state # "Stopping" /\ s.remain_after_exit
  BY <1>1, <1>4, <1>8 DEF R!AtRest, R!ServiceRecord, R!ServiceState
<1> QED BY <1>3, <1>5, <1>6, <1>7, <1>8

-----------------------------------------------------------------------------
(***************************************************************************)
(* Building blocks.                                                        *)
(***************************************************************************)

(***************************************************************************)
(* A change of other fields keeps a structure sound.                       *)
(***************************************************************************)
LEMMA AgreeGoes ==
  ASSUME NEW s, NEW x, NEW y, Sound(s, x), Typed(s, y), Agree(x, y)
  PROVE  Goes(s, x, y)
BY DEF Goes, Sound, Coherent, Agree, Around, Quiet, ProcessLinked, PhasesLinked, RestartLinked, Passed, Up

(***************************************************************************)
(* The same without the time of the next restart.                          *)
(***************************************************************************)
LEMMA AgreeCoherent ==
  ASSUME NEW s, NEW x, NEW y, Coherent(s, x), Typed(s, y), Agree(x, y)
  PROVE  Coherent(s, y)
BY DEF Coherent, Agree, Around, ProcessLinked, PhasesLinked, Passed

(***************************************************************************)
(* Steps compose.                                                          *)
(***************************************************************************)
LEMMA GoesOn ==
  ASSUME NEW s, NEW x, NEW y, NEW z, Goes(s, x, y), Goes(s, y, z)
  PROVE  Goes(s, x, z)
BY DEF Goes, Quiet

(***************************************************************************)
(* No step at all.                                                         *)
(***************************************************************************)
LEMMA GoesNowhere ==
  ASSUME NEW s, NEW x, Sound(s, x)
  PROVE  Goes(s, x, x)
BY DEF Goes, Quiet

(***************************************************************************)
(* Killing helpers: the fields of the others stay.                         *)
(***************************************************************************)
LEMMA KillGoes ==
  ASSUME NEW s, NEW x, NEW helpers \in SUBSET Helpers, Typed(s, x)
  PROVE  /\ Typed(s, kill(x, helpers))
         /\ \A field \in Fields : kill(x, helpers)[field]
                                    = IF field \in helpers THEN "none" ELSE x[field]
         /\ Coherent(s, x) => Coherent(s, kill(x, helpers))
         /\ Sound(s, x) => Goes(s, x, kill(x, helpers))
<1>1. DOMAIN x = Fields
  BY DEF Typed
<1>2. kill(x, helpers) = [field \in Fields |-> IF field \in helpers THEN "none" ELSE x[field]]
  BY <1>1 DEF kill
<1>3. \A field \in Fields : kill(x, helpers)[field]
                              = IF field \in helpers THEN "none" ELSE x[field]
  BY <1>2
<1>4. Typed(s, kill(x, helpers))
  <2>1. kill(x, helpers) = [field \in Fields |-> kill(x, helpers)[field]]
    BY <1>2
  <2>2. /\ \A helper \in Helpers : kill(x, helpers)[helper] \in HelperValue
        /\ \A deadline \in Deadlines : kill(x, helpers)[deadline] \in Deadline
    <3>1. /\ \A helper \in Helpers : helper \in Fields
          /\ \A deadline \in Deadlines : deadline \in Fields /\ deadline \notin helpers
      BY FieldsAre DEF Helpers, Deadlines
    <3>2. "none" \in HelperValue
      BY DEF HelperValue
    <3> QED BY <1>3, <3>1, <3>2 DEF Typed
  <2>3. \A field \in {"rec", "child", "exit", "signal", "notify", "start_attempts"} :
           kill(x, helpers)[field] = x[field]
    BY <1>3, FieldsAre DEF Helpers
  <2> QED BY <2>1, <2>2, <2>3 DEF Typed
<1>5. Coherent(s, x) => Coherent(s, kill(x, helpers))
  BY <1>3, <1>4, FieldsAre DEF Coherent, ProcessLinked, PhasesLinked, Passed, Helpers
<1>6. Sound(s, x) => Goes(s, x, kill(x, helpers))
  BY <1>3, <1>5, FieldsAre DEF Goes, Sound, Quiet, RestartLinked, Up, Helpers
<1> QED BY <1>3, <1>4, <1>5, <1>6

(***************************************************************************)
(* An error is set, or forgotten.                                          *)
(***************************************************************************)
LEMMA ErrStep ==
  ASSUME NEW s, NEW x, Typed(s, x)
  PROVE  /\ Typed(s, Err(x)) /\ Agree(x, Err(x)) /\ Err(x).err
         /\ Typed(s, [x EXCEPT !.err = FALSE]) /\ Agree(x, [x EXCEPT !.err = FALSE])
         /\ ~ [x EXCEPT !.err = FALSE].err
BY FieldsAre DEF Typed, Agree, Around, Err, Helpers, Deadlines

(***************************************************************************)
(* A signal is sent.                                                       *)
(***************************************************************************)
LEMMA SignalStep ==
  ASSUME NEW s, NEW x, NEW signal \in {"term", "abort", "kill"}, Typed(s, x)
  PROVE  /\ Typed(s, send_signal(s, x, signal)) /\ Agree(x, send_signal(s, x, signal))
         /\ send_signal(s, x, signal).err = x.err
BY FieldsAre DEF Typed, Agree, Around, send_signal, Helpers, Deadlines

(***************************************************************************)
(* Directories are cleaned up.                                             *)
(***************************************************************************)
LEMMA CleanupStep ==
  ASSUME NEW s, NEW x, Typed(s, x)
  PROVE  /\ Typed(s, cleanup_directories(x)) /\ Agree(x, cleanup_directories(x))
         /\ cleanup_directories(x).err = x.err
BY FieldsAre DEF Typed, Agree, Around, cleanup_directories, Helpers, Deadlines

(***************************************************************************)
(* A transition of the record is committed.                                *)
(***************************************************************************)
LEMMA RecStep ==
  ASSUME NEW s, NEW x, NEW rec \in R!ServiceRecord, Typed(s, x)
  PROVE  /\ Typed(s, [x EXCEPT !.rec = rec]) /\ Around(x, [x EXCEPT !.rec = rec])
         /\ [x EXCEPT !.rec = rec].rec = rec /\ [x EXCEPT !.rec = rec].err = x.err
<1>1. [x EXCEPT !.rec = rec].rec = rec
  BY FieldsAre DEF Typed
<1> QED BY <1>1, FieldsAre DEF Typed, Around, Helpers, Deadlines

(***************************************************************************)
(* The time of the next restart is set.                                    *)
(***************************************************************************)
LEMMA RestartAtStep ==
  ASSUME NEW s, NEW x, NEW time \in Deadline, Typed(s, x)
  PROVE  /\ Typed(s, [x EXCEPT !.restart_at = time])
         /\ [x EXCEPT !.restart_at = time].restart_at = time
         /\ [x EXCEPT !.restart_at = time].rec = x.rec
         /\ [x EXCEPT !.restart_at = time].err = x.err
         /\ [x EXCEPT !.restart_at = time].wants_running = x.wants_running
         /\ [x EXCEPT !.restart_at = time].restart_after_stop = x.restart_after_stop
         /\ Coherent(s, x) => Coherent(s, [x EXCEPT !.restart_at = time])
<1>1. /\ Typed(s, [x EXCEPT !.restart_at = time])
      /\ [x EXCEPT !.restart_at = time].restart_at = time
      /\ [x EXCEPT !.restart_at = time].rec = x.rec
      /\ [x EXCEPT !.restart_at = time].err = x.err
      /\ [x EXCEPT !.restart_at = time].wants_running = x.wants_running
      /\ [x EXCEPT !.restart_at = time].restart_after_stop = x.restart_after_stop
  BY FieldsAre DEF Typed, Helpers, Deadlines
<1>2. Coherent(s, x) => Coherent(s, [x EXCEPT !.restart_at = time])
  BY <1>1, FieldsAre DEF Coherent, Typed, ProcessLinked, PhasesLinked, Passed
<1> QED BY <1>1, <1>2

(***************************************************************************)
(* Deadlines.                                                              *)
(***************************************************************************)
LEMMA DeadlineSteps ==
  ASSUME NEW s, NEW x, Typed(s, x)
  PROVE  /\ Typed(s, arm_runtime_limit(s, x)) /\ Agree(x, arm_runtime_limit(s, x))
         /\ arm_runtime_limit(s, x).err = x.err
         /\ Typed(s, arm_watchdog(s, x)) /\ Agree(x, arm_watchdog(s, x))
         /\ arm_watchdog(s, x).err = x.err
         /\ Typed(s, arm_stop_deadline(s, x)) /\ Agree(x, arm_stop_deadline(s, x))
         /\ arm_stop_deadline(s, x).err = x.err
         /\ Typed(s, EndProcess(s, x)) /\ Agree(x, EndProcess(s, x))
         /\ EndProcess(s, x).err = x.err
<1>1. \A finite : timeout_deadline(finite) \in Deadline
  BY DEF timeout_deadline, Deadline
<1>2. /\ Typed(s, arm_runtime_limit(s, x)) /\ Agree(x, arm_runtime_limit(s, x))
      /\ arm_runtime_limit(s, x).err = x.err
  BY <1>1, FieldsAre DEF Typed, Agree, Around, arm_runtime_limit, Helpers, Deadlines
<1>3. /\ Typed(s, arm_watchdog(s, x)) /\ Agree(x, arm_watchdog(s, x))
      /\ arm_watchdog(s, x).err = x.err
  BY <1>1, FieldsAre DEF Typed, Agree, Around, arm_watchdog, Helpers, Deadlines
<1>4. \A y : Typed(s, y) => /\ Typed(s, arm_stop_deadline(s, y)) /\ Agree(y, arm_stop_deadline(s, y))
                            /\ arm_stop_deadline(s, y).err = y.err
  <2> SUFFICES ASSUME NEW y, Typed(s, y)
               PROVE  /\ Typed(s, arm_stop_deadline(s, y)) /\ Agree(y, arm_stop_deadline(s, y))
                      /\ arm_stop_deadline(s, y).err = y.err
    OBVIOUS
  <2> QED BY <1>1, FieldsAre DEF Typed, Agree, Around, arm_stop_deadline, Helpers, Deadlines
<1>5. /\ Typed(s, EndProcess(s, x)) /\ Agree(x, EndProcess(s, x)) /\ EndProcess(s, x).err = x.err
  <2> DEFINE y == SignalIf(StoppingProcess(x), s, x, "term")
  <2>1. Typed(s, y) /\ Agree(x, y) /\ y.err = x.err
    <3>1. CASE StoppingProcess(x)
      BY <3>1, SignalStep DEF SignalIf
    <3>2. CASE ~ StoppingProcess(x)
      BY <3>2 DEF SignalIf, Agree, Around
    <3> QED BY <3>1, <3>2
  <2>2. EndProcess(s, x) = arm_stop_deadline(s, y)
    BY DEF EndProcess
  <2> HIDE DEF y
  <2> QED BY <1>4, <2>1, <2>2 DEF Agree, Around
<1> QED BY <1>2, <1>3, <1>4, <1>5

-----------------------------------------------------------------------------
(***************************************************************************)
(* Spawning.                                                               *)
(***************************************************************************)

(***************************************************************************)
(* A failed spawn: the service waits for its restart, or has failed.       *)
(***************************************************************************)
LEMMA SpawnFailedGoes ==
  ASSUME NEW s, NEW x, Sound(s, x), ~ x.err, x.start_helper = "none",
         x.rec.state = "Starting" => x.rec.pid = NoPid
  PROVE  Goes(s, x, mark_spawn_failed(s, x))
<1> DEFINE k == kill(x, {"exec_condition_helper"})
           c == cleanup_directories(k)
           ok == R!spawn_failed_ok(x.rec, x.rec.generation)
           rec == R!spawn_failed(s, x.rec)
           y == [c EXCEPT !.rec = rec]
<1>1. Typed(s, x) /\ x.rec \in R!ServiceRecord
  BY DEF Sound, Coherent, Typed
<1>2. /\ Typed(s, k) /\ Goes(s, x, k) /\ k.err = x.err
      /\ k.exec_condition_helper = "none" /\ k.rec = x.rec /\ k.start_helper = "none"
  BY <1>1, KillGoes, FieldsAre DEF Helpers
<1>3. /\ Typed(s, c) /\ Agree(k, c) /\ c.err = k.err
  BY <1>2, CleanupStep
<1>4. mark_spawn_failed(s, x) = ArmRestart(IF ok THEN y ELSE Err(c))
  BY DEF mark_spawn_failed, Commit
<1>5. /\ rec \in R!ServiceRecord /\ rec.pid = x.rec.pid
      /\ rec.state \in {"Backoff", "Failed"}
  BY <1>1, FailTransitions
<1>6. ok => x.rec.state = "Starting"
  BY DEF R!spawn_failed_ok
<1>7. Goes(s, x, c)
  BY <1>2, <1>3, AgreeGoes, GoesOn DEF Goes
<1> HIDE DEF k, c, ok, rec
<1>8. CASE ~ ok
  <2>1. Typed(s, Err(c)) /\ Agree(c, Err(c)) /\ Err(c).err
    BY <1>3, ErrStep
  <2>2. Goes(s, x, Err(c))
    BY <1>7, <2>1, AgreeGoes, GoesOn DEF Goes
  <2>3. mark_spawn_failed(s, x) = Err(c)
    BY <1>4, <1>8, <2>1 DEF ArmRestart
  <2> QED BY <2>2, <2>3
<1>9. CASE ok
  <2>1. Typed(s, y) /\ Around(c, y) /\ y.rec = rec /\ ~ y.err
    BY <1>2, <1>3, <1>5, RecStep
  <2>2. /\ c.exec_condition_helper = "none" /\ c.start_helper = "none"
        /\ c.rec.pid = NoPid /\ c.rec.state = "Starting" /\ x.rec.pid = NoPid
    BY <1>2, <1>3, <1>6, <1>9 DEF Agree, Around
  <2>3. Coherent(s, y)
    BY <1>5, <1>7, <2>1, <2>2
       DEF Goes, Sound, Coherent, Around, ProcessLinked, PhasesLinked, Passed
  <2> DEFINE z == [y EXCEPT !.restart_at = "armed"]
  <2>4. /\ Coherent(s, z) /\ z.rec = rec /\ z.restart_at # "none"
        /\ z.wants_running = y.wants_running /\ z.restart_after_stop = y.restart_after_stop
    BY <2>1, <2>3, RestartAtStep DEF Deadline
  <2>5. mark_spawn_failed(s, x) = IF rec.state = "Backoff" THEN z ELSE y
    BY <1>4, <1>9, <2>1 DEF ArmRestart
  <2> HIDE DEF y, z
  <2>6. CASE rec.state = "Backoff"
    BY <1>7, <2>1, <2>4, <2>5, <2>6 DEF Goes, Sound, Around, RestartLinked, Quiet, Up
  <2>7. CASE rec.state # "Backoff"
    BY <1>5, <1>7, <2>1, <2>3, <2>5, <2>7 DEF Goes, Sound, Around, RestartLinked, Quiet, Up
  <2> QED BY <2>6, <2>7
<1> QED BY <1>8, <1>9

(***************************************************************************)
(* The same, with the error returned.                                      *)
(***************************************************************************)
LEMMA SpawnFailedErr ==
  ASSUME NEW s, NEW x, Launchable(s, x)
  PROVE  Goes(s, x, Err(mark_spawn_failed(s, x)))
<1>1. Goes(s, x, mark_spawn_failed(s, x))
  BY SpawnFailedGoes DEF Launchable
<1> QED BY <1>1, ErrStep, AgreeGoes, GoesOn DEF Goes, Sound, Coherent

(***************************************************************************)
(* ExecStartPost.                                                          *)
(***************************************************************************)
LEMMA StartPostGoes ==
  ASSUME NEW s, NEW f, NEW x, Sound(s, x)
  PROVE  Goes(s, x, spawn_start_post(s, f, x))
<1>1. Typed(s, x)
  BY DEF Sound, Coherent
<1> DEFINE y == send_signal(s, x, "term")
<1>2. Typed(s, y) /\ Agree(x, y)
  BY <1>1, SignalStep
<1>3. Typed(s, Err(y)) /\ Agree(y, Err(y))
  BY <1>2, ErrStep
<1>4. /\ Typed(s, [x EXCEPT !.start_post_helper = "running"])
      /\ Agree(x, [x EXCEPT !.start_post_helper = "running"])
  BY <1>1, FieldsAre DEF Typed, Agree, Around, Helpers, Deadlines, HelperValue
<1>5. \/ spawn_start_post(s, f, x) = x
      \/ spawn_start_post(s, f, x) = Err(y)
      \/ spawn_start_post(s, f, x) = [x EXCEPT !.start_post_helper = "running"]
  BY DEF spawn_start_post
<1> HIDE DEF y
<1> QED BY <1>2, <1>3, <1>4, <1>5, AgreeGoes, GoesOn, GoesNowhere DEF Goes

(***************************************************************************)
(* The fields of a service whose main process has just been spawned.       *)
(***************************************************************************)
LEMMA MainSpawnedTyped ==
  ASSUME NEW s, NEW x, NEW rec \in R!ServiceRecord, Typed(s, x)
  PROVE  Typed(s, MainSpawned(s, x, rec))
<1> DEFINE y == MainSpawned(s, x, rec)
<1>1. Typed(s, x)
  OBVIOUS
<1>2. y = [field \in Fields |-> y[field]]
  <2> DEFINE a == [x EXCEPT !.rec = rec, !.child = "alive", !.signal = "none",
                            !.forking_pending = (s.service_type = "Forking"),
                            !.forking_parent_exited = FALSE]
             b == [a EXCEPT !.notify = IF s.service_type = "Notify" \/ s.watchdog
                                       THEN "open" ELSE "closed",
                            !.dbus_ready = (s.service_type # "Dbus"),
                            !.watchdog_deadline = "none"]
             c == [b EXCEPT !.runtime_deadline =
                              timeout_deadline(rec.state = "Running" /\ ~ Late(s) /\ s.runtime_max),
                            !.oom = FALSE,
                            !.start_deadline = StartDeadline(s, @)]
  <2>1. a = [field \in Fields |-> a[field]]
    BY <1>1, FieldsAre DEF Typed
  <2>2. y = c
    BY DEF MainSpawned
  <2> HIDE DEF a, y
  <2>3. b = [field \in Fields |-> b[field]]
    BY <2>1, FieldsAre
  <2> HIDE DEF b
  <2>4. c = [field \in Fields |-> c[field]]
    BY <2>3, FieldsAre
  <2> QED BY <2>2, <2>4
<1>3. /\ y.rec = rec /\ y.child = "alive" /\ y.signal = "none" /\ ~ y.forking_parent_exited
      /\ y.notify \in {"open", "closed"}
      /\ y.exit = x.exit /\ y.start_attempts = x.start_attempts
  BY <1>1, FieldsAre DEF MainSpawned, Typed
<1>4. \A helper \in Helpers : y[helper] = x[helper]
  BY <1>1, FieldsAre DEF MainSpawned, Typed, Helpers
<1>5. /\ y.watchdog_deadline = "none" /\ y.runtime_deadline \in Deadline
      /\ y.start_deadline \in Deadline
      /\ y.stop_deadline = x.stop_deadline /\ y.restart_at = x.restart_at
  BY <1>1, FieldsAre DEF MainSpawned, Typed, timeout_deadline, StartDeadline, Deadline, Deadlines
<1> HIDE DEF y
<1>6. \A deadline \in Deadlines : y[deadline] \in Deadline
  BY <1>1, <1>5 DEF Typed, Deadlines, Deadline
<1>7. Typed(s, y)
  BY <1>1, <1>2, <1>3, <1>4, <1>6 DEF Typed
<1> QED BY <1>7 DEF y

(***************************************************************************)
(* The main process is there: its pid is in the record.                    *)
(***************************************************************************)
LEMMA MainSpawnedGoes ==
  ASSUME NEW s, NEW x, NEW rec \in R!ServiceRecord, Launchable(s, x), Passed(s, x),
         rec.pid # NoPid, rec.state \in {"Starting", "Running"}
  PROVE  Goes(s, x, MainSpawned(s, x, rec))
<1> DEFINE y == MainSpawned(s, x, rec)
<1>1. Typed(s, x) /\ Up(x)
  BY DEF Launchable, Sound, Coherent, Up
<1>2. Typed(s, y)
  BY <1>1, MainSpawnedTyped
<1>3. /\ y.rec = rec /\ y.child = "alive" /\ ~ y.forking_parent_exited
      /\ y.stop_command = x.stop_command /\ y.reload_command = x.reload_command
      /\ y.exec_condition_helper = x.exec_condition_helper /\ y.start_helper = x.start_helper
  BY <1>1, FieldsAre DEF MainSpawned, Typed
<1>4. /\ y.wants_running = x.wants_running /\ y.restart_after_stop = x.restart_after_stop
      /\ y.exec_conditions_done = x.exec_conditions_done
  BY <1>1, FieldsAre DEF MainSpawned, Typed
<1> HIDE DEF y
<1>5. ProcessLinked(y) /\ PhasesLinked(s, y)
  BY <1>3, <1>4 DEF Launchable, Sound, Coherent, ProcessLinked, PhasesLinked, Passed
<1>6. Sound(s, y) /\ Quiet(x, y)
  BY <1>1, <1>2, <1>3, <1>4, <1>5 DEF Sound, Coherent, RestartLinked, Quiet
<1> QED BY <1>6 DEF Goes, y

(***************************************************************************)
(* The main process is spawned, or reported as failed.                     *)
(***************************************************************************)
LEMMA SpawnMainGoes ==
  ASSUME NEW s, NEW f, NEW x, Launchable(s, x), Passed(s, x)
  PROVE  Goes(s, x, spawn_main(s, f, x))
<1> DEFINE pid == CHOOSE p \in Pids : TRUE
           rec == R!spawned(s, x.rec, pid)
           y == MainSpawned(s, x, rec)
<1>1. pid \in Pids /\ pid # NoPid
  BY ManagedAssumption
<1>2. Sound(s, x) /\ Typed(s, x) /\ x.rec \in R!ServiceRecord /\ x.rec.state = "Starting"
  BY DEF Launchable, Sound, Coherent, Typed
<1> HIDE DEF pid
<1>3. /\ rec \in R!ServiceRecord /\ rec.pid # NoPid
      /\ rec.state \in {"Starting", "Running"}
  BY <1>1, <1>2, StartTransitions
<1> HIDE DEF rec
<1>4. Goes(s, x, y)
  BY <1>3, MainSpawnedGoes
<1>5. Goes(s, x, spawn_start_post(s, f, y))
  BY <1>4, StartPostGoes, GoesOn DEF Goes
<1>6. Goes(s, x, Err(mark_spawn_failed(s, x)))
  BY SpawnFailedErr
<1>7. Goes(s, x, Err(x))
  BY <1>2, ErrStep, AgreeGoes
<1>8. \/ spawn_main(s, f, x) = Err(mark_spawn_failed(s, x))
      \/ spawn_main(s, f, x) = Err(x)
      \/ spawn_main(s, f, x) = y
      \/ spawn_main(s, f, x) = spawn_start_post(s, f, y)
  <2>1. With(y, LAMBDA w : IF Late(s) THEN w ELSE spawn_start_post(s, f, w))
          = IF Late(s) THEN y ELSE spawn_start_post(s, f, y)
    BY DEF With
  <2> QED BY <2>1 DEF spawn_main, rec, pid
<1> QED BY <1>4, <1>5, <1>6, <1>7, <1>8

(***************************************************************************)
(* A socket, timer or path becomes active.                                 *)
(***************************************************************************)
LEMMA ActivateGoes ==
  ASSUME NEW s, NEW x, Launchable(s, x)
  PROVE  Goes(s, x, Activate(x))
<1> DEFINE y == [x EXCEPT !.rec = R!activated(x.rec)]
           z == [y EXCEPT !.start_deadline = "none"]
<1>1. Sound(s, x) /\ Typed(s, x) /\ x.rec \in R!ServiceRecord /\ x.rec.state = "Starting" /\ Up(x)
  BY DEF Launchable, Sound, Coherent, Typed, Up
<1>2. /\ R!activated(x.rec) \in R!ServiceRecord
      /\ R!activated(x.rec).pid = NoPid /\ R!activated(x.rec).state = "Active"
  <2>1. PICK pid \in Pids : TRUE
    BY ManagedAssumption
  <2> QED BY <1>1, <2>1, StartTransitions
<1>3. Typed(s, y) /\ Around(x, y) /\ y.rec = R!activated(x.rec)
  BY <1>1, <1>2, RecStep
<1>4. Activate(x) = z
  <2>1. ~ y.err
    BY <1>1, FieldsAre DEF Launchable, Typed
  <2>2. Activate(x) = Try(y, LAMBDA w : [w EXCEPT !.start_deadline = "none"])
    BY <1>1 DEF Activate, Commit, R!activated_ok, R!check_generation
  <2> HIDE DEF y
  <2> QED BY <2>1, <2>2 DEF Try, With
<1> HIDE DEF y
<1>5. Typed(s, z) /\ Agree(y, z)
  BY <1>3, FieldsAre DEF Typed, Agree, Around, Helpers, Deadlines, Deadline
<1>6. Goes(s, x, y)
  BY <1>1, <1>2, <1>3
     DEF Launchable, Goes, Sound, Coherent, Around, ProcessLinked, PhasesLinked, RestartLinked,
         Passed, Quiet
<1> QED BY <1>4, <1>5, <1>6, AgreeGoes, GoesOn DEF Goes

(***************************************************************************)
(* A start goes on with its next phase.                                    *)
(***************************************************************************)
LEMMA SpawnGoes ==
  ASSUME NEW s, NEW f, NEW x, Launchable(s, x)
  PROVE  Goes(s, x, spawn(s, f, x))
<1>1. Goes(s, x, Err(mark_spawn_failed(s, x))) /\ Goes(s, x, Activate(x))
  BY SpawnFailedErr, ActivateGoes
<1>2. ASSUME ~ Passed(s, x)
      PROVE  Goes(s, x, [x EXCEPT !.exec_condition_helper = "running"])
  <2> DEFINE y == [x EXCEPT !.exec_condition_helper = "running"]
  <2>1. /\ Typed(s, y) /\ y.rec = x.rec /\ y.start_helper = x.start_helper
        /\ y.exec_conditions_done = x.exec_conditions_done
    BY FieldsAre DEF Launchable, Sound, Coherent, Typed, HelperValue, Helpers, Deadlines
  <2>2. /\ y.child = x.child /\ y.exit = x.exit
        /\ y.forking_pending = x.forking_pending
        /\ y.forking_parent_exited = x.forking_parent_exited
        /\ y.stop_command = x.stop_command /\ y.reload_command = x.reload_command
        /\ y.wants_running = x.wants_running /\ y.restart_after_stop = x.restart_after_stop
    BY FieldsAre DEF Launchable, Sound, Coherent, Typed
  <2> HIDE DEF y
  <2>3. Goes(s, x, y)
    BY <1>2, <2>1, <2>2
       DEF Launchable, Goes, Sound, Coherent, ProcessLinked, PhasesLinked, RestartLinked,
           Passed, Quiet, Up
  <2> QED BY <2>3 DEF y
<1>3. ASSUME Passed(s, x)
      PROVE  Goes(s, x, [x EXCEPT !.start_helper = "running"])
  <2> DEFINE y == [x EXCEPT !.start_helper = "running"]
  <2>1. /\ Typed(s, y) /\ y.rec = x.rec /\ y.exec_condition_helper = x.exec_condition_helper
        /\ y.exec_conditions_done = x.exec_conditions_done
    BY FieldsAre DEF Launchable, Sound, Coherent, Typed, HelperValue, Helpers, Deadlines
  <2>2. /\ y.child = x.child /\ y.exit = x.exit
        /\ y.forking_pending = x.forking_pending
        /\ y.forking_parent_exited = x.forking_parent_exited
        /\ y.stop_command = x.stop_command /\ y.reload_command = x.reload_command
        /\ y.wants_running = x.wants_running /\ y.restart_after_stop = x.restart_after_stop
    BY FieldsAre DEF Launchable, Sound, Coherent, Typed
  <2> HIDE DEF y
  <2>3. Goes(s, x, y)
    BY <1>3, <2>1, <2>2
       DEF Launchable, Goes, Sound, Coherent, ProcessLinked, PhasesLinked, RestartLinked,
           Passed, Quiet, Up
  <2> QED BY <2>3 DEF y
<1>4. ASSUME Passed(s, x)
      PROVE  Goes(s, x, spawn_main(s, f, x))
  BY <1>4, SpawnMainGoes
<1>5. \/ spawn(s, f, x) = Err(mark_spawn_failed(s, x))
      \/ spawn(s, f, x) = Activate(x)
      \/ ~ Passed(s, x) /\ spawn(s, f, x) = [x EXCEPT !.exec_condition_helper = "running"]
      \/ Passed(s, x) /\ spawn(s, f, x) = [x EXCEPT !.start_helper = "running"]
      \/ Passed(s, x) /\ spawn(s, f, x) = spawn_main(s, f, x)
  BY DEF spawn, Passed
<1> QED BY <1>1, <1>2, <1>3, <1>4, <1>5

(***************************************************************************)
(* ExecStopPost, and the directories that go when it does not run.         *)
(***************************************************************************)
LEMMA StopPostStep ==
  ASSUME NEW s, NEW f, NEW x, NEW helper, Typed(s, x)
  PROVE  /\ Typed(s, spawn_stop_post(s, f, x)) /\ Agree(x, spawn_stop_post(s, f, x))
         /\ spawn_stop_post(s, f, x).err = x.err
         /\ Typed(s, CleanUnless(x, helper)) /\ Agree(x, CleanUnless(x, helper))
         /\ CleanUnless(x, helper).err = x.err
<1>1. /\ Typed(s, spawn_stop_post(s, f, x)) /\ Agree(x, spawn_stop_post(s, f, x))
      /\ spawn_stop_post(s, f, x).err = x.err
  BY FieldsAre DEF Typed, Agree, Around, spawn_stop_post, Helpers, Deadlines, HelperValue
<1>2. /\ Typed(s, CleanUnless(x, helper)) /\ Agree(x, CleanUnless(x, helper))
      /\ CleanUnless(x, helper).err = x.err
  BY CleanupStep DEF CleanUnless, Agree, Around
<1> QED BY <1>1, <1>2

-----------------------------------------------------------------------------
(***************************************************************************)
(* Requests.                                                               *)
(***************************************************************************)

(***************************************************************************)
(* The start limit: an attempt is charged, or the service has failed and   *)
(* is no longer wanted.                                                    *)
(***************************************************************************)
LEMMA LimitEffect ==
  ASSUME NEW s, NEW x, Coherent(s, x), ~ x.err, s.start_limit_burst \in Nat,
         x.rec.state # "Starting"
  PROVE  LET y == enforce_start_limit(s, x) IN
         /\ Coherent(s, y)
         /\ ~ y.err => Agree(x, y)
         /\ y.err => \/ /\ y.rec.state = "Failed" /\ ~ y.wants_running
                        /\ y.restart_after_stop = x.restart_after_stop
                     \/ Agree(x, y) /\ x.rec.state \in {"Running", "Active", "Stopping"}
<1> DEFINE y == enforce_start_limit(s, x)
<1>1. Typed(s, x) /\ x.rec \in R!ServiceRecord /\ Agree(x, x)
  BY DEF Coherent, Typed, Agree, Around
<1>2. CASE s.start_limit_burst = 0
  BY <1>1, <1>2 DEF enforce_start_limit
<1>3. CASE s.start_limit_burst # 0 /\ x.start_attempts < s.start_limit_burst
  <2>1. y = [x EXCEPT !.start_attempts = @ + 1]
    BY <1>3 DEF enforce_start_limit
  <2>2. x.start_attempts + 1 \in 0 .. s.start_limit_burst
    BY <1>1, <1>3 DEF Typed
  <2>3. Typed(s, y) /\ Agree(x, y) /\ ~ y.err
    <3>1. y.start_attempts = x.start_attempts + 1
      BY <1>1, <2>1, FieldsAre DEF Typed
    <3> QED BY <1>1, <2>1, <2>2, <3>1, FieldsAre DEF Typed, Agree, Around, Helpers, Deadlines
  <2> HIDE DEF y
  <2>4. Coherent(s, y)
    BY <2>3, AgreeCoherent
  <2> QED BY <2>3, <2>4 DEF y
<1>4. CASE ~ (s.start_limit_burst = 0 \/ x.start_attempts < s.start_limit_burst)
  <2>1. CASE ~ R!start_limit_hit_ok(x.rec, x.rec.generation)
    <3>1. y = Err(x)
      BY <1>4, <2>1 DEF enforce_start_limit
    <3>2. Typed(s, y) /\ Agree(x, y) /\ y.err
      BY <1>1, <3>1, ErrStep
    <3>3. x.rec.state \in {"Running", "Active", "Stopping"}
      BY <1>1, <2>1 DEF R!start_limit_hit_ok, R!check_generation, R!ServiceRecord, R!ServiceState
    <3> HIDE DEF y
    <3>4. Coherent(s, y)
      BY <3>2, AgreeCoherent
    <3> QED BY <3>2, <3>3, <3>4 DEF y
  <2>2. CASE R!start_limit_hit_ok(x.rec, x.rec.generation)
    <3> DEFINE rec == R!start_limit_hit(x.rec)
               c == cleanup_directories(x)
               z == [c EXCEPT !.rec = R!start_limit_hit(@), !.wants_running = FALSE,
                              !.restart_at = "none"]
    <3>1. y = Err(z)
      BY <1>4, <2>2 DEF enforce_start_limit
    <3>2. rec \in R!ServiceRecord /\ rec.pid = NoPid /\ rec.state = "Failed"
      BY <1>1, FailTransitions
    <3>3. Typed(s, c) /\ Agree(x, c)
      BY <1>1, CleanupStep
    <3>4. c.rec = x.rec
      BY <3>3 DEF Agree
    <3> HIDE DEF c, rec
    <3>5. z = [c EXCEPT !.rec = rec, !.wants_running = FALSE, !.restart_at = "none"]
      BY <3>3, <3>4, FieldsAre DEF rec, Typed
    <3>6. /\ z.rec = rec /\ ~ z.wants_running /\ z.restart_after_stop = c.restart_after_stop
          /\ z.child = c.child /\ z.exit = c.exit /\ z.restart_at = "none"
          /\ z.forking_pending = c.forking_pending
          /\ z.forking_parent_exited = c.forking_parent_exited
          /\ z.stop_command = c.stop_command /\ z.reload_command = c.reload_command
          /\ z.exec_condition_helper = c.exec_condition_helper
          /\ z.start_helper = c.start_helper
          /\ z.exec_conditions_done = c.exec_conditions_done
      BY <3>3, <3>5, FieldsAre DEF Typed
    <3>7. Typed(s, z)
      BY <3>2, <3>3, <3>5, <3>6, FieldsAre DEF Typed, Helpers, Deadlines, Deadline
    <3> HIDE DEF z
    <3>8. x.rec.pid = NoPid /\ x.start_helper = "none" /\ x.child = "none"
      BY <2>2 DEF Coherent, ProcessLinked, PhasesLinked, R!start_limit_hit_ok
    <3>9. Coherent(s, z)
      BY <3>2, <3>3, <3>6, <3>7, <3>8
         DEF Coherent, Agree, Around, ProcessLinked, PhasesLinked, Passed
    <3>10. Typed(s, y) /\ Agree(z, y) /\ y.err
      BY <3>1, <3>7, ErrStep
    <3> HIDE DEF y
    <3>11. Coherent(s, y)
      BY <3>9, <3>10, AgreeCoherent
    <3> QED BY <3>2, <3>3, <3>6, <3>10, <3>11 DEF Agree, Around, y
  <2> QED BY <2>1, <2>2
<1> QED BY <1>2, <1>3, <1>4

(***************************************************************************)
(* A start whose conditions, assertions and directories are looked at.     *)
(***************************************************************************)
LEMMA BeginStartSound ==
  ASSUME NEW s, NEW f, NEW x, Launchable(s, x)
  PROVE  Sound(s, BeginStart(s, f, x))
<1>1. Sound(s, x) /\ Typed(s, x) /\ x.rec \in R!ServiceRecord /\ Coherent(s, x)
  BY DEF Launchable, Sound, Coherent, Typed
<1>2. ASSUME NEW rec \in R!ServiceRecord, rec.pid = NoPid, rec.state \in {"Skipped", "Failed"}
      PROVE  Sound(s, [x EXCEPT !.rec = rec, !.start_deadline = "none"])
  <2> DEFINE y == [x EXCEPT !.rec = rec]
             z == [y EXCEPT !.start_deadline = "none"]
  <2>1. Typed(s, y) /\ Around(x, y) /\ y.rec = rec
    BY <1>1, <1>2, RecStep
  <2> HIDE DEF y
  <2>2. Sound(s, y)
    BY <1>2, <2>1 DEF Launchable, Sound, Coherent, Around, ProcessLinked, PhasesLinked,
                      RestartLinked, Passed
  <2>3. Typed(s, z) /\ Agree(y, z)
    BY <2>1, FieldsAre DEF Typed, Agree, Around, Helpers, Deadlines, Deadline
  <2>4. Sound(s, z)
    BY <2>2, <2>3, AgreeGoes DEF Goes
  <2> QED BY <2>4 DEF y
<1>3. CASE f = "conditions"
  <2>1. PICK pid \in Pids : TRUE
    BY ManagedAssumption
  <2> DEFINE rec == R!condition_skipped(x.rec)
  <2>2. rec \in R!ServiceRecord /\ rec.pid = NoPid /\ rec.state = "Skipped"
    BY <1>1, <2>1, StartTransitions
  <2>3. BeginStart(s, f, x) = [x EXCEPT !.rec = rec, !.start_deadline = "none"]
    BY <1>3 DEF BeginStart
  <2> HIDE DEF rec
  <2> QED BY <1>2, <2>2, <2>3
<1>4. CASE f = "assertions"
  <2> DEFINE rec == R!start_failed(x.rec)
  <2>2. rec \in R!ServiceRecord /\ rec.pid = NoPid /\ rec.state = "Failed"
    BY <1>1, FailTransitions DEF Launchable
  <2>3. BeginStart(s, f, x) = [x EXCEPT !.rec = rec, !.start_deadline = "none"]
    BY <1>4 DEF BeginStart
  <2> HIDE DEF rec
  <2> QED BY <1>2, <2>2, <2>3
<1>5. ASSUME NEW y, Typed(s, y), ~ y.exec_conditions_done, y.rec = x.rec, y.err = x.err,
             y.child = x.child, y.exit = x.exit, y.forking_pending = x.forking_pending,
             y.forking_parent_exited = x.forking_parent_exited,
             y.stop_command = x.stop_command, y.reload_command = x.reload_command,
             y.exec_condition_helper = x.exec_condition_helper,
             y.start_helper = x.start_helper
      PROVE  Launchable(s, y)
  BY <1>5 DEF Launchable, Sound, Coherent, ProcessLinked, PhasesLinked, RestartLinked, Passed
<1>6. CASE f = "prepare"
  <2> DEFINE y == [x EXCEPT !.exec_conditions_done = FALSE]
  <2>1. Typed(s, y)
    BY <1>1, FieldsAre DEF Typed, Helpers, Deadlines
  <2>2. Launchable(s, y)
    BY <1>1, <1>5, <2>1, FieldsAre DEF Typed
  <2>3. BeginStart(s, f, x) = Err(mark_spawn_failed(s, y))
    BY <1>6 DEF BeginStart
  <2> HIDE DEF y
  <2> QED BY <2>2, <2>3, SpawnFailedErr DEF Goes
<1>7. CASE f \notin {"conditions", "assertions", "prepare"}
  <2> DEFINE y == [x EXCEPT !.exec_conditions_done = FALSE, !.prepared = TRUE,
                            !.start_deadline = timeout_deadline(s.start_timeout)]
  <2>1. timeout_deadline(s.start_timeout) \in Deadline
    BY DEF timeout_deadline, Deadline
  <2>2. Typed(s, y)
    BY <1>1, <2>1, FieldsAre DEF Typed, Helpers, Deadlines
  <2>3. /\ ~ y.exec_conditions_done /\ y.rec = x.rec /\ y.err = x.err
        /\ y.child = x.child /\ y.exit = x.exit /\ y.forking_pending = x.forking_pending
        /\ y.forking_parent_exited = x.forking_parent_exited
        /\ y.stop_command = x.stop_command /\ y.reload_command = x.reload_command
        /\ y.exec_condition_helper = x.exec_condition_helper
        /\ y.start_helper = x.start_helper
    BY <1>1, FieldsAre DEF Typed
  <2>4. BeginStart(s, f, x) = spawn(s, f, y)
    BY <1>7 DEF BeginStart
  <2> HIDE DEF y
  <2>5. Launchable(s, y)
    BY <1>5, <2>2, <2>3
  <2> QED BY <2>4, <2>5, SpawnGoes DEF Goes
<1> QED BY <1>3, <1>4, <1>6, <1>7

(***************************************************************************)
(* A start, from any state: already up, postponed, limited or begun.       *)
(***************************************************************************)
LEMMA StartSound ==
  ASSUME NEW s, NEW f, NEW x, Coherent(s, x), ~ x.err, s.start_limit_burst \in Nat
  PROVE  Sound(s, start(s, f, x))
<1> DEFINE y == [x EXCEPT !.wants_running = TRUE, !.restart_after_stop = FALSE,
                          !.restart_at = "none"]
           w == [y EXCEPT !.restart_after_stop = TRUE]
           l == enforce_start_limit(s, y)
           b == [l EXCEPT !.runtime_deadline = "none", !.rec = R!start(@)]
<1>1. Typed(s, x)
  BY DEF Coherent
<1>2. /\ Typed(s, y) /\ y.rec = x.rec /\ y.err = x.err
      /\ y.child = x.child /\ y.exit = x.exit /\ y.forking_pending = x.forking_pending
      /\ y.forking_parent_exited = x.forking_parent_exited
      /\ y.stop_command = x.stop_command /\ y.reload_command = x.reload_command
      /\ y.exec_condition_helper = x.exec_condition_helper
      /\ y.start_helper = x.start_helper /\ y.exec_conditions_done = x.exec_conditions_done
  BY <1>1, FieldsAre DEF Typed, Helpers, Deadlines, Deadline
<1>3. Coherent(s, y)
  BY <1>2 DEF Coherent, ProcessLinked, PhasesLinked, Passed
<1>4. /\ Typed(s, w) /\ w.rec = x.rec
      /\ w.child = x.child /\ w.exit = x.exit /\ w.forking_pending = x.forking_pending
      /\ w.forking_parent_exited = x.forking_parent_exited
      /\ w.stop_command = x.stop_command /\ w.reload_command = x.reload_command
      /\ w.exec_condition_helper = x.exec_condition_helper
      /\ w.start_helper = x.start_helper /\ w.exec_conditions_done = x.exec_conditions_done
  BY <1>1, FieldsAre DEF Typed, Helpers, Deadlines, Deadline
<1>5. Coherent(s, w)
  BY <1>4 DEF Coherent, ProcessLinked, PhasesLinked, Passed
<1>6. start(s, f, x) = IF Up(x) THEN y
                       ELSE IF \/ x.rec.state = "Stopping"
                               \/ /\ x.rec.state = "Exited"
                                  /\ x.active_stop_helper # "none" \/ x.stop_post_helper # "none"
                       THEN w
                       ELSE IF l.err THEN l ELSE BeginStart(s, f, b)
  BY DEF start, Try, With
<1> HIDE DEF y, w
<1>7. CASE Up(x)
  BY <1>2, <1>3, <1>6, <1>7 DEF Sound, RestartLinked, Up
<1>8. CASE /\ ~ Up(x)
           /\ \/ x.rec.state = "Stopping"
              \/ /\ x.rec.state = "Exited"
                 /\ x.active_stop_helper # "none" \/ x.stop_post_helper # "none"
  BY <1>4, <1>5, <1>6, <1>8 DEF Sound, RestartLinked
<1>9. CASE ~ Up(x) /\ x.rec.state # "Stopping" /\ start(s, f, x) = IF l.err THEN l ELSE BeginStart(s, f, b)
  <2>1. y.rec.state \notin {"Starting", "Running", "Active", "Stopping"} /\ ~ y.err
    BY <1>2, <1>9 DEF Up
  <2>2. /\ Coherent(s, l)
        /\ ~ l.err => Agree(y, l)
        /\ l.err => l.rec.state = "Failed" /\ ~ l.wants_running
    BY <1>3, <2>1, LimitEffect
  <2> HIDE DEF l
  <2>3. CASE l.err
    BY <1>9, <2>2, <2>3 DEF Sound, RestartLinked
  <2>4. CASE ~ l.err
    <3> DEFINE rec == R!start(l.rec)
               c == [l EXCEPT !.runtime_deadline = "none"]
    <3>1. rec \in R!ServiceRecord /\ rec.state = "Starting" /\ rec.pid = NoPid
      <4>1. PICK pid \in Pids : TRUE
        BY ManagedAssumption
      <4> QED BY <2>2, <4>1, StartTransitions DEF Coherent, Typed
    <3>2. Typed(s, c) /\ Agree(l, c) /\ ~ c.err /\ c.rec = l.rec
      BY <2>2, <2>4, FieldsAre DEF Coherent, Typed, Agree, Around, Helpers, Deadlines, Deadline
    <3>3. b = [c EXCEPT !.rec = R!start(@)]
      OBVIOUS
    <3> HIDE DEF b, c, rec
    <3>4. b = [c EXCEPT !.rec = rec]
      BY <3>2, <3>3, FieldsAre DEF Typed, rec
    <3>5. Typed(s, b) /\ Around(c, b) /\ b.rec = rec /\ ~ b.err
      BY <3>1, <3>2, <3>4, RecStep
    <3>6. l.rec.pid = NoPid /\ l.start_helper = "none" /\ l.child = "none"
      BY <2>1, <2>2, <2>4 DEF Coherent, ProcessLinked, PhasesLinked, Agree
    <3>7. Launchable(s, b)
      BY <2>2, <3>1, <3>2, <3>5, <3>6
         DEF Launchable, Sound, Coherent, Agree, Around, ProcessLinked, PhasesLinked,
             RestartLinked, Passed
    <3> QED BY <1>9, <2>4, <3>7, BeginStartSound
  <2> QED BY <2>3, <2>4
<1> QED BY <1>6, <1>7, <1>8, <1>9

(***************************************************************************)
(* A start that waited for the teardown.                                   *)
(***************************************************************************)
LEMMA TeardownGoes ==
  ASSUME NEW s, NEW f, NEW x, Sound(s, x), ~ x.err, s.start_limit_burst \in Nat
  PROVE  Goes(s, x, maybe_start_after_teardown(s, f, x))
<1>1. \/ maybe_start_after_teardown(s, f, x) = x
      \/ /\ maybe_start_after_teardown(s, f, x) = start(s, f, x)
         /\ x.restart_after_stop /\ x.wants_running
  BY DEF maybe_start_after_teardown
<1>2. Sound(s, start(s, f, x))
  BY StartSound DEF Sound
<1> QED BY <1>1, <1>2, GoesNowhere DEF Goes, Quiet

(***************************************************************************)
(* What a stop and a job timeout begin with.                               *)
(***************************************************************************)
LEMMA CallOffGoes ==
  ASSUME NEW s, NEW x, Coherent(s, x)
  PROVE  /\ Coherent(s, CallOff(x)) /\ Sound(s, CallOff(x))
         /\ ~ CallOff(x).wants_running /\ ~ CallOff(x).restart_after_stop
         /\ CallOff(x).rec = x.rec /\ CallOff(x).err = x.err
         /\ CallOff(x).start_helper = x.start_helper
<1> DEFINE y == [x EXCEPT !.wants_running = FALSE, !.restart_after_stop = FALSE,
                          !.restart_at = "none", !.runtime_deadline = "none"]
<1>1. /\ Typed(s, y) /\ ~ y.wants_running /\ ~ y.restart_after_stop
      /\ y.rec = x.rec /\ y.err = x.err /\ y.child = x.child /\ y.exit = x.exit
      /\ y.forking_pending = x.forking_pending
      /\ y.forking_parent_exited = x.forking_parent_exited
      /\ y.stop_command = x.stop_command /\ y.reload_command = x.reload_command
      /\ y.exec_condition_helper = x.exec_condition_helper
      /\ y.start_helper = x.start_helper /\ y.exec_conditions_done = x.exec_conditions_done
  BY FieldsAre DEF Coherent, Typed, Helpers, Deadlines, Deadline
<1>2. CallOff(x) = kill(y, {"dbus_probe"})
  BY DEF CallOff
<1> HIDE DEF y
<1>3. Sound(s, y)
  BY <1>1 DEF Sound, Coherent, ProcessLinked, PhasesLinked, Passed, RestartLinked
<1>4. /\ Typed(s, kill(y, {"dbus_probe"})) /\ Goes(s, y, kill(y, {"dbus_probe"}))
      /\ kill(y, {"dbus_probe"}).rec = y.rec /\ kill(y, {"dbus_probe"}).err = y.err
      /\ kill(y, {"dbus_probe"}).wants_running = y.wants_running
      /\ kill(y, {"dbus_probe"}).restart_after_stop = y.restart_after_stop
      /\ kill(y, {"dbus_probe"}).start_helper = y.start_helper
  BY <1>1, <1>3, KillGoes, FieldsAre DEF Helpers
<1> QED BY <1>1, <1>2, <1>4 DEF Goes, Sound

\* Nothing is wanted of the service, and it is not up.
Held(x) == ~ x.wants_running /\ ~ x.restart_after_stop /\ ~ Up(x)

(***************************************************************************)
(* A stop up to the commands: the record is stopping its process, or has   *)
(* come to rest, also when its start had not got as far as a process.      *)
(***************************************************************************)
LEMMA StopRecordHolds ==
  ASSUME NEW s, NEW x, Coherent(s, x)
  PROVE  LET y == CompleteUnspawned(StopRecord(s, x)) IN
         /\ Sound(s, y) /\ Held(y) /\ y.rec.state # "Backoff" /\ y.err = x.err
<1> DEFINE c == CallOff(x)
           rec == R!stop(c.rec)
           d == [c EXCEPT !.rec = rec]
           e == StopRecord(s, x)
           helpers == {"exec_condition_helper", "start_helper", "start_post_helper"}
           k == kill(e, helpers)
           done == R!stop_completed(e.rec)
           y == CompleteUnspawned(e)
<1>1. /\ Sound(s, c) /\ ~ c.wants_running /\ ~ c.restart_after_stop
      /\ c.rec = x.rec /\ c.err = x.err /\ Typed(s, c) /\ c.rec \in R!ServiceRecord
      /\ c.rec.state \in R!ServiceState
  BY CallOffGoes DEF Sound, Coherent, Typed, R!ServiceRecord
<1>2. /\ rec \in R!ServiceRecord /\ rec.pid = c.rec.pid
      /\ rec.state = CASE c.rec.state \in {"Starting", "Running"} -> "Stopping"
                       [] c.rec.state \in {"Active", "Backoff"} -> "Exited"
                       [] OTHER -> c.rec.state
  BY <1>1, StopTransitions
<1>3. rec.state \in {"Defined", "Stopping", "Exited", "Skipped", "Failed"}
  BY <1>1, <1>2 DEF R!ServiceState
<1>4. [CallOff(x) EXCEPT !.rec = R!stop(@)] = d
  BY <1>1, FieldsAre DEF Typed
<1> HIDE DEF c, rec
<1>5. Typed(s, d) /\ Around(c, d) /\ d.rec = rec /\ d.err = c.err
  BY <1>1, <1>2, RecStep
<1> HIDE DEF d
<1>6. Typed(s, e) /\ Agree(d, e) /\ e.err = d.err
  <2>1. e = d \/ e = send_signal(s, d, "term")
    BY <1>4 DEF StopRecord, SignalIf
  <2> HIDE DEF e
  <2> QED BY <1>5, <2>1, SignalStep DEF Agree, Around
<1> HIDE DEF e
<1>7. /\ e.rec = rec /\ ~ e.wants_running /\ ~ e.restart_after_stop /\ Around(c, e)
      /\ e.err = x.err
  BY <1>1, <1>5, <1>6 DEF Agree, Around
<1>8. CASE ~ R!stop_completed_ok(e.rec)
  <2>1. y = e
    BY <1>8 DEF CompleteUnspawned
  <2>2. rec.state = "Stopping" => rec.pid # NoPid
    BY <1>7, <1>8 DEF R!stop_completed_ok
  <2>3. c.rec.state = "Starting" => rec.state = "Stopping"
    BY <1>2
  <2>4. ProcessLinked(e)
    BY <1>1, <1>2, <1>3, <1>7, <2>2 DEF Sound, Coherent, ProcessLinked, Around
  <2>5. PhasesLinked(s, e)
    BY <1>1, <1>2, <1>7, <2>2, <2>3 DEF Sound, Coherent, PhasesLinked, Passed, Around
  <2>6. Sound(s, e) /\ Held(e) /\ e.rec.state # "Backoff"
    BY <1>3, <1>6, <1>7, <2>4, <2>5 DEF Sound, Coherent, RestartLinked, Held, Up
  <2> HIDE DEF y
  <2> QED BY <1>7, <2>1, <2>6 DEF y, e
<1>9. CASE R!stop_completed_ok(e.rec)
  <2> DEFINE z == [k EXCEPT !.rec = done, !.start_deadline = "none"]
             a == [k EXCEPT !.rec = done]
  <2>1. /\ Typed(s, k) /\ k.rec = e.rec /\ k.err = e.err
        /\ k.wants_running = e.wants_running /\ k.restart_after_stop = e.restart_after_stop
        /\ k.exec_condition_helper = "none" /\ k.start_helper = "none"
        /\ k.child = e.child /\ k.exit = e.exit
        /\ k.forking_pending = e.forking_pending
        /\ k.forking_parent_exited = e.forking_parent_exited
        /\ k.stop_command = e.stop_command /\ k.reload_command = e.reload_command
    BY <1>6, KillGoes, FieldsAre DEF Helpers
  <2>2. y = z
    BY <1>9, <2>1, FieldsAre DEF CompleteUnspawned, Typed
  <2> HIDE DEF k, y
  <2>3. done \in R!ServiceRecord /\ done.pid = NoPid /\ done.state = "Exited"
    BY <1>2, <1>7, <1>9, StopTransitions DEF R!stop_completed_ok
  <2> HIDE DEF done
  <2>4. Typed(s, a) /\ Around(k, a) /\ a.rec = done /\ a.err = k.err
    BY <2>1, <2>3, RecStep
  <2> HIDE DEF a
  <2>5. z = [a EXCEPT !.start_deadline = "none"]
    BY DEF a
  <2> HIDE DEF z
  <2>6. Typed(s, z) /\ Agree(a, z) /\ z.err = a.err
    BY <2>4, <2>5, FieldsAre DEF Typed, Agree, Around, Helpers, Deadlines, Deadline
  <2>7. rec.pid = NoPid
    BY <1>7, <1>9 DEF R!stop_completed_ok
  <2>8. ProcessLinked(z) /\ PhasesLinked(s, z)
    BY <1>1, <1>2, <1>7, <2>1, <2>3, <2>4, <2>6, <2>7
       DEF Sound, Coherent, ProcessLinked, PhasesLinked, Around, Agree
  <2>9. Sound(s, z) /\ Held(z) /\ z.rec.state # "Backoff" /\ z.err = x.err
    BY <1>7, <2>1, <2>3, <2>4, <2>6, <2>8 DEF Sound, Coherent, RestartLinked, Held, Up, Agree, Around
  <2> QED BY <2>2, <2>9 DEF y, e
<1> QED BY <1>8, <1>9

(***************************************************************************)
(* A stop: nothing is wanted any more and the service is not up, whichever *)
(* of its steps fails.                                                     *)
(***************************************************************************)
LEMMA StopHolds ==
  ASSUME NEW s, NEW f, NEW x, Coherent(s, x)
  PROVE  LET y == stop_with_signal(s, f, x) IN
         Sound(s, y) /\ Held(y) /\ y.rec.state # "Backoff"
<1> DEFINE Holds(z) == Sound(s, z) /\ Held(z) /\ z.rec.state # "Backoff"
<1>1. ASSUME NEW y, NEW z, Holds(y), Typed(s, z), Agree(y, z)
      PROVE  Holds(z)
  <2>1. Goes(s, y, z)
    BY <1>1, AgreeGoes
  <2> QED BY <1>1, <2>1 DEF Goes, Held, Agree, Around, Up
<1>2. ASSUME NEW y, Holds(y)
      PROVE  Typed(s, y)
  BY <1>2 DEF Sound, Coherent
<1> DEFINE a == CompleteUnspawned(StopRecord(s, x))
           b == StopActive(s, f, x.rec.state = "Active", a)
           c == ReleaseAtRest(b)
           d == StopCommand(s, f, c)
           e == [d EXCEPT !.stop_deadline = "none"]
           g == arm_stop_deadline(s, e)
<1>3. Holds(a)
  BY StopRecordHolds
<1>4. stop_with_signal(s, f, x) = IF b.err THEN b ELSE g
  BY DEF stop_with_signal, Try, With
<1> HIDE DEF Holds, a
<1>5. Holds(b)
  <2> DEFINE w == [a EXCEPT !.active_stop_helper = "running",
                            !.stop_deadline = timeout_deadline(s.stop_timeout)]
  <2>1. b = a \/ b = spawn_stop_post(s, f, a) \/ b = Err(a) \/ b = w
    BY DEF StopActive
  <2>2. timeout_deadline(s.stop_timeout) \in Deadline
    BY DEF timeout_deadline, Deadline
  <2>3. Typed(s, a)
    BY <1>2, <1>3
  <2>4. Typed(s, w) /\ Agree(a, w)
    BY <2>2, <2>3, FieldsAre DEF Typed, Agree, Around, Helpers, Deadlines, HelperValue
  <2> HIDE DEF b, w
  <2>5. Holds(spawn_stop_post(s, f, a)) /\ Holds(Err(a))
    BY <1>1, <1>3, <2>3, StopPostStep, ErrStep
  <2> QED BY <1>1, <1>3, <2>1, <2>4, <2>5
<1> HIDE DEF b
<1>6. Holds(c)
  <2>1. c = b \/ c = CleanUnless(b, "stop_post_helper")
    BY DEF ReleaseAtRest
  <2> HIDE DEF c
  <2> QED BY <1>1, <1>2, <1>5, <2>1, StopPostStep
<1> HIDE DEF c
<1>7. Holds(d)
  <2> DEFINE w == [c EXCEPT !.stop_command = "running"]
  <2>1. d = c \/ d = send_signal(s, c, "term") \/ (d = w /\ c.rec.pid # NoPid)
    BY DEF StopCommand
  <2>2. Typed(s, c)
    BY <1>2, <1>6
  <2>3. ASSUME c.rec.pid # NoPid PROVE Holds(w)
    <3>1. /\ Typed(s, w) /\ w.rec = c.rec /\ w.child = c.child /\ w.exit = c.exit
          /\ w.forking_pending = c.forking_pending
          /\ w.forking_parent_exited = c.forking_parent_exited
          /\ w.reload_command = c.reload_command
          /\ w.exec_condition_helper = c.exec_condition_helper
          /\ w.start_helper = c.start_helper /\ w.exec_conditions_done = c.exec_conditions_done
          /\ w.wants_running = c.wants_running /\ w.restart_after_stop = c.restart_after_stop
          /\ w.restart_at = c.restart_at
      BY <2>2, FieldsAre DEF Typed, Helpers, Deadlines, HelperValue
    <3> HIDE DEF w
    <3> QED BY <1>6, <2>3, <3>1
            DEF Holds, Sound, Coherent, ProcessLinked, PhasesLinked, Passed, RestartLinked, Held, Up
  <2> HIDE DEF d, w
  <2>4. Holds(send_signal(s, c, "term"))
    BY <1>1, <1>6, <2>2, SignalStep
  <2> QED BY <1>6, <2>1, <2>3, <2>4
<1> HIDE DEF d
<1>8. Holds(e)
  <2>1. Typed(s, d)
    BY <1>2, <1>7
  <2>2. Typed(s, e) /\ Agree(d, e)
    BY <2>1, FieldsAre DEF Typed, Agree, Around, Helpers, Deadlines, Deadline
  <2> HIDE DEF e
  <2> QED BY <1>1, <1>7, <2>2
<1> HIDE DEF e
<1>9. Holds(g)
  BY <1>1, <1>2, <1>8, DeadlineSteps
<1>10. Holds(stop_with_signal(s, f, x))
  BY <1>4, <1>5, <1>9
<1> QED BY <1>10 DEF Holds

(***************************************************************************)
(* A restart: stopped and started, or postponed.                           *)
(***************************************************************************)
LEMMA RestartSound ==
  ASSUME NEW s, NEW f, NEW x, Sound(s, x), ~ x.err, s.start_limit_burst \in Nat
  PROVE  Sound(s, restart(s, f, x))
<1> DEFINE y == [x EXCEPT !.wants_running = TRUE, !.restart_at = "none"]
           z == stop_with_signal(s, f, y)
           w == [z EXCEPT !.wants_running = TRUE, !.restart_after_stop = TRUE]
           v == [y EXCEPT !.restart_after_stop = TRUE]
           o == [y EXCEPT !.rec = R!stop(@)]
<1>1. Typed(s, x) /\ x.rec \in R!ServiceRecord
  BY DEF Sound, Coherent, Typed
<1>2. /\ Typed(s, y) /\ y.rec = x.rec /\ y.err = x.err
      /\ y.child = x.child /\ y.exit = x.exit /\ y.forking_pending = x.forking_pending
      /\ y.forking_parent_exited = x.forking_parent_exited
      /\ y.stop_command = x.stop_command /\ y.reload_command = x.reload_command
      /\ y.exec_condition_helper = x.exec_condition_helper
      /\ y.start_helper = x.start_helper /\ y.exec_conditions_done = x.exec_conditions_done
  BY <1>1, FieldsAre DEF Typed, Helpers, Deadlines, Deadline
<1>3. restart(s, f, x)
        = CASE x.rec.state \in {"Running", "Starting"} ->
                 (IF z.err THEN z ELSE IF z.rec.state = "Exited" THEN start(s, f, z) ELSE w)
            [] x.rec.state = "Stopping" -> v
            [] x.rec.state = "Backoff" -> start(s, f, o)
            [] x.rec.state = "Active" -> (IF z.err THEN z ELSE start(s, f, z))
            [] OTHER -> start(s, f, y)
  BY DEF restart, Try, With
<1> HIDE DEF y
<1>4. Coherent(s, y) /\ ~ y.err
  BY <1>2 DEF Sound, Coherent, ProcessLinked, PhasesLinked, Passed
<1>5. Sound(s, z) /\ z.rec.state # "Backoff"
  BY <1>4, StopHolds
<1> HIDE DEF z
<1>6. ~ z.err => Sound(s, start(s, f, z))
  BY <1>5, StartSound DEF Sound
<1>7. Sound(s, start(s, f, y))
  BY <1>4, StartSound
<1>8. Sound(s, w)
  <2>1. /\ Typed(s, w) /\ w.rec = z.rec /\ w.child = z.child /\ w.exit = z.exit
        /\ w.forking_pending = z.forking_pending
        /\ w.forking_parent_exited = z.forking_parent_exited
        /\ w.stop_command = z.stop_command /\ w.reload_command = z.reload_command
        /\ w.exec_condition_helper = z.exec_condition_helper
        /\ w.start_helper = z.start_helper /\ w.exec_conditions_done = z.exec_conditions_done
    BY <1>5, FieldsAre DEF Sound, Coherent, Typed, Helpers, Deadlines
  <2> HIDE DEF w
  <2> QED BY <1>5, <2>1 DEF Sound, Coherent, ProcessLinked, PhasesLinked, Passed, RestartLinked
<1>9. x.rec.state = "Stopping" => Sound(s, v)
  <2>1. /\ Typed(s, v) /\ v.rec = y.rec /\ v.child = y.child /\ v.exit = y.exit
        /\ v.forking_pending = y.forking_pending
        /\ v.forking_parent_exited = y.forking_parent_exited
        /\ v.stop_command = y.stop_command /\ v.reload_command = y.reload_command
        /\ v.exec_condition_helper = y.exec_condition_helper
        /\ v.start_helper = y.start_helper /\ v.exec_conditions_done = y.exec_conditions_done
    BY <1>2, FieldsAre DEF Typed, Helpers, Deadlines
  <2> HIDE DEF v
  <2> QED BY <1>2, <1>4, <2>1
          DEF Sound, Coherent, ProcessLinked, PhasesLinked, Passed, RestartLinked
<1>10. x.rec.state = "Backoff" => Sound(s, start(s, f, o))
  <2> SUFFICES ASSUME x.rec.state = "Backoff" PROVE Sound(s, start(s, f, o))
    OBVIOUS
  <2> DEFINE rec == R!stop(x.rec)
  <2>1. rec \in R!ServiceRecord /\ rec.pid = x.rec.pid /\ rec.state = "Exited"
    BY <1>1, StopTransitions
  <2>2. o = [y EXCEPT !.rec = rec]
    BY <1>2, FieldsAre DEF Typed
  <2> HIDE DEF rec, o
  <2>3. Typed(s, o) /\ Around(y, o) /\ o.rec = rec /\ ~ o.err
    BY <1>2, <1>4, <2>1, <2>2, RecStep
  <2>4. Coherent(s, o)
    BY <1>2, <1>4, <2>1, <2>3 DEF Coherent, Around, ProcessLinked, PhasesLinked, Passed
  <2> QED BY <2>3, <2>4, StartSound
<1> HIDE DEF w, v, o
<1> QED BY <1>3, <1>5, <1>6, <1>7, <1>8, <1>9, <1>10

(***************************************************************************)
(* A reload, and the reset of a failed service.                            *)
(***************************************************************************)
LEMMA ReloadGoes ==
  ASSUME NEW s, NEW f, NEW x, Sound(s, x)
  PROVE  Goes(s, x, reload(s, f, x))
<1> DEFINE y == [x EXCEPT !.reload_failed = FALSE]
           z == [x EXCEPT !.reload_failed = FALSE, !.reload_command = "running"]
<1>1. Typed(s, x)
  BY DEF Sound, Coherent
<1>2. Typed(s, y) /\ Agree(x, y)
  BY <1>1, FieldsAre DEF Typed, Agree, Around, Helpers, Deadlines
<1>3. /\ Typed(s, z) /\ z.rec = x.rec /\ z.child = x.child /\ z.exit = x.exit
      /\ z.forking_pending = x.forking_pending
      /\ z.forking_parent_exited = x.forking_parent_exited
      /\ z.stop_command = x.stop_command
      /\ z.exec_condition_helper = x.exec_condition_helper
      /\ z.start_helper = x.start_helper /\ z.exec_conditions_done = x.exec_conditions_done
      /\ z.wants_running = x.wants_running /\ z.restart_after_stop = x.restart_after_stop
      /\ z.restart_at = x.restart_at
  BY <1>1, FieldsAre DEF Typed, Helpers, Deadlines, HelperValue
<1>4. \/ reload(s, f, x) = Err(x)
      \/ reload(s, f, x) = x
      \/ reload(s, f, x) = Err(y)
      \/ reload(s, f, x) = z /\ x.rec.state = "Running"
  BY DEF reload
<1> HIDE DEF y, z
<1>5. Goes(s, x, Err(x)) /\ Goes(s, x, x) /\ Goes(s, x, y)
  BY <1>1, <1>2, ErrStep, AgreeGoes, GoesNowhere
<1>6. Goes(s, x, Err(y))
  BY <1>2, <1>5, ErrStep, AgreeGoes, GoesOn DEF Goes
<1>7. x.rec.state = "Running" => Goes(s, x, z)
  BY <1>3 DEF Goes, Quiet, Up, Sound, Coherent, ProcessLinked, PhasesLinked, Passed, RestartLinked
<1> QED BY <1>4, <1>5, <1>6, <1>7

(***************************************************************************)
(* The reset of a failed service.                                          *)
(***************************************************************************)
LEMMA ResetGoes ==
  ASSUME NEW s, NEW x, Sound(s, x), s.start_limit_burst \in Nat
  PROVE  Goes(s, x, reset_failed(x))
<1> DEFINE c == cleanup_directories(x)
           rec == R!reset(x.rec)
           d == [c EXCEPT !.rec = rec]
           e == [d EXCEPT !.start_attempts = 0, !.runtime_deadline = "none"]
<1>1. Typed(s, x) /\ x.rec \in R!ServiceRecord
  BY DEF Sound, Coherent, Typed
<1>2. Typed(s, c) /\ Agree(x, c) /\ c.rec = x.rec
  BY <1>1, CleanupStep DEF Agree
<1>3. rec \in R!ServiceRecord /\ rec.pid = NoPid /\ rec.state = "Defined"
  BY <1>1, FailTransitions
<1>4. reset_failed(x) = IF x.rec.state # "Failed" THEN x ELSE e
  <2>1. [c EXCEPT !.rec = R!reset(@)] = d
    BY <1>2, FieldsAre DEF Typed
  <2> QED BY <2>1 DEF reset_failed
<1> HIDE DEF c, rec
<1>5. Typed(s, d) /\ Around(c, d) /\ d.rec = rec
  BY <1>2, <1>3, RecStep
<1> HIDE DEF d
<1>6. Typed(s, e) /\ Agree(d, e)
  <2>1. 0 \in 0 .. s.start_limit_burst
    OBVIOUS
  <2>2. e.start_attempts = 0
    BY <1>5, FieldsAre DEF Typed
  <2> QED BY <1>5, <2>1, <2>2, FieldsAre DEF Typed, Agree, Around, Helpers, Deadlines, Deadline
<1> HIDE DEF e
<1>7. x.rec.state = "Failed" => Goes(s, x, d)
  BY <1>2, <1>3, <1>5
     DEF Goes, Quiet, Up, Sound, Coherent, Agree, Around, ProcessLinked, PhasesLinked, Passed,
         RestartLinked
<1>8. x.rec.state = "Failed" => Goes(s, x, e)
  BY <1>6, <1>7, AgreeGoes, GoesOn DEF Goes
<1> QED BY <1>4, <1>8, GoesNowhere

(***************************************************************************)
(* A job timeout calls off what is wanted, and ends what was starting.     *)
(***************************************************************************)
LEMMA JobTimeoutGoes ==
  ASSUME NEW s, NEW x, Sound(s, x)
  PROVE  Goes(s, x, mark_job_timeout(s, x))
<1> DEFINE y == CallOff(x)
           helpers == {"start_helper", "exec_condition_helper", "start_post_helper"}
           failed(rec) == [y EXCEPT !.rec = rec, !.start_deadline = "none"]
           failing(rec) == EndProcess(s, kill(failed(rec), helpers))
           c == cleanup_directories(y)
           timed == [c EXCEPT !.rec = R!job_timed_out(@), !.start_deadline = "none"]
<1>1. /\ Sound(s, y) /\ Typed(s, y) /\ y.rec \in R!ServiceRecord
      /\ ~ y.wants_running /\ ~ y.restart_after_stop /\ y.rec = x.rec
  BY CallOffGoes DEF Sound, Coherent, Typed
<1>2. mark_job_timeout(s, x)
        = CASE R!job_timed_out_ok(x.rec) -> timed
            [] x.rec.state = "Starting" -> failing(R!start_timed_out(x.rec))
            [] x.rec.state = "Running" -> failing(R!start_failed(x.rec))
            [] OTHER -> y
  BY DEF mark_job_timeout
<1> HIDE DEF y
<1>3. ASSUME NEW z, NEW rec \in R!ServiceRecord, Typed(s, z), Agree(y, z)
      PROVE  LET w == [z EXCEPT !.rec = rec, !.start_deadline = "none"] IN
             Typed(s, w) /\ Around(y, w) /\ w.rec = rec
  <2> DEFINE v == [z EXCEPT !.rec = rec]
             w == [v EXCEPT !.start_deadline = "none"]
  <2>1. Typed(s, v) /\ Around(z, v) /\ v.rec = rec
    BY <1>3, RecStep
  <2> HIDE DEF v
  <2>2. Typed(s, w) /\ Agree(v, w)
    BY <2>1, FieldsAre DEF Typed, Agree, Around, Helpers, Deadlines, Deadline
  <2> HIDE DEF w
  <2>3. Typed(s, w) /\ Around(y, w) /\ w.rec = rec
    BY <1>3, <2>1, <2>2 DEF Agree, Around
  <2> QED BY <2>3 DEF w, v
<1>4. Goes(s, x, y)
  BY <1>1 DEF Goes, Quiet, Up
<1>5. R!job_timed_out_ok(x.rec) => Goes(s, x, timed)
  <2> SUFFICES ASSUME R!job_timed_out_ok(x.rec) PROVE Goes(s, x, timed)
    OBVIOUS
  <2> DEFINE rec == R!job_timed_out(x.rec)
  <2>1. rec \in R!ServiceRecord /\ rec.pid = NoPid /\ rec.state = "Failed"
    BY <1>1, FailTransitions
  <2>2. Typed(s, c) /\ Agree(y, c) /\ c.rec = x.rec
    BY <1>1, CleanupStep DEF Agree
  <2> HIDE DEF c
  <2>3. timed = [c EXCEPT !.rec = rec, !.start_deadline = "none"]
    BY <2>2, FieldsAre DEF Typed
  <2> HIDE DEF rec, timed
  <2>4. Typed(s, timed) /\ Around(y, timed) /\ timed.rec = rec
    BY <1>3, <2>1, <2>2, <2>3
  <2>5. x.rec.state \notin {"Starting", "Running", "Stopping"}
    BY DEF R!job_timed_out_ok
  <2>6. y.start_helper = "none" /\ y.rec.pid = NoPid
    BY <1>1, <2>5 DEF Sound, Coherent, ProcessLinked, PhasesLinked
  <2>7. Coherent(s, timed)
    BY <1>1, <2>1, <2>4, <2>6 DEF Sound, Coherent, Around, ProcessLinked, PhasesLinked, Passed
  <2> QED BY <1>1, <2>1, <2>4, <2>7 DEF Goes, Sound, RestartLinked, Quiet, Up, Around
<1>6. ASSUME NEW rec \in R!ServiceRecord, rec.pid = x.rec.pid,
             rec.state = IF x.rec.pid # NoPid THEN "Stopping" ELSE "Failed"
      PROVE  Goes(s, x, failing(rec))
  <2> DEFINE w == failed(rec)
             k == kill(w, helpers)
  <2>1. Typed(s, w) /\ Around(y, w) /\ w.rec = rec
    BY <1>1, <1>3 DEF Agree, Around
  <2> HIDE DEF w
  <2>2. /\ Typed(s, k) /\ k.rec = w.rec
        /\ k.wants_running = w.wants_running /\ k.restart_after_stop = w.restart_after_stop
        /\ k.exec_condition_helper = "none" /\ k.start_helper = "none"
        /\ k.exec_conditions_done = w.exec_conditions_done
        /\ k.child = w.child /\ k.exit = w.exit
        /\ k.forking_pending = w.forking_pending
        /\ k.forking_parent_exited = w.forking_parent_exited
        /\ k.stop_command = w.stop_command /\ k.reload_command = w.reload_command
    BY <2>1, KillGoes, FieldsAre DEF Helpers
  <2> HIDE DEF k
  <2>3. Goes(s, x, k)
    BY <1>1, <1>6, <2>1, <2>2
       DEF Goes, Quiet, Up, Sound, Coherent, Around, ProcessLinked, PhasesLinked, RestartLinked,
           Passed
  <2>4. Typed(s, EndProcess(s, k)) /\ Agree(k, EndProcess(s, k))
    BY <2>2, DeadlineSteps
  <2>5. Goes(s, x, EndProcess(s, k))
    BY <2>3, <2>4, AgreeGoes, GoesOn DEF Goes
  <2> QED BY <2>5 DEF k, w
<1>7. Goes(s, x, failing(R!start_timed_out(x.rec))) /\ Goes(s, x, failing(R!start_failed(x.rec)))
  <2> HIDE DEF failing
  <2> QED BY <1>1, <1>6, FailTransitions
<1> HIDE DEF timed, failing
<1> QED BY <1>2, <1>4, <1>5, <1>7

-----------------------------------------------------------------------------
(***************************************************************************)
(* Polls.                                                                  *)
(***************************************************************************)

(***************************************************************************)
(* A service becomes ready.                                                *)
(***************************************************************************)
LEMMA ReadyGoes ==
  ASSUME NEW s, NEW f, NEW x, Sound(s, x)
  PROVE  Goes(s, x, BecomeReady(s, f, x))
<1> DEFINE ok == R!ready_ok(x.rec, x.rec.pid, x.rec.generation)
           rec == R!ready(x.rec)
           y == Commit(x, ok, rec)
           z == arm_runtime_limit(s, y)
           w == [z EXCEPT !.start_deadline = "none"]
<1>1. Typed(s, x) /\ x.rec \in R!ServiceRecord
  BY DEF Sound, Coherent, Typed
<1>2. BecomeReady(s, f, x) = IF y.err THEN y ELSE spawn_start_post(s, f, w)
  <2> HIDE DEF y
  <2>1. Try(y, LAMBDA v : spawn_start_post(s, f,
                            [arm_runtime_limit(s, v) EXCEPT !.start_deadline = "none"]))
          = IF y.err THEN y ELSE spawn_start_post(s, f, w)
    BY DEF Try, With
  <2> QED BY <2>1 DEF BecomeReady, y
<1>3. rec \in R!ServiceRecord /\ rec.pid = x.rec.pid /\ rec.state = "Running"
  <2>1. PICK pid \in Pids : TRUE
    BY ManagedAssumption
  <2> QED BY <1>1, <2>1, StartTransitions
<1>4. ok => x.rec.state = "Starting" /\ x.rec.pid # NoPid
  BY DEF R!ready_ok
<1> HIDE DEF ok, rec
<1>5. Goes(s, x, y) /\ Typed(s, y)
  <2>1. CASE ok
    <3>1. y = [x EXCEPT !.rec = rec]
      BY <2>1 DEF Commit
    <3> HIDE DEF y
    <3>2. Typed(s, y) /\ Around(x, y) /\ y.rec = rec
      BY <1>1, <1>3, <3>1, RecStep
    <3> QED BY <1>3, <1>4, <2>1, <3>2
            DEF Goes, Quiet, Up, Sound, Coherent, Around, ProcessLinked, PhasesLinked,
                RestartLinked, Passed
  <2>2. CASE ~ ok
    BY <1>1, <2>2, ErrStep, AgreeGoes DEF Commit
  <2> QED BY <2>1, <2>2
<1> HIDE DEF y
<1>6. Typed(s, z) /\ Agree(y, z)
  BY <1>5, DeadlineSteps
<1> HIDE DEF z
<1>7. Typed(s, w) /\ Agree(z, w)
  BY <1>6, FieldsAre DEF Typed, Agree, Around, Helpers, Deadlines, Deadline
<1> HIDE DEF w
<1>8. Goes(s, x, w)
  BY <1>5, <1>6, <1>7, AgreeGoes, GoesOn DEF Goes
<1>9. Goes(s, x, spawn_start_post(s, f, w))
  BY <1>8, StartPostGoes, GoesOn DEF Goes
<1> QED BY <1>2, <1>5, <1>9

(***************************************************************************)
(* Notifications.                                                          *)
(***************************************************************************)
LEMMA NotifyGoes ==
  ASSUME NEW s, NEW f, NEW x, Sound(s, x)
  PROVE  Goes(s, x, observe_notify(s, f, x))
<1> DEFINE y == [x EXCEPT !.notify = IF @ = "closed" THEN @ ELSE "open"]
           z == arm_watchdog(s, y)
<1>1. Typed(s, x)
  BY DEF Sound, Coherent
<1>2. Typed(s, y) /\ Agree(x, y)
  BY <1>1, FieldsAre DEF Typed, Agree, Around, Helpers, Deadlines
<1>3. \/ observe_notify(s, f, x) = BecomeReady(s, f, z)
      \/ observe_notify(s, f, x) = z
      \/ observe_notify(s, f, x) = y
  BY DEF observe_notify
<1> HIDE DEF y
<1>4. Typed(s, z) /\ Agree(y, z)
  BY <1>2, DeadlineSteps
<1> HIDE DEF z
<1>5. Goes(s, x, y) /\ Goes(s, x, z)
  BY <1>2, <1>4, AgreeGoes, GoesOn DEF Goes
<1>6. Goes(s, x, BecomeReady(s, f, z))
  BY <1>5, ReadyGoes, GoesOn DEF Goes
<1> QED BY <1>3, <1>5, <1>6

(***************************************************************************)
(* The probe of a D-Bus name.                                              *)
(***************************************************************************)
LEMMA DbusGoes ==
  ASSUME NEW s, NEW f, NEW x, Sound(s, x)
  PROVE  Goes(s, x, observe_dbus(s, f, x))
<1> DEFINE y == [x EXCEPT !.dbus_probe = "none", !.dbus_ready = (x.rec.pid # NoPid)]
           z == [x EXCEPT !.dbus_probe = "running"]
<1>1. Typed(s, x)
  BY DEF Sound, Coherent
<1>2. /\ Typed(s, y) /\ Agree(x, y)
      /\ Typed(s, z) /\ Agree(x, z)
  BY <1>1, FieldsAre DEF Typed, Agree, Around, Helpers, Deadlines, HelperValue
<1>3. \/ observe_dbus(s, f, x) = x
      \/ observe_dbus(s, f, x) = BecomeReady(s, f, y)
      \/ observe_dbus(s, f, x) = z
  BY DEF observe_dbus
<1> HIDE DEF y, z
<1>4. Goes(s, x, y) /\ Goes(s, x, z)
  BY <1>2, AgreeGoes
<1>5. Goes(s, x, BecomeReady(s, f, y))
  BY <1>4, ReadyGoes, GoesOn DEF Goes
<1> QED BY <1>3, <1>4, <1>5, GoesNowhere

(***************************************************************************)
(* The kernel killed a process of the service for want of memory.          *)
(***************************************************************************)
LEMMA OomGoes ==
  ASSUME NEW s, NEW f, NEW x, Sound(s, x)
  PROVE  Goes(s, x, check_oom(s, f, x))
<1> DEFINE y == [x EXCEPT !.oom = FALSE]
           z == [y EXCEPT !.signal = "kill"]
<1>1. Typed(s, x)
  BY DEF Sound, Coherent
<1>2. Typed(s, y) /\ Agree(x, y)
  BY <1>1, FieldsAre DEF Typed, Agree, Around, Helpers, Deadlines
<1>3. \/ check_oom(s, f, x) = y
      \/ check_oom(s, f, x) = stop_with_signal(s, f, y)
      \/ check_oom(s, f, x) = z
  BY DEF check_oom
<1> HIDE DEF y
<1>4. Typed(s, z) /\ Agree(y, z)
  BY <1>2, FieldsAre DEF Typed, Agree, Around, Helpers, Deadlines
<1> HIDE DEF z
<1>5. Goes(s, x, y) /\ Goes(s, x, z)
  BY <1>2, <1>4, AgreeGoes, GoesOn DEF Goes
<1>6. Goes(s, x, stop_with_signal(s, f, y))
  BY <1>5, StopHolds DEF Goes, Sound, Held, Quiet
<1> QED BY <1>3, <1>5, <1>6

(***************************************************************************)
(* A process of the record is to end: the record is stopping it, or has    *)
(* failed when there is none.                                              *)
(***************************************************************************)
LEMMA EndingGoes ==
  ASSUME NEW s, NEW x, NEW y, Sound(s, x), Typed(s, y), Around(x, y),
         y.rec.pid = x.rec.pid, x.start_helper = "none",
         y.rec.state = IF x.rec.pid # NoPid THEN "Stopping" ELSE "Failed"
  PROVE  Goes(s, x, EndProcess(s, y))
<1>1. Goes(s, x, y)
  BY DEF Goes, Quiet, Up, Sound, Coherent, Around, ProcessLinked, PhasesLinked,
         RestartLinked, Passed
<1>2. Typed(s, EndProcess(s, y)) /\ Agree(y, EndProcess(s, y))
  BY DeadlineSteps
<1> QED BY <1>1, <1>2, AgreeGoes, GoesOn DEF Goes

(***************************************************************************)
(* The watchdog and the limit on the running time.                         *)
(***************************************************************************)
LEMMA LimitsGo ==
  ASSUME NEW s, NEW x, Sound(s, x)
  PROVE  Goes(s, x, check_runtime_limit(s, check_watchdog(s, x)))
<1> DEFINE w == [x EXCEPT !.watchdog_deadline = "none"]
           y == check_watchdog(s, x)
           c == [y EXCEPT !.runtime_deadline = "none"]
           rec == R!runtime_timed_out(c.rec)
           d == [c EXCEPT !.rec = rec]
<1>1. Typed(s, x)
  BY DEF Sound, Coherent
<1>2. Typed(s, w) /\ Agree(x, w)
  BY <1>1, FieldsAre DEF Typed, Agree, Around, Helpers, Deadlines, Deadline
<1>3. y = x \/ y = send_signal(s, w, "abort")
  BY DEF check_watchdog
<1> HIDE DEF w, y
<1>4. Goes(s, x, y)
  BY <1>2, <1>3, SignalStep, AgreeGoes, GoesNowhere, GoesOn DEF Goes
<1>5. Typed(s, y) /\ Sound(s, y)
  BY <1>4 DEF Goes, Sound, Coherent
<1>6. Typed(s, c) /\ Agree(y, c) /\ c.rec = y.rec
  BY <1>5, FieldsAre DEF Typed, Agree, Around, Helpers, Deadlines, Deadline
<1>7. \/ check_runtime_limit(s, y) = y
      \/ check_runtime_limit(s, y) = EndProcess(s, d) /\ y.rec.state = "Running"
  <2>1. [c EXCEPT !.rec = R!runtime_timed_out(@)] = d
    BY <1>6, FieldsAre DEF Typed
  <2> QED BY <2>1 DEF check_runtime_limit
<1> HIDE DEF c
<1>8. Goes(s, x, c) /\ c.rec \in R!ServiceRecord
  BY <1>4, <1>5, <1>6, AgreeGoes, GoesOn DEF Goes, Typed
<1>9. /\ rec \in R!ServiceRecord /\ rec.pid = c.rec.pid
      /\ rec.state = IF c.rec.pid # NoPid THEN "Stopping" ELSE "Failed"
  BY <1>8, FailTransitions
<1> HIDE DEF rec
<1>10. Typed(s, d) /\ Around(c, d) /\ d.rec = rec
  BY <1>6, <1>9, RecStep
<1> HIDE DEF d
<1>11. y.rec.state = "Running" => Goes(s, x, EndProcess(s, d))
  <2> SUFFICES ASSUME y.rec.state = "Running" PROVE Goes(s, x, EndProcess(s, d))
    OBVIOUS
  <2>1. c.start_helper = "none" /\ Sound(s, c)
    BY <1>6, <1>8 DEF Goes, Sound, Coherent, PhasesLinked
  <2>2. Goes(s, c, EndProcess(s, d))
    BY <1>9, <1>10, <2>1, EndingGoes
  <2> QED BY <1>8, <2>2, GoesOn
<1>12. Goes(s, x, check_runtime_limit(s, y))
  BY <1>4, <1>7, <1>11
<1> QED BY <1>12 DEF y

(***************************************************************************)
(* ExecCondition has ended.  It ran before any process, so that nothing is *)
(* being stopped.                                                          *)
(***************************************************************************)
LEMMA ConditionGoes ==
  ASSUME NEW s, NEW f, NEW x, Sound(s, x), ~ x.err, x.exec_condition_helper # "none"
  PROVE  Goes(s, x, handle_exec_condition_exit(s, f, x))
<1> DEFINE y == [x EXCEPT !.exec_condition_helper = "none"]
           z == [y EXCEPT !.exec_conditions_done = TRUE]
           ended == [y EXCEPT !.start_deadline = "none"]
           ok == R!condition_skipped_ok(x.rec, x.rec.generation)
           rec == R!condition_skipped(x.rec)
           w == Commit(ended, ok, rec)
<1>1. /\ Typed(s, x) /\ x.rec \in R!ServiceRecord /\ x.rec.pid = NoPid
      /\ x.rec.state \notin {"Running", "Stopping"}
      /\ x.start_helper = "none" /\ x.child = "none"
  BY DEF Sound, Coherent, Typed, ProcessLinked, PhasesLinked
<1>2. handle_exec_condition_exit(s, f, x)
        = CASE x.exec_condition_helper = "ok" ->
                 (IF z.rec.state = "Starting" THEN spawn(s, f, z) ELSE z)
            [] x.exec_condition_helper = "skip" ->
                 (IF w.err THEN w ELSE cleanup_directories(w))
            [] OTHER -> mark_spawn_failed(s, ended)
  <2>1. Try(w, cleanup_directories) = IF w.err THEN w ELSE cleanup_directories(w)
    BY DEF Try, With
  <2> HIDE DEF w
  <2> QED BY <1>1, <2>1 DEF handle_exec_condition_exit, w
<1>3. /\ Typed(s, y) /\ y.rec = x.rec /\ y.err = x.err /\ y.child = x.child /\ y.exit = x.exit
      /\ y.forking_pending = x.forking_pending
      /\ y.forking_parent_exited = x.forking_parent_exited
      /\ y.stop_command = x.stop_command /\ y.reload_command = x.reload_command
      /\ y.exec_condition_helper = "none" /\ y.start_helper = "none"
      /\ y.exec_conditions_done = x.exec_conditions_done
      /\ y.wants_running = x.wants_running /\ y.restart_after_stop = x.restart_after_stop
      /\ y.restart_at = x.restart_at
  BY <1>1, FieldsAre DEF Typed, Helpers, Deadlines, HelperValue
<1> HIDE DEF y
<1>4. Goes(s, x, y)
  BY <1>1, <1>3 DEF Goes, Quiet, Up, Sound, Coherent, ProcessLinked, PhasesLinked, Passed,
                    RestartLinked
<1>5. /\ Typed(s, z) /\ z.rec = y.rec /\ z.err = y.err /\ z.child = y.child /\ z.exit = y.exit
      /\ z.forking_pending = y.forking_pending
      /\ z.forking_parent_exited = y.forking_parent_exited
      /\ z.stop_command = y.stop_command /\ z.reload_command = y.reload_command
      /\ z.exec_condition_helper = "none" /\ z.start_helper = "none" /\ z.exec_conditions_done
      /\ z.wants_running = y.wants_running /\ z.restart_after_stop = y.restart_after_stop
      /\ z.restart_at = y.restart_at
  BY <1>3, FieldsAre DEF Typed, Helpers, Deadlines
<1> HIDE DEF z
<1>6. Goes(s, x, z)
  BY <1>1, <1>3, <1>5 DEF Goes, Quiet, Up, Sound, Coherent, ProcessLinked, PhasesLinked, Passed,
                          RestartLinked
<1>7. z.rec.state = "Starting" => Goes(s, x, spawn(s, f, z))
  <2>1. z.rec.state = "Starting" => Launchable(s, z)
    BY <1>1, <1>3, <1>5, <1>6 DEF Goes, Launchable
  <2> QED BY <1>6, <2>1, SpawnGoes, GoesOn
<1>8. Typed(s, ended) /\ Agree(y, ended) /\ ended.err = y.err
  BY <1>3, FieldsAre DEF Typed, Agree, Around, Helpers, Deadlines, Deadline
<1> HIDE DEF ended
<1>9. Goes(s, x, ended) /\ ended.rec = x.rec /\ ended.start_helper = "none" /\ ~ ended.err
  BY <1>3, <1>4, <1>8, AgreeGoes, GoesOn DEF Goes, Agree, Around
<1>10. Goes(s, x, mark_spawn_failed(s, ended))
  BY <1>1, <1>9, SpawnFailedGoes, GoesOn DEF Goes
<1>11. rec \in R!ServiceRecord /\ rec.pid = NoPid /\ rec.state = "Skipped"
  <2>1. PICK pid \in Pids : TRUE
    BY ManagedAssumption
  <2> QED BY <1>1, <2>1, StartTransitions
<1> HIDE DEF rec, ok
<1>12. Goes(s, x, w)
  <2>1. CASE ok
    <3>1. w = [ended EXCEPT !.rec = rec]
      BY <2>1 DEF Commit
    <3> HIDE DEF w
    <3>2. Typed(s, w) /\ Around(ended, w) /\ w.rec = rec
      BY <1>8, <1>11, <3>1, RecStep
    <3> QED BY <1>1, <1>9, <1>11, <3>2
            DEF Goes, Quiet, Up, Sound, Coherent, Around, ProcessLinked, PhasesLinked,
                RestartLinked, Passed
  <2>2. CASE ~ ok
    BY <1>8, <1>9, <2>2, ErrStep, AgreeGoes, GoesOn DEF Commit, Goes
  <2> QED BY <2>1, <2>2
<1> HIDE DEF w
<1>13. Goes(s, x, cleanup_directories(w))
  BY <1>12, CleanupStep, AgreeGoes, GoesOn DEF Goes, Sound, Coherent
<1> QED BY <1>2, <1>6, <1>7, <1>10, <1>12, <1>13

(***************************************************************************)
(* ExecStartPre has ended.                                                 *)
(***************************************************************************)
LEMMA StartHelperGoes ==
  ASSUME NEW s, NEW f, NEW x, Sound(s, x), ~ x.err, x.start_helper # "none"
  PROVE  Goes(s, x, handle_start_helper_exit(s, f, x))
<1> DEFINE y == [x EXCEPT !.start_helper = "none"]
           z == [y EXCEPT !.start_deadline = "none"]
<1>1. Typed(s, x) /\ x.rec.state = "Starting" /\ x.rec.pid = NoPid /\ Passed(s, x)
  BY DEF Sound, Coherent, PhasesLinked
<1>2. handle_start_helper_exit(s, f, x)
        = IF x.start_helper # "ok" THEN mark_spawn_failed(s, z) ELSE spawn_main(s, f, y)
  BY <1>1 DEF handle_start_helper_exit
<1>3. /\ Typed(s, y) /\ y.rec = x.rec /\ y.err = x.err /\ y.child = x.child /\ y.exit = x.exit
      /\ y.forking_pending = x.forking_pending
      /\ y.forking_parent_exited = x.forking_parent_exited
      /\ y.stop_command = x.stop_command /\ y.reload_command = x.reload_command
      /\ y.exec_condition_helper = x.exec_condition_helper /\ y.start_helper = "none"
      /\ y.exec_conditions_done = x.exec_conditions_done
      /\ y.wants_running = x.wants_running /\ y.restart_after_stop = x.restart_after_stop
      /\ y.restart_at = x.restart_at
  BY <1>1, FieldsAre DEF Typed, Helpers, Deadlines, HelperValue
<1> HIDE DEF y
<1>4. Goes(s, x, y)
  BY <1>1, <1>3 DEF Goes, Quiet, Up, Sound, Coherent, ProcessLinked, PhasesLinked, Passed,
                    RestartLinked
<1>5. Launchable(s, y) /\ Passed(s, y)
  BY <1>1, <1>3, <1>4 DEF Launchable, Goes, Passed
<1>6. Typed(s, z) /\ Agree(y, z) /\ z.err = y.err
  BY <1>3, FieldsAre DEF Typed, Agree, Around, Helpers, Deadlines, Deadline
<1> HIDE DEF z
<1>7. Goes(s, x, z) /\ z.rec.pid = NoPid /\ z.start_helper = "none" /\ ~ z.err
  BY <1>1, <1>3, <1>4, <1>6, AgreeGoes, GoesOn DEF Goes, Agree, Around
<1>8. Goes(s, x, mark_spawn_failed(s, z))
  BY <1>7, SpawnFailedGoes, GoesOn DEF Goes
<1>9. Goes(s, x, spawn_main(s, f, y))
  BY <1>4, <1>5, SpawnMainGoes, GoesOn
<1> QED BY <1>2, <1>8, <1>9

(***************************************************************************)
(* ExecStartPost has ended: a failure stops the running process.           *)
(***************************************************************************)
LEMMA StartPostExitGoes ==
  ASSUME NEW s, NEW x, Sound(s, x)
  PROVE  Goes(s, x, handle_start_post_exit(s, x))
<1> DEFINE y == [x EXCEPT !.start_post_helper = "none"]
           rec == R!start_failed(y.rec)
           z == [y EXCEPT !.rec = rec]
           w == [z EXCEPT !.start_deadline = "none", !.stop_deadline = "none"]
<1>1. Typed(s, x)
  BY DEF Sound, Coherent
<1>2. Typed(s, y) /\ Agree(x, y) /\ y.rec = x.rec
  BY <1>1, FieldsAre DEF Typed, Agree, Around, Helpers, Deadlines, HelperValue
<1>3. \/ handle_start_post_exit(s, x) = y
      \/ handle_start_post_exit(s, x) = EndProcess(s, w) /\ x.rec.state = "Running"
  <2>1. [y EXCEPT !.rec = R!start_failed(@)] = z
    BY <1>2, FieldsAre DEF Typed
  <2> QED BY <2>1 DEF handle_start_post_exit
<1> HIDE DEF y
<1>4. Goes(s, x, y) /\ y.rec \in R!ServiceRecord
  BY <1>2, AgreeGoes DEF Typed
<1>5. /\ rec \in R!ServiceRecord /\ rec.pid = y.rec.pid
      /\ rec.state = IF y.rec.pid # NoPid THEN "Stopping" ELSE "Failed"
  BY <1>4, FailTransitions
<1> HIDE DEF rec
<1>6. Typed(s, z) /\ Around(y, z) /\ z.rec = rec
  BY <1>2, <1>5, RecStep
<1> HIDE DEF z
<1>7. Typed(s, w) /\ Agree(z, w)
  BY <1>6, FieldsAre DEF Typed, Agree, Around, Helpers, Deadlines, Deadline
<1> HIDE DEF w
<1>8. x.rec.state = "Running" => Goes(s, x, EndProcess(s, w))
  <2> SUFFICES ASSUME x.rec.state = "Running" PROVE Goes(s, x, EndProcess(s, w))
    OBVIOUS
  <2>1. y.start_helper = "none" /\ Sound(s, y)
    BY <1>2, <1>4 DEF Goes, Sound, Coherent, PhasesLinked
  <2>2. w.rec = rec /\ Around(y, w)
    BY <1>6, <1>7 DEF Agree, Around
  <2>3. Goes(s, y, EndProcess(s, w))
    BY <1>5, <1>7, <2>1, <2>2, EndingGoes
  <2> QED BY <1>4, <2>3, GoesOn
<1> QED BY <1>3, <1>4, <1>8

(***************************************************************************)
(* The stop command of an active service, and ExecStopPost, have ended.    *)
(***************************************************************************)
LEMMA TornDownGoes ==
  ASSUME NEW s, NEW f, NEW x, Sound(s, x), ~ x.err, s.start_limit_burst \in Nat
  PROVE  Goes(s, x, AfterActiveStop(s, f, x)) /\ Goes(s, x, handle_stop_post_exit(s, f, x))
<1>1. Typed(s, x)
  BY DEF Sound, Coherent
<1>2. Goes(s, x, AfterActiveStop(s, f, x))
  <2> DEFINE a == [x EXCEPT !.active_stop_helper = "none", !.stop_deadline = "none"]
             b == spawn_stop_post(s, f, a)
             c == CleanUnless(b, "stop_post_helper")
  <2>1. Typed(s, a) /\ Agree(x, a) /\ ~ a.err
    BY <1>1, FieldsAre DEF Typed, Agree, Around, Helpers, Deadlines, Deadline, HelperValue
  <2> HIDE DEF a
  <2>2. Typed(s, b) /\ Agree(a, b) /\ ~ b.err
    BY <2>1, StopPostStep
  <2> HIDE DEF b
  <2>3. Typed(s, c) /\ Agree(b, c) /\ ~ c.err
    BY <2>2, StopPostStep
  <2> HIDE DEF c
  <2>4. Goes(s, x, c)
    BY <2>1, <2>2, <2>3, AgreeGoes, GoesOn DEF Goes
  <2>5. Goes(s, x, maybe_start_after_teardown(s, f, c))
    BY <2>3, <2>4, TeardownGoes, GoesOn DEF Goes
  <2> QED BY <2>5 DEF AfterActiveStop, a, b, c
<1>3. Goes(s, x, handle_stop_post_exit(s, f, x))
  <2> DEFINE a == [x EXCEPT !.stop_post_helper = "none", !.stop_deadline = "none"]
             c == cleanup_directories(a)
  <2>1. Typed(s, a) /\ Agree(x, a) /\ ~ a.err
    BY <1>1, FieldsAre DEF Typed, Agree, Around, Helpers, Deadlines, Deadline, HelperValue
  <2> HIDE DEF a
  <2>2. Typed(s, c) /\ Agree(a, c) /\ ~ c.err
    BY <2>1, CleanupStep
  <2> HIDE DEF c
  <2>3. Goes(s, x, c)
    BY <2>1, <2>2, AgreeGoes, GoesOn DEF Goes
  <2>4. Goes(s, x, maybe_start_after_teardown(s, f, c))
    BY <2>2, <2>3, TeardownGoes, GoesOn DEF Goes
  <2> QED BY <2>4 DEF handle_stop_post_exit, a, c
<1> QED BY <1>2, <1>3

(***************************************************************************)
(* The reload command and the stop command have ended.                     *)
(***************************************************************************)
LEMMA CommandsGo ==
  ASSUME NEW s, NEW x, Sound(s, x)
  PROVE  Goes(s, x, handle_reload_exit(x)) /\ Goes(s, x, handle_stop_exit(s, x))
<1>1. Typed(s, x)
  BY DEF Sound, Coherent
<1>2. Goes(s, x, handle_reload_exit(x))
  <2> DEFINE y == handle_reload_exit(x)
  <2>1. /\ Typed(s, y) /\ y.rec = x.rec /\ y.child = x.child /\ y.exit = x.exit
        /\ y.forking_pending = x.forking_pending
        /\ y.forking_parent_exited = x.forking_parent_exited
        /\ y.stop_command = x.stop_command /\ y.reload_command = "none"
        /\ y.exec_condition_helper = x.exec_condition_helper /\ y.start_helper = x.start_helper
        /\ y.exec_conditions_done = x.exec_conditions_done
        /\ y.wants_running = x.wants_running /\ y.restart_after_stop = x.restart_after_stop
        /\ y.restart_at = x.restart_at
    BY <1>1, FieldsAre DEF handle_reload_exit, Typed, Helpers, Deadlines, HelperValue
  <2> HIDE DEF y
  <2>2. Goes(s, x, y)
    BY <2>1 DEF Goes, Quiet, Up, Sound, Coherent, ProcessLinked, PhasesLinked, Passed, RestartLinked
  <2> QED BY <2>2 DEF y
<1>3. Goes(s, x, handle_stop_exit(s, x))
  <2> DEFINE y == [x EXCEPT !.stop_command = "none"]
  <2>1. /\ Typed(s, y) /\ y.rec = x.rec /\ y.child = x.child /\ y.exit = x.exit
        /\ y.forking_pending = x.forking_pending
        /\ y.forking_parent_exited = x.forking_parent_exited
        /\ y.stop_command = "none" /\ y.reload_command = x.reload_command
        /\ y.exec_condition_helper = x.exec_condition_helper /\ y.start_helper = x.start_helper
        /\ y.exec_conditions_done = x.exec_conditions_done
        /\ y.wants_running = x.wants_running /\ y.restart_after_stop = x.restart_after_stop
        /\ y.restart_at = x.restart_at
    BY <1>1, FieldsAre DEF Typed, Helpers, Deadlines, HelperValue
  <2>2. handle_stop_exit(s, x) = y \/ handle_stop_exit(s, x) = send_signal(s, y, "term")
    BY DEF handle_stop_exit
  <2> HIDE DEF y
  <2>3. Goes(s, x, y)
    BY <2>1 DEF Goes, Quiet, Up, Sound, Coherent, ProcessLinked, PhasesLinked, Passed, RestartLinked
  <2>4. Goes(s, x, send_signal(s, y, "term"))
    BY <2>1, <2>3, SignalStep, AgreeGoes, GoesOn DEF Goes
  <2> QED BY <2>2, <2>3, <2>4
<1> QED BY <1>2, <1>3

(***************************************************************************)
(* A service within its limit is started or restarted: the part that       *)
(* RestartAfterExit and check_restart_due share.                           *)
(***************************************************************************)
LEMMA RelaunchGoes ==
  ASSUME NEW s, NEW f, NEW x, NEW rec \in R!ServiceRecord, Coherent(s, x), ~ x.err,
         x.rec.pid = NoPid, x.start_helper = "none", x.wants_running,
         rec.state = "Starting", rec.pid = NoPid
  PROVE  Goes(s, x, spawn(s, f, [x EXCEPT !.rec = rec]))
<1> DEFINE y == [x EXCEPT !.rec = rec]
<1>1. Typed(s, y) /\ Around(x, y) /\ y.rec = rec /\ ~ y.err
  BY RecStep DEF Coherent
<1> HIDE DEF y
<1>2. Launchable(s, y)
  BY <1>1 DEF Launchable, Sound, Coherent, Around, ProcessLinked, PhasesLinked, RestartLinked,
              Passed
<1>3. Goes(s, y, spawn(s, f, y))
  BY <1>2, SpawnGoes
<1>4. Goes(s, x, spawn(s, f, y))
  BY <1>1, <1>3 DEF Goes, Quiet, Around
<1> QED BY <1>4 DEF y

(***************************************************************************)
(* What follows an exit: the next restart has its time, or begins.         *)
(***************************************************************************)
LEMMA RestartAfterExitGoes ==
  ASSUME NEW s, NEW f, NEW x, Coherent(s, x), ~ x.err, s.start_limit_burst \in Nat,
         x.rec.state \in {"Active", "Exited", "Failed", "Backoff"}
  PROVE  Goes(s, x, RestartAfterExit(s, f, x))
<1> DEFINE y == [x EXCEPT !.restart_after_stop = FALSE]
           l == enforce_start_limit(s, y)
           c == [l EXCEPT !.err = FALSE]
           b == [l EXCEPT !.rec = R!start(@)]
           e == [x EXCEPT !.restart_at = "armed"]
<1>1. Typed(s, x) /\ x.rec.pid = NoPid /\ x.start_helper = "none"
  BY DEF Coherent, ProcessLinked, PhasesLinked
<1>2. RestartAfterExit(s, f, x)
        = IF x.rec.state = "Backoff" /\ x.wants_running THEN e
          ELSE IF ~ (x.restart_after_stop /\ x.wants_running) THEN x
          ELSE IF l.err THEN c ELSE IF R!start_ok(l.rec) THEN spawn(s, f, b) ELSE l
  <2> HIDE DEF l
  <2>1. UnlessLimited(s, y, LAMBDA z : IF R!start_ok(z.rec)
                                       THEN spawn(s, f, [z EXCEPT !.rec = R!start(@)]) ELSE z)
          = IF l.err THEN c ELSE IF R!start_ok(l.rec) THEN spawn(s, f, b) ELSE l
    <3>1. With(l, LAMBDA z : IF z.err THEN [z EXCEPT !.err = FALSE]
                             ELSE IF R!start_ok(z.rec)
                             THEN spawn(s, f, [z EXCEPT !.rec = R!start(@)]) ELSE z)
            = IF l.err THEN c ELSE IF R!start_ok(l.rec) THEN spawn(s, f, b) ELSE l
      BY DEF With
    <3> QED BY <3>1 DEF UnlessLimited, l
  <2>2. x.rec.state = "Backoff" => ArmRestart(x) = e
    BY DEF ArmRestart
  <2> HIDE DEF b, c, e
  <2> QED BY <2>1, <2>2 DEF RestartAfterExit
<1>3. /\ Typed(s, y) /\ y.rec = x.rec /\ y.err = x.err /\ y.child = x.child /\ y.exit = x.exit
      /\ y.forking_pending = x.forking_pending
      /\ y.forking_parent_exited = x.forking_parent_exited
      /\ y.stop_command = x.stop_command /\ y.reload_command = x.reload_command
      /\ y.exec_condition_helper = x.exec_condition_helper /\ y.start_helper = x.start_helper
      /\ y.exec_conditions_done = x.exec_conditions_done
      /\ y.wants_running = x.wants_running /\ ~ y.restart_after_stop
      /\ y.restart_at = x.restart_at
  BY <1>1, FieldsAre DEF Typed, Helpers, Deadlines
<1> HIDE DEF y
<1>4. Coherent(s, y)
  BY <1>3 DEF Coherent, ProcessLinked, PhasesLinked, Passed
<1>5. /\ Coherent(s, l)
      /\ ~ l.err => Agree(y, l)
      /\ l.err => \/ /\ l.rec.state = "Failed" /\ ~ l.wants_running
                     /\ l.restart_after_stop = y.restart_after_stop
                  \/ Agree(y, l) /\ y.rec.state \in {"Running", "Active", "Stopping"}
  BY <1>3, <1>4, LimitEffect
<1> HIDE DEF l
<1>6. CASE x.rec.state = "Backoff" /\ x.wants_running
  <2>1. Goes(s, x, e)
    BY <1>1, <1>6, RestartAtStep DEF Goes, Sound, RestartLinked, Quiet, Up, Deadline
  <2> HIDE DEF e
  <2> QED BY <1>2, <1>6, <2>1
<1>7. CASE /\ ~ (x.rec.state = "Backoff" /\ x.wants_running)
           /\ ~ (x.restart_after_stop /\ x.wants_running)
  BY <1>2, <1>7 DEF Goes, Sound, RestartLinked, Quiet
<1>8. CASE /\ ~ (x.rec.state = "Backoff" /\ x.wants_running)
           /\ x.restart_after_stop /\ x.wants_running
  <2>1. CASE l.err
    <3>1. Typed(s, c) /\ Agree(l, c)
      BY <1>5, ErrStep DEF Coherent
    <3> HIDE DEF c
    <3>2. Coherent(s, c)
      BY <1>5, <3>1, AgreeCoherent
    <3>3. Goes(s, x, c)
      BY <1>3, <1>5, <1>8, <2>1, <3>1, <3>2
         DEF Goes, Sound, RestartLinked, Quiet, Up, Agree, Around
    <3> QED BY <1>2, <1>8, <2>1, <3>3
  <2>2. CASE ~ l.err
    <3>1. Goes(s, x, l)
      BY <1>3, <1>5, <1>8, <2>2 DEF Goes, Sound, RestartLinked, Quiet, Up, Agree, Around
    <3> DEFINE rec == R!start(l.rec)
    <3>2. b = [l EXCEPT !.rec = rec]
      BY <1>5, FieldsAre DEF Coherent, Typed
    <3>3. rec \in R!ServiceRecord /\ rec.state = "Starting" /\ rec.pid = NoPid
      <4>1. PICK pid \in Pids : TRUE
        BY ManagedAssumption
      <4> QED BY <1>5, <4>1, StartTransitions DEF Coherent, Typed
    <3> HIDE DEF b, rec
    <3>4. l.wants_running /\ l.rec.pid = NoPid /\ l.start_helper = "none"
      BY <1>1, <1>3, <1>5, <1>8, <2>2 DEF Agree, Around
    <3>5. Goes(s, l, spawn(s, f, b))
      BY <1>5, <2>2, <3>2, <3>3, <3>4, RelaunchGoes
    <3>6. Goes(s, x, spawn(s, f, b))
      BY <3>1, <3>5, GoesOn
    <3> QED BY <1>2, <1>8, <2>2, <3>1, <3>6
  <2> QED BY <2>1, <2>2
<1> QED BY <1>6, <1>7, <1>8

(***************************************************************************)
(* What belonged to the process goes with it.                              *)
(***************************************************************************)
LEMMA ProcessGoneStep ==
  ASSUME NEW s, NEW x, Typed(s, x)
  PROVE  LET y == ProcessGone(x) IN
         /\ Typed(s, y) /\ y.rec = x.rec /\ y.err = x.err /\ y.child = "none"
         /\ ~ y.forking_pending /\ ~ y.forking_parent_exited
         /\ y.stop_command = "none" /\ y.reload_command = "none"
         /\ y.exec_condition_helper = x.exec_condition_helper
         /\ y.start_helper = x.start_helper
         /\ y.exec_conditions_done = x.exec_conditions_done
         /\ y.wants_running = x.wants_running /\ y.restart_after_stop = x.restart_after_stop
         /\ y.restart_at = x.restart_at
<1> DEFINE k == kill(x, {"stop_command", "reload_command", "dbus_probe"})
           a == [k EXCEPT !.reload_failed = @ \/ x.reload_command # "none",
                          !.child = "none", !.exit = NoExit, !.signal = "none",
                          !.forking_pending = FALSE]
           b == [a EXCEPT !.forking_parent_exited = FALSE,
                          !.adopted = FALSE, !.notify = "closed", !.dbus_ready = TRUE,
                          !.watchdog_deadline = "none"]
           c == [b EXCEPT !.runtime_deadline = "none",
                          !.oom = FALSE, !.start_deadline = "none", !.stop_deadline = "none"]
<1>1. /\ Typed(s, k) /\ k.rec = x.rec /\ k.err = x.err
      /\ k.stop_command = "none" /\ k.reload_command = "none"
      /\ k.exec_condition_helper = x.exec_condition_helper /\ k.start_helper = x.start_helper
      /\ k.exec_conditions_done = x.exec_conditions_done
      /\ k.wants_running = x.wants_running /\ k.restart_after_stop = x.restart_after_stop
      /\ k.restart_at = x.restart_at
  BY KillGoes, FieldsAre DEF Helpers
<1>2. ProcessGone(x) = c
  BY DEF ProcessGone
<1> HIDE DEF k
<1>3. /\ Typed(s, a) /\ a.rec = k.rec /\ a.err = k.err /\ a.child = "none" /\ ~ a.forking_pending
      /\ a.stop_command = "none" /\ a.reload_command = "none"
      /\ a.exec_condition_helper = k.exec_condition_helper /\ a.start_helper = k.start_helper
      /\ a.exec_conditions_done = k.exec_conditions_done
      /\ a.wants_running = k.wants_running /\ a.restart_after_stop = k.restart_after_stop
      /\ a.restart_at = k.restart_at
  <2>1. a = [field \in Fields |-> a[field]]
    BY <1>1, FieldsAre DEF Typed
  <2>2. /\ \A helper \in Helpers : a[helper] = k[helper]
        /\ \A deadline \in Deadlines : a[deadline] = k[deadline]
    BY <1>1, FieldsAre DEF Typed, Helpers, Deadlines
  <2>3. /\ a.rec = k.rec /\ a.err = k.err /\ a.child = "none" /\ a.exit = NoExit
        /\ a.signal = "none" /\ ~ a.forking_pending
        /\ a.notify = k.notify /\ a.start_attempts = k.start_attempts
        /\ a.exec_conditions_done = k.exec_conditions_done
        /\ a.wants_running = k.wants_running /\ a.restart_after_stop = k.restart_after_stop
    BY <1>1, FieldsAre DEF Typed
  <2> HIDE DEF a
  <2>4. Typed(s, a)
    BY <1>1, <2>1, <2>2, <2>3 DEF Typed
  <2> QED BY <1>1, <2>2, <2>3, <2>4 DEF Helpers, Deadlines
<1> HIDE DEF a
<1>4. /\ Typed(s, b) /\ b.rec = a.rec /\ b.err = a.err /\ b.child = "none" /\ ~ b.forking_pending
      /\ ~ b.forking_parent_exited
      /\ b.stop_command = "none" /\ b.reload_command = "none"
      /\ b.exec_condition_helper = a.exec_condition_helper /\ b.start_helper = a.start_helper
      /\ b.exec_conditions_done = a.exec_conditions_done
      /\ b.wants_running = a.wants_running /\ b.restart_after_stop = a.restart_after_stop
      /\ b.restart_at = a.restart_at
  <2>1. b = [field \in Fields |-> b[field]]
    BY <1>3, FieldsAre DEF Typed
  <2>2. /\ \A helper \in Helpers : b[helper] = a[helper]
        /\ \A deadline \in Deadlines : b[deadline] \in {a[deadline], "none"}
        /\ b.restart_at = a.restart_at
    BY <1>3, FieldsAre DEF Typed, Helpers, Deadlines
  <2>3. /\ b.rec = a.rec /\ b.err = a.err /\ b.child = a.child /\ b.exit = a.exit
        /\ b.signal = a.signal /\ b.forking_pending = a.forking_pending
        /\ ~ b.forking_parent_exited
        /\ b.notify = "closed" /\ b.start_attempts = a.start_attempts
        /\ b.exec_conditions_done = a.exec_conditions_done
        /\ b.wants_running = a.wants_running /\ b.restart_after_stop = a.restart_after_stop
    BY <1>3, FieldsAre DEF Typed
  <2> HIDE DEF b
  <2>4. Typed(s, b)
    BY <1>3, <2>1, <2>2, <2>3 DEF Typed, Deadline
  <2> QED BY <1>3, <2>2, <2>3, <2>4 DEF Helpers
<1> HIDE DEF b
<1>5. Typed(s, c) /\ Agree(b, c) /\ c.err = b.err
  <2>1. c = [field \in Fields |-> c[field]]
    BY <1>4, FieldsAre DEF Typed
  <2>2. /\ \A helper \in Helpers : c[helper] = b[helper]
        /\ \A deadline \in Deadlines : c[deadline] \in {b[deadline], "none"}
    BY <1>4, FieldsAre DEF Typed, Helpers, Deadlines
  <2>3. Agree(b, c) /\ c.err = b.err
    BY <1>4, FieldsAre DEF Typed, Agree, Around
  <2>4. c.signal = b.signal /\ c.notify = b.notify /\ c.start_attempts = b.start_attempts
    BY <1>4, FieldsAre DEF Typed
  <2> HIDE DEF c
  <2> QED BY <1>4, <2>1, <2>2, <2>3, <2>4 DEF Typed, Deadline, Agree, Around
<1> HIDE DEF c
<1> QED BY <1>1, <1>2, <1>3, <1>4, <1>5 DEF Agree, Around

(***************************************************************************)
(* The main process has ended.                                             *)
(***************************************************************************)
LEMMA ExitGoes ==
  ASSUME NEW s, NEW f, NEW x, NEW exit \in R!ExitReason, Sound(s, x), ~ x.err,
         s.start_limit_burst \in Nat
  PROVE  Goes(s, x, handle_exit(s, f, x, exit))
<1> DEFINE reason == IF s.main_ignore_failure THEN R!Exited(0) ELSE exit
           ok == R!exited_ok(x.rec, x.rec.pid, x.rec.generation)
           rec == R!exited(s, x.rec, reason)
           g == ProcessGone(x)
           y == Commit(g, ok, rec)
           p == spawn_stop_post(s, f, y)
           t == IF y.rec.state = "Active" THEN y ELSE CleanUnless(p, "stop_post_helper")
<1>1. Typed(s, x) /\ x.rec \in R!ServiceRecord
  BY DEF Sound, Coherent, Typed
<1>2. CASE x.rec.pid = NoPid
  BY <1>1, <1>2, ErrStep, AgreeGoes DEF handle_exit
<1>3. CASE x.rec.pid # NoPid
  <2>1. handle_exit(s, f, x, exit) = IF y.err THEN y ELSE RestartAfterExit(s, f, t)
    <3> HIDE DEF y
    <3>1. Try(y, LAMBDA v : RestartAfterExit(s, f, IF v.rec.state = "Active" THEN v
                              ELSE CleanUnless(spawn_stop_post(s, f, v), "stop_post_helper")))
            = IF y.err THEN y ELSE RestartAfterExit(s, f, t)
      BY DEF Try, With
    <3> QED BY <1>3, <3>1 DEF handle_exit, y
  <2>2. reason \in R!ExitReason
    BY ExitedType
  <2> HIDE DEF reason
  <2>3. /\ rec \in R!ServiceRecord /\ rec.pid = NoPid
        /\ rec.state \in {"Active", "Exited", "Failed", "Backoff"}
        /\ x.rec.state = "Stopping" => rec.state # "Active"
    BY <1>1, <2>2, ExitTransition
  <2>4. ok /\ x.rec.state \in {"Starting", "Running", "Stopping"}
    BY <1>1, <1>3 DEF R!exited_ok, R!check_generation, Sound, Coherent, ProcessLinked
  <2>5. /\ Typed(s, g) /\ g.rec = x.rec /\ g.err = x.err /\ g.child = "none"
        /\ ~ g.forking_pending /\ ~ g.forking_parent_exited
        /\ g.stop_command = "none" /\ g.reload_command = "none"
        /\ g.exec_condition_helper = x.exec_condition_helper
        /\ g.start_helper = x.start_helper
        /\ g.exec_conditions_done = x.exec_conditions_done
        /\ g.wants_running = x.wants_running /\ g.restart_after_stop = x.restart_after_stop
    BY <1>1, ProcessGoneStep
  <2> HIDE DEF rec, g
  <2>6. y = [g EXCEPT !.rec = rec]
    BY <2>4 DEF Commit
  <2> HIDE DEF y
  <2>7. Typed(s, y) /\ Around(g, y) /\ y.rec = rec /\ ~ y.err
    BY <2>3, <2>5, <2>6, RecStep
  <2>8. x.start_helper = "none"
    BY <1>3 DEF Sound, Coherent, PhasesLinked
  <2>9. Coherent(s, y)
    BY <2>3, <2>5, <2>7, <2>8 DEF Sound, Coherent, Around, ProcessLinked, PhasesLinked, Passed
  <2>10. Typed(s, p) /\ Agree(y, p) /\ ~ p.err
    BY <2>7, StopPostStep
  <2> HIDE DEF p
  <2>11. Typed(s, CleanUnless(p, "stop_post_helper")) /\ Agree(p, CleanUnless(p, "stop_post_helper"))
         /\ ~ CleanUnless(p, "stop_post_helper").err
    BY <2>10, StopPostStep
  <2>12. Typed(s, t) /\ Agree(y, t) /\ ~ t.err
    BY <2>7, <2>10, <2>11 DEF Agree, Around
  <2> HIDE DEF t
  <2>13. Coherent(s, t) /\ t.rec.state \in {"Active", "Exited", "Failed", "Backoff"}
    BY <2>3, <2>7, <2>9, <2>12, AgreeCoherent DEF Agree
  <2>14. Goes(s, t, RestartAfterExit(s, f, t))
    BY <2>12, <2>13, RestartAfterExitGoes
  <2>15. Quiet(x, t)
    BY <2>3, <2>4, <2>5, <2>7, <2>12 DEF Quiet, Up, Agree, Around
  <2>16. Goes(s, x, RestartAfterExit(s, f, t))
    BY <2>14, <2>15 DEF Goes, Quiet
  <2> QED BY <2>1, <2>7, <2>16
<1> QED BY <1>2, <1>3

(***************************************************************************)
(* The daemon of a forking launcher is adopted, waited for or given up.    *)
(***************************************************************************)
LEMMA AdoptGoes ==
  ASSUME NEW s, NEW f, NEW x, Sound(s, x), ~ x.err, s.start_limit_burst \in Nat
  PROVE  Goes(s, x, try_adopt_forking(s, f, x))
<1> DEFINE pid == CHOOSE p \in Pids : p # x.rec.pid
           ok == R!adopted_ok(x.rec, x.rec.generation)
           rec == R!adopted(x.rec, pid)
           y == Commit(x, ok, rec)
           a == [y EXCEPT !.daemon = FALSE]
           b == [y EXCEPT !.child = "alive", !.daemon = FALSE, !.adopted = TRUE,
                          !.forking_pending = FALSE, !.forking_parent_exited = FALSE,
                          !.start_deadline = "none"]
           c == arm_runtime_limit(s, b)
<1>1. Typed(s, x) /\ x.rec \in R!ServiceRecord
  BY DEF Sound, Coherent, Typed
<1>2. \/ try_adopt_forking(s, f, x) = handle_exit(s, f, x, R!Exited(1))
      \/ try_adopt_forking(s, f, x) = x
      \/ try_adopt_forking(s, f, x)
           = IF y.err THEN y ELSE IF f = "attach" THEN Err(a) ELSE spawn_start_post(s, f, c)
  <2> HIDE DEF y
  <2>1. Try(y, LAMBDA v : IF f = "attach" THEN Err([v EXCEPT !.daemon = FALSE])
                 ELSE spawn_start_post(s, f, arm_runtime_limit(s,
                        [v EXCEPT !.child = "alive", !.daemon = FALSE, !.adopted = TRUE,
                                  !.forking_pending = FALSE, !.forking_parent_exited = FALSE,
                                  !.start_deadline = "none"])))
          = IF y.err THEN y ELSE IF f = "attach" THEN Err(a) ELSE spawn_start_post(s, f, c)
    BY DEF Try, With
  <2> HIDE DEF a, b, c
  <2> QED BY <2>1 DEF try_adopt_forking, y
<1>3. Goes(s, x, handle_exit(s, f, x, R!Exited(1)))
  BY ExitGoes, ExitedType
<1>4. CASE ~ ok
  <2>1. y = Err(x)
    BY <1>4 DEF Commit
  <2>2. Goes(s, x, y) /\ y.err
    BY <1>1, <2>1, ErrStep, AgreeGoes
  <2> HIDE DEF y, a, c
  <2> QED BY <1>2, <1>3, <2>2, GoesNowhere
<1>5. CASE ok
  <2>1. pid \in Pids /\ pid # NoPid
    BY ManagedAssumption
  <2>2. x.rec.state = "Running" /\ x.rec.pid # NoPid /\ x.start_helper = "none"
    BY <1>5 DEF R!adopted_ok, Sound, Coherent, ProcessLinked, PhasesLinked
  <2> HIDE DEF pid
  <2>3. /\ rec \in R!ServiceRecord /\ rec.pid # NoPid /\ rec.state = "Running"
    BY <1>1, <2>1, <2>2, StartTransitions
  <2> HIDE DEF rec
  <2>4. y = [x EXCEPT !.rec = rec]
    BY <1>5 DEF Commit
  <2> HIDE DEF y
  <2>5. Typed(s, y) /\ Around(x, y) /\ y.rec = rec
    BY <1>1, <2>3, <2>4, RecStep
  <2>6. Goes(s, x, y)
    BY <2>2, <2>3, <2>5 DEF Goes, Quiet, Up, Sound, Coherent, Around, ProcessLinked, PhasesLinked,
                            RestartLinked, Passed
  <2>7. Typed(s, a) /\ Agree(y, a)
    BY <2>5, FieldsAre DEF Typed, Agree, Around, Helpers, Deadlines
  <2> HIDE DEF a
  <2>8. Goes(s, x, Err(a))
    BY <2>6, <2>7, ErrStep, AgreeGoes, GoesOn DEF Goes
  <2>9. Typed(s, b) /\ b.rec = y.rec /\ b.child = "alive" /\ ~ b.forking_pending
    <3>1. b = [field \in Fields |-> b[field]]
      BY <2>5, FieldsAre DEF Typed
    <3>2. /\ \A helper \in Helpers : b[helper] = y[helper]
          /\ \A deadline \in Deadlines : b[deadline] \in {y[deadline], "none"}
      BY <2>5, FieldsAre DEF Typed, Helpers, Deadlines
    <3>3. /\ b.rec = y.rec /\ b.child = "alive" /\ ~ b.forking_pending
          /\ b.exit = y.exit /\ b.signal = y.signal /\ b.notify = y.notify
          /\ b.start_attempts = y.start_attempts
      BY <2>5, FieldsAre DEF Typed
    <3> HIDE DEF b
    <3> QED BY <2>5, <3>1, <3>2, <3>3 DEF Typed, Deadline
  <2>10. /\ b.stop_command = y.stop_command /\ b.reload_command = y.reload_command
         /\ b.exec_condition_helper = y.exec_condition_helper /\ b.start_helper = y.start_helper
         /\ b.exec_conditions_done = y.exec_conditions_done
         /\ b.wants_running = y.wants_running /\ b.restart_after_stop = y.restart_after_stop
         /\ b.restart_at = y.restart_at
    BY <2>5, FieldsAre DEF Typed
  <2> HIDE DEF b
  <2>11. Goes(s, x, b)
    BY <2>2, <2>3, <2>5, <2>6, <2>9, <2>10
       DEF Goes, Quiet, Up, Sound, Coherent, Around, ProcessLinked, PhasesLinked, RestartLinked, Passed
  <2>12. Typed(s, c) /\ Agree(b, c)
    BY <2>9, DeadlineSteps
  <2> HIDE DEF c
  <2>13. Goes(s, x, c)
    BY <2>11, <2>12, AgreeGoes, GoesOn DEF Goes
  <2>14. Goes(s, x, spawn_start_post(s, f, c))
    BY <2>13, StartPostGoes, GoesOn DEF Goes
  <2> QED BY <1>2, <1>3, <2>6, <2>8, <2>14, GoesNowhere
<1> QED BY <1>4, <1>5

(***************************************************************************)
(* The exit of the main process is seen.                                   *)
(***************************************************************************)
LEMMA ObserveExitGoes ==
  ASSUME NEW s, NEW f, NEW x, Sound(s, x), ~ x.err, s.start_limit_burst \in Nat
  PROVE  Goes(s, x, observe_exit(s, f, x))
<1> DEFINE exit == IF x.adopted THEN R!Exited(1) ELSE x.exit
           y == [x EXCEPT !.child = "none", !.exit = NoExit, !.forking_parent_exited = TRUE]
<1>1. Typed(s, x)
  BY DEF Sound, Coherent
<1>2. \/ observe_exit(s, f, x) = x
      \/ /\ observe_exit(s, f, x) = try_adopt_forking(s, f, y)
         /\ x.forking_pending
      \/ /\ observe_exit(s, f, x) = handle_exit(s, f, x, exit)
         /\ x.child = "ended"
  BY DEF observe_exit
<1>3. x.child = "ended" => exit \in R!ExitReason
  BY ExitedType, ManagedAssumption DEF Sound, Coherent, ProcessLinked
<1> HIDE DEF exit
<1>4. x.child = "ended" => Goes(s, x, handle_exit(s, f, x, exit))
  BY <1>3, ExitGoes
<1>5. x.forking_pending => Goes(s, x, try_adopt_forking(s, f, y))
  <2> SUFFICES ASSUME x.forking_pending PROVE Goes(s, x, try_adopt_forking(s, f, y))
    OBVIOUS
  <2>1. /\ Typed(s, y) /\ y.rec = x.rec /\ ~ y.err /\ y.child = "none"
        /\ y.forking_pending = x.forking_pending /\ y.forking_parent_exited
        /\ y.stop_command = x.stop_command /\ y.reload_command = x.reload_command
        /\ y.exec_condition_helper = x.exec_condition_helper /\ y.start_helper = x.start_helper
        /\ y.exec_conditions_done = x.exec_conditions_done
        /\ y.wants_running = x.wants_running /\ y.restart_after_stop = x.restart_after_stop
        /\ y.restart_at = x.restart_at
    BY <1>1, FieldsAre DEF Typed, Helpers, Deadlines
  <2> HIDE DEF y
  <2>2. Goes(s, x, y)
    BY <2>1 DEF Goes, Quiet, Up, Sound, Coherent, ProcessLinked, PhasesLinked, Passed, RestartLinked
  <2> QED BY <2>1, <2>2, AdoptGoes, GoesOn DEF Goes
<1> QED BY <1>2, <1>4, <1>5, GoesNowhere

(***************************************************************************)
(* The deadline of a process that is being stopped.                        *)
(***************************************************************************)
LEMMA KillDeadlineGoes ==
  ASSUME NEW s, NEW x, Sound(s, x), ~ x.err
  PROVE  Goes(s, x, check_stop_deadline(s, x)) /\ ~ check_stop_deadline(s, x).err
<1> DEFINE rec == R!stop_timed_out(x.rec)
           a == [x EXCEPT !.rec = rec]
           b == [a EXCEPT !.stop_deadline = "none"]
           c == SignalIf(R!stop_timed_out_signals(x.rec), s, b, "kill")
           helpers == {"start_helper", "exec_condition_helper", "start_post_helper",
                       "dbus_probe", "stop_command"}
           y == check_stop_deadline(s, x)
<1>1. Typed(s, x) /\ x.rec \in R!ServiceRecord
  BY DEF Sound, Coherent, Typed
<1>2. y = x \/ (y = kill(c, helpers) /\ x.rec.state = "Stopping")
  <2>1. [x EXCEPT !.rec = R!stop_timed_out(@), !.stop_deadline = "none"] = b
    BY <1>1, FieldsAre DEF Typed
  <2> QED BY <2>1 DEF check_stop_deadline
<1>3. /\ rec \in R!ServiceRecord /\ rec.pid = x.rec.pid
      /\ rec.state = IF x.rec.pid # NoPid THEN x.rec.state ELSE "Exited"
  BY <1>1, StopTransitions
<1> HIDE DEF rec, y
<1>4. Typed(s, a) /\ Around(x, a) /\ a.rec = rec /\ a.err = x.err
  BY <1>1, <1>3, RecStep
<1> HIDE DEF a
<1>5. Typed(s, b) /\ Agree(a, b) /\ b.err = a.err
  BY <1>4, FieldsAre DEF Typed, Agree, Around, Helpers, Deadlines, Deadline
<1> HIDE DEF b
<1>6. Typed(s, c) /\ Agree(b, c) /\ c.err = b.err
  <2>1. c = b \/ c = send_signal(s, b, "kill")
    BY DEF SignalIf
  <2> HIDE DEF c
  <2> QED BY <1>5, <2>1, SignalStep DEF Agree, Around
<1> HIDE DEF c
<1>7. x.rec.state = "Stopping" => Goes(s, x, c) /\ ~ c.err
  <2> SUFFICES ASSUME x.rec.state = "Stopping" PROVE Goes(s, x, c) /\ ~ c.err
    OBVIOUS
  <2>1. rec.state = "Stopping" /\ x.rec.pid # NoPid
    BY <1>3 DEF Sound, Coherent, ProcessLinked
  <2>2. Goes(s, x, a)
    BY <1>3, <1>4, <2>1 DEF Goes, Quiet, Up, Sound, Coherent, Around, ProcessLinked, PhasesLinked,
                            RestartLinked, Passed
  <2> QED BY <1>4, <1>5, <1>6, <2>2, AgreeGoes, GoesOn DEF Goes
<1>8. x.rec.state = "Stopping" => Goes(s, x, kill(c, helpers)) /\ ~ kill(c, helpers).err
  <2> SUFFICES ASSUME x.rec.state = "Stopping"
               PROVE  Goes(s, x, kill(c, helpers)) /\ ~ kill(c, helpers).err
    OBVIOUS
  <2>1. Goes(s, c, kill(c, helpers))
    BY <1>6, <1>7, KillGoes DEF Goes, Helpers
  <2>2. kill(c, helpers).err = c.err
    BY <1>6, KillGoes, FieldsAre DEF Helpers
  <2> QED BY <1>7, <2>1, <2>2, GoesOn
<1>9. Goes(s, x, y) /\ ~ y.err
  BY <1>2, <1>8, GoesNowhere
<1> QED BY <1>9 DEF y

(***************************************************************************)
(* The deadlines of a stop, with and without a process.                    *)
(***************************************************************************)
LEMMA StopDeadlineGoes ==
  ASSUME NEW s, NEW f, NEW x, Sound(s, x), ~ x.err, s.start_limit_burst \in Nat
  PROVE  Goes(s, x, check_active_stop_deadline(s, f, check_stop_deadline(s, x)))
<1> DEFINE y == check_stop_deadline(s, x)
<1>1. Goes(s, x, y) /\ ~ y.err
  BY KillDeadlineGoes
<1> HIDE DEF y
<1>2. \/ check_active_stop_deadline(s, f, y) = y
      \/ check_active_stop_deadline(s, f, y) = AfterActiveStop(s, f, y)
  BY DEF check_active_stop_deadline
<1>3. Goes(s, x, AfterActiveStop(s, f, y))
  BY <1>1, TornDownGoes, GoesOn DEF Goes
<1>4. Goes(s, x, check_active_stop_deadline(s, f, y))
  BY <1>1, <1>2, <1>3
<1> QED BY <1>4 DEF y

(***************************************************************************)
(* The deadline of a start.                                                *)
(***************************************************************************)
LEMMA StartDeadlineGoes ==
  ASSUME NEW s, NEW x, Sound(s, x)
  PROVE  Goes(s, x, check_start_deadline(s, x))
<1> DEFINE rec == R!start_timed_out(x.rec)
           a == [x EXCEPT !.rec = rec]
           b == [a EXCEPT !.start_deadline = "none"]
           k == kill(b, {"start_helper", "start_post_helper", "dbus_probe"})
<1>1. Typed(s, x) /\ x.rec \in R!ServiceRecord
  BY DEF Sound, Coherent, Typed
<1>2. \/ check_start_deadline(s, x) = x
      \/ check_start_deadline(s, x) = EndProcess(s, k) /\ x.rec.state = "Starting"
  <2>1. [x EXCEPT !.rec = R!start_timed_out(@), !.start_deadline = "none"] = b
    BY <1>1, FieldsAre DEF Typed
  <2> QED BY <2>1 DEF check_start_deadline
<1>3. /\ rec \in R!ServiceRecord /\ rec.pid = x.rec.pid
      /\ rec.state = IF x.rec.pid # NoPid THEN "Stopping" ELSE "Failed"
  BY <1>1, FailTransitions
<1> HIDE DEF rec
<1>4. Typed(s, a) /\ Around(x, a) /\ a.rec = rec
  BY <1>1, <1>3, RecStep
<1> HIDE DEF a
<1>5. Typed(s, b) /\ Agree(a, b)
  BY <1>4, FieldsAre DEF Typed, Agree, Around, Helpers, Deadlines, Deadline
<1> HIDE DEF b
<1>6. /\ Typed(s, k) /\ k.rec = b.rec
      /\ k.wants_running = b.wants_running /\ k.restart_after_stop = b.restart_after_stop
      /\ k.exec_condition_helper = b.exec_condition_helper /\ k.start_helper = "none"
      /\ k.exec_conditions_done = b.exec_conditions_done
      /\ k.child = b.child /\ k.exit = b.exit
      /\ k.forking_pending = b.forking_pending
      /\ k.forking_parent_exited = b.forking_parent_exited
      /\ k.stop_command = b.stop_command /\ k.reload_command = b.reload_command
  BY <1>5, KillGoes, FieldsAre DEF Helpers
<1> HIDE DEF k
<1>7. k.rec = rec /\ Around(x, b)
  BY <1>4, <1>5, <1>6 DEF Agree, Around
<1>8. Goes(s, x, k)
  BY <1>3, <1>6, <1>7
     DEF Goes, Quiet, Up, Sound, Coherent, Around, ProcessLinked, PhasesLinked, RestartLinked,
         Passed
<1>9. Goes(s, x, EndProcess(s, k))
  BY <1>6, <1>8, DeadlineSteps, AgreeGoes, GoesOn DEF Goes
<1> QED BY <1>2, <1>9, GoesNowhere

(***************************************************************************)
(* The time of a restart has come.                                         *)
(***************************************************************************)
LEMMA RestartDueGoes ==
  ASSUME NEW s, NEW f, NEW x, Sound(s, x), ~ x.err, s.start_limit_burst \in Nat
  PROVE  Goes(s, x, check_restart_due(s, f, x))
<1> DEFINE y == [x EXCEPT !.restart_at = "none"]
           l == enforce_start_limit(s, y)
           c == [l EXCEPT !.err = FALSE]
           b == [l EXCEPT !.rec = R!restart_due(@)]
<1>1. Typed(s, x)
  BY DEF Sound, Coherent
<1>2. \/ check_restart_due(s, f, x) = x
      \/ /\ check_restart_due(s, f, x) = IF l.err THEN c ELSE spawn(s, f, b)
         /\ x.wants_running /\ x.rec.state = "Backoff"
  <2> HIDE DEF l
  <2>1. With(l, LAMBDA z : IF z.err THEN [z EXCEPT !.err = FALSE]
                           ELSE spawn(s, f, [z EXCEPT !.rec = R!restart_due(@)]))
          = IF l.err THEN c ELSE spawn(s, f, b)
    BY DEF With
  <2>2. UnlessLimited(s, y, LAMBDA z : spawn(s, f, [z EXCEPT !.rec = R!restart_due(@)]))
          = IF l.err THEN c ELSE spawn(s, f, b)
    BY <2>1 DEF UnlessLimited, l
  <2> HIDE DEF b, c
  <2> QED BY <2>2 DEF check_restart_due
<1>3. CASE x.wants_running /\ x.rec.state = "Backoff"
  <2>1. /\ Coherent(s, y) /\ y.rec = x.rec /\ ~ y.err /\ y.wants_running = x.wants_running
        /\ y.restart_after_stop = x.restart_after_stop
    BY <1>1, RestartAtStep DEF Deadline, Sound
  <2> HIDE DEF y
  <2>2. /\ Coherent(s, l)
        /\ ~ l.err => Agree(y, l)
        /\ l.err => /\ l.rec.state = "Failed" /\ ~ l.wants_running
                    /\ l.restart_after_stop = y.restart_after_stop
    BY <1>3, <2>1, LimitEffect
  <2> HIDE DEF l
  <2>3. CASE l.err
    <3>1. Typed(s, c) /\ Agree(l, c)
      BY <2>2, ErrStep DEF Coherent
    <3> HIDE DEF c
    <3>2. Coherent(s, c)
      BY <2>2, <3>1, AgreeCoherent
    <3>3. Goes(s, x, c)
      BY <2>1, <2>2, <2>3, <3>1, <3>2 DEF Goes, Sound, RestartLinked, Quiet, Up, Agree, Around
    <3> QED BY <1>2, <2>3, <3>3, GoesNowhere
  <2>4. CASE ~ l.err
    <3> DEFINE rec == R!restart_due(l.rec)
    <3>1. b = [l EXCEPT !.rec = rec]
      BY <2>2, FieldsAre DEF Coherent, Typed
    <3>2. l.rec = x.rec /\ l.wants_running /\ l.rec.pid = NoPid /\ l.start_helper = "none"
          /\ l.restart_after_stop = x.restart_after_stop
      BY <1>3, <2>1, <2>2, <2>4 DEF Agree, Around, Coherent, ProcessLinked, PhasesLinked
    <3>3. rec \in R!ServiceRecord /\ rec.state = "Starting" /\ rec.pid = NoPid
      <4>1. PICK pid \in Pids : TRUE
        BY ManagedAssumption
      <4> QED BY <2>2, <3>2, <4>1, StartTransitions DEF Coherent, Typed
    <3> HIDE DEF b, rec
    <3>4. Goes(s, l, spawn(s, f, b))
      BY <2>2, <2>4, <3>1, <3>2, <3>3, RelaunchGoes
    <3>5. Goes(s, x, spawn(s, f, b))
      BY <1>3, <3>2, <3>4 DEF Goes, Quiet
    <3> QED BY <1>2, <2>4, <3>5, GoesNowhere
  <2> QED BY <2>3, <2>4
<1>4. CASE ~ (x.wants_running /\ x.rec.state = "Backoff")
  BY <1>2, <1>4, GoesNowhere
<1> QED BY <1>3, <1>4

(***************************************************************************)
(* A mount point or a device that has gone away takes its service down.    *)
(***************************************************************************)
LEMMA LostMountGoes ==
  ASSUME NEW s, NEW x, Sound(s, x), ~ x.err
  PROVE  Goes(s, x, refresh_lost_mount(s, x)) /\ ~ refresh_lost_mount(s, x).err
<1> DEFINE c == cleanup_directories(x)
           d == [c EXCEPT !.wants_running = FALSE]
           rec == R!stop(x.rec)
           e == [d EXCEPT !.rec = rec]
<1>1. Typed(s, x) /\ x.rec \in R!ServiceRecord
  BY DEF Sound, Coherent, Typed
<1>2. Typed(s, c) /\ Agree(x, c) /\ c.err = x.err
  BY <1>1, CleanupStep
<1>3. /\ Typed(s, d) /\ d.rec = c.rec /\ d.err = c.err /\ d.child = c.child /\ d.exit = c.exit
      /\ d.forking_pending = c.forking_pending
      /\ d.forking_parent_exited = c.forking_parent_exited
      /\ d.stop_command = c.stop_command /\ d.reload_command = c.reload_command
      /\ d.exec_condition_helper = c.exec_condition_helper /\ d.start_helper = c.start_helper
      /\ d.exec_conditions_done = c.exec_conditions_done
      /\ ~ d.wants_running /\ d.restart_after_stop = c.restart_after_stop
  BY <1>2, FieldsAre DEF Typed, Helpers, Deadlines
<1>4. \/ refresh_lost_mount(s, x) = x
      \/ refresh_lost_mount(s, x) = e /\ x.rec.state = "Active"
  <2>1. d.rec = x.rec
    BY <1>2, <1>3 DEF Agree
  <2>2. [c EXCEPT !.wants_running = FALSE, !.rec = R!stop(@)] = e
    BY <1>3, <2>1, FieldsAre DEF Typed
  <2> QED BY <2>2 DEF refresh_lost_mount
<1> HIDE DEF c, d
<1>5. /\ rec \in R!ServiceRecord /\ rec.pid = x.rec.pid
      /\ x.rec.state = "Active" => rec.state = "Exited"
  BY <1>1, StopTransitions
<1> HIDE DEF rec
<1>6. Typed(s, e) /\ Around(d, e) /\ e.rec = rec /\ e.err = d.err
  BY <1>3, <1>5, RecStep
<1> HIDE DEF e
<1>7. x.rec.state = "Active" => Goes(s, x, e) /\ ~ e.err
  BY <1>2, <1>3, <1>5, <1>6
     DEF Goes, Quiet, Up, Sound, Coherent, Agree, Around, ProcessLinked, PhasesLinked,
         RestartLinked, Passed
<1> QED BY <1>4, <1>7, GoesNowhere

(***************************************************************************)
(* A poll, in the order of the code: what one part leaves the next one     *)
(* finds sound, and an error ends the poll.                                *)
(***************************************************************************)
LEMMA PollGoes ==
  ASSUME NEW s, NEW f, NEW x, Sound(s, x), ~ x.err, s.start_limit_burst \in Nat
  PROVE  Goes(s, x, poll(s, f, x))
<1> DEFINE a == observe_notify(s, f, x)
           b == Try(a, LAMBDA v : observe_dbus(s, f, v))
           c == Try(b, LAMBDA v : check_oom(s, f, v))
           d == Try(c, LAMBDA v : check_runtime_limit(s, check_watchdog(s, v)))
           e == WhenEnded(d, "exec_condition_helper", LAMBDA v : handle_exec_condition_exit(s, f, v))
           g == WhenEnded(e, "start_helper", LAMBDA v : handle_start_helper_exit(s, f, v))
           h == WhenEnded(g, "start_post_helper", LAMBDA v : handle_start_post_exit(s, v))
           i == WhenEnded(h, "active_stop_helper", LAMBDA v : AfterActiveStop(s, f, v))
           j == WhenEnded(i, "stop_post_helper", LAMBDA v : handle_stop_post_exit(s, f, v))
           k == WhenEnded(j, "reload_command", handle_reload_exit)
           l == WhenEnded(k, "stop_command", LAMBDA v : handle_stop_exit(s, v))
           n == Try(l, LAMBDA v : observe_exit(s, f, v))
           o == Try(n, LAMBDA v : IF v.forking_pending /\ v.forking_parent_exited THEN try_adopt_forking(s, f, v) ELSE v)
           p == Try(o, LAMBDA v : check_active_stop_deadline(s, f, check_stop_deadline(s, v)))
           q == Try(p, LAMBDA v : check_start_deadline(s, v))
           r == Try(q, LAMBDA v : check_restart_due(s, f, v))
<1>1. Goes(s, x, a)
  BY NotifyGoes
<1>2. poll(s, f, x) = r
  BY DEF poll
<1> HIDE DEF a
<1>3. Goes(s, x, b)
  <2>1. b = IF a.err THEN a ELSE observe_dbus(s, f, a)
    BY DEF Try, With
  <2> HIDE DEF b
  <2> QED BY <1>1, <2>1, DbusGoes, GoesOn DEF Goes
<1> HIDE DEF b
<1>4. Goes(s, x, c)
  <2>1. c = IF b.err THEN b ELSE check_oom(s, f, b)
    BY DEF Try, With
  <2> HIDE DEF c
  <2> QED BY <1>3, <2>1, OomGoes, GoesOn DEF Goes
<1> HIDE DEF c
<1>5. Goes(s, x, d)
  <2>1. d = IF c.err THEN c ELSE check_runtime_limit(s, check_watchdog(s, c))
    BY DEF Try, With
  <2> HIDE DEF d
  <2> QED BY <1>4, <2>1, LimitsGo, GoesOn DEF Goes
<1> HIDE DEF d
<1>6. Goes(s, x, e)
  <2>1. e = IF d.err \/ d.exec_condition_helper \in {"none", "running"} THEN d ELSE handle_exec_condition_exit(s, f, d)
    BY DEF WhenEnded, Try, With
  <2> HIDE DEF e
  <2> QED BY <1>5, <2>1, ConditionGoes, GoesOn DEF Goes
<1> HIDE DEF e
<1>7. Goes(s, x, g)
  <2>1. g = IF e.err \/ e.start_helper \in {"none", "running"} THEN e ELSE handle_start_helper_exit(s, f, e)
    BY DEF WhenEnded, Try, With
  <2> HIDE DEF g
  <2> QED BY <1>6, <2>1, StartHelperGoes, GoesOn DEF Goes
<1> HIDE DEF g
<1>8. Goes(s, x, h)
  <2>1. h = IF g.err \/ g.start_post_helper \in {"none", "running"} THEN g ELSE handle_start_post_exit(s, g)
    BY DEF WhenEnded, Try, With
  <2> HIDE DEF h
  <2> QED BY <1>7, <2>1, StartPostExitGoes, GoesOn DEF Goes
<1> HIDE DEF h
<1>9. Goes(s, x, i)
  <2>1. i = IF h.err \/ h.active_stop_helper \in {"none", "running"} THEN h ELSE AfterActiveStop(s, f, h)
    BY DEF WhenEnded, Try, With
  <2> HIDE DEF i
  <2> QED BY <1>8, <2>1, TornDownGoes, GoesOn DEF Goes
<1> HIDE DEF i
<1>10. Goes(s, x, j)
  <2>1. j = IF i.err \/ i.stop_post_helper \in {"none", "running"} THEN i ELSE handle_stop_post_exit(s, f, i)
    BY DEF WhenEnded, Try, With
  <2> HIDE DEF j
  <2> QED BY <1>9, <2>1, TornDownGoes, GoesOn DEF Goes
<1> HIDE DEF j
<1>11. Goes(s, x, k)
  <2>1. k = IF j.err \/ j.reload_command \in {"none", "running"} THEN j ELSE handle_reload_exit(j)
    BY DEF WhenEnded, Try, With
  <2> HIDE DEF k
  <2> QED BY <1>10, <2>1, CommandsGo, GoesOn DEF Goes
<1> HIDE DEF k
<1>12. Goes(s, x, l)
  <2>1. l = IF k.err \/ k.stop_command \in {"none", "running"} THEN k ELSE handle_stop_exit(s, k)
    BY DEF WhenEnded, Try, With
  <2> HIDE DEF l
  <2> QED BY <1>11, <2>1, CommandsGo, GoesOn DEF Goes
<1> HIDE DEF l
<1>13. Goes(s, x, n)
  <2>1. n = IF l.err THEN l ELSE observe_exit(s, f, l)
    BY DEF Try, With
  <2> HIDE DEF n
  <2> QED BY <1>12, <2>1, ObserveExitGoes, GoesOn DEF Goes
<1> HIDE DEF n
<1>14. Goes(s, x, o)
  <2>1. o = IF n.err THEN n ELSE (IF n.forking_pending /\ n.forking_parent_exited THEN try_adopt_forking(s, f, n) ELSE n)
    BY DEF Try, With
  <2> HIDE DEF o
  <2> QED BY <1>13, <2>1, AdoptGoes, GoesOn DEF Goes
<1> HIDE DEF o
<1>15. Goes(s, x, p)
  <2>1. p = IF o.err THEN o ELSE check_active_stop_deadline(s, f, check_stop_deadline(s, o))
    BY DEF Try, With
  <2> HIDE DEF p
  <2> QED BY <1>14, <2>1, StopDeadlineGoes, GoesOn DEF Goes
<1> HIDE DEF p
<1>16. Goes(s, x, q)
  <2>1. q = IF p.err THEN p ELSE check_start_deadline(s, p)
    BY DEF Try, With
  <2> HIDE DEF q
  <2> QED BY <1>15, <2>1, StartDeadlineGoes, GoesOn DEF Goes
<1> HIDE DEF q
<1>17. Goes(s, x, r)
  <2>1. r = IF q.err THEN q ELSE check_restart_due(s, f, q)
    BY DEF Try, With
  <2> HIDE DEF r
  <2> QED BY <1>16, <2>1, RestartDueGoes, GoesOn DEF Goes
<1> HIDE DEF r
<1> QED BY <1>2, <1>17

-----------------------------------------------------------------------------
(***************************************************************************)
(* The specification.                                                      *)
(***************************************************************************)

\* The inductive invariant: the structure is sound between any two steps,
\* and nothing is wanted of a service whose last request was a stop.
ManagedIInv ==
  /\ u \in Services
  /\ Sound(u, m) /\ ~ m.err
  /\ manager \in {"up", "down"} /\ clients \in BOOLEAN /\ stop_asked \in BOOLEAN
  /\ stop_asked => Held(m)

(***************************************************************************)
(* A new service is sound.                                                 *)
(***************************************************************************)
LEMMA InitManaged == Init => ManagedIInv
<1> SUFFICES ASSUME Init PROVE ManagedIInv
  OBVIOUS
<1>1. u \in Services /\ m = new /\ manager = "up" /\ clients = TRUE /\ stop_asked = FALSE
  BY DEF Init
<1>2. /\ new = [field \in Fields |-> new[field]]
      /\ new.rec = R!NewRecord /\ new.child = "none" /\ new.exit = NoExit
      /\ new.signal = "none" /\ new.notify = "closed" /\ new.start_attempts = 0
      /\ ~ new.forking_pending /\ ~ new.wants_running /\ ~ new.err
  BY FieldsAre DEF new
<1>3. /\ \A helper \in Helpers : new[helper] = "none"
      /\ \A deadline \in Deadlines : new[deadline] = "none"
  BY DEF new, Helpers, Deadlines
<1>4. /\ R!NewRecord \in R!ServiceRecord
      /\ R!NewRecord.pid = NoPid /\ R!NewRecord.state = "Defined"
  <2>1. 0 \in Nat /\ 0 \in R!Generations
    BY ManagedAssumption DEF R!Generations
  <2> QED BY <2>1 DEF R!NewRecord, R!ServiceRecord, R!ServiceState
<1>5. 0 \in 0 .. u.start_limit_burst
  BY <1>1, ManagedAssumption
<1>6. Typed(u, new)
  BY <1>2, <1>3, <1>4, <1>5 DEF Typed, HelperValue, Deadline
<1>7. ProcessLinked(new) /\ PhasesLinked(u, new) /\ RestartLinked(new)
  BY <1>2, <1>3, <1>4 DEF ProcessLinked, PhasesLinked, RestartLinked, Helpers
<1> QED BY <1>1, <1>2, <1>6, <1>7 DEF ManagedIInv, Sound, Coherent

(***************************************************************************)
(* Every request leaves a sound structure, and a stop one that is held.    *)
(***************************************************************************)
LEMMA RequestManaged ==
  ASSUME ManagedIInv, Request
  PROVE  ManagedIInv'
<1>1. /\ u \in Services /\ u.start_limit_burst \in Nat
      /\ Sound(u, m) /\ Coherent(u, m) /\ ~ m.err
  BY ManagedAssumption DEF ManagedIInv, Sound
<1>2. ASSUME NEW x, Sound(u, x), Answer(x), stop_asked' \in BOOLEAN,
             stop_asked' => Held(x)
      PROVE  ManagedIInv'
  <2>1. m' = [x EXCEPT !.err = FALSE] /\ u' = u /\ manager' = manager /\ clients' = clients
    BY <1>2 DEF Answer
  <2>2. Typed(u, m') /\ Agree(x, m') /\ ~ m'.err
    BY <1>2, <2>1, ErrStep DEF Sound, Coherent
  <2>3. Goes(u, x, m')
    BY <1>2, <2>2, AgreeGoes
  <2>4. stop_asked' => Held(m')
    BY <1>2, <2>2 DEF Held, Up, Agree, Around
  <2> QED BY <1>2, <2>1, <2>2, <2>3, <2>4 DEF ManagedIInv, Goes
<1>3. ASSUME NEW x, Goes(u, m, x), Answer(x), stop_asked' = stop_asked
      PROVE  ManagedIInv'
  BY <1>2, <1>3 DEF ManagedIInv, Goes, Held, Quiet
<1>4. ASSUME NEW f \in Outcomes, StartRequested(f) PROVE ManagedIInv'
  BY <1>1, <1>2, <1>4, StartSound DEF StartRequested
<1>5. ASSUME NEW f \in Outcomes, StopRequested(f) PROVE ManagedIInv'
  BY <1>1, <1>2, <1>5, StopHolds DEF StopRequested
<1>6. ASSUME NEW f \in Outcomes, RestartRequested(f) PROVE ManagedIInv'
  BY <1>1, <1>2, <1>6, RestartSound DEF RestartRequested
<1>7. ASSUME NEW f \in Outcomes, ReloadRequested(f) PROVE ManagedIInv'
  BY <1>1, <1>3, <1>7, ReloadGoes DEF ReloadRequested
<1>8. ASSUME ResetRequested PROVE ManagedIInv'
  BY <1>1, <1>3, <1>8, ResetGoes DEF ResetRequested
<1>9. ASSUME JobTimedOut PROVE ManagedIInv'
  BY <1>1, <1>3, <1>9, JobTimeoutGoes DEF JobTimedOut
<1>10. ASSUME ClientsLeave PROVE ManagedIInv'
  BY <1>10 DEF ManagedIInv, ClientsLeave
<1> QED BY <1>4, <1>5, <1>6, <1>7, <1>8, <1>9, <1>10 DEF Request

(***************************************************************************)
(* What happens between two polls leaves a sound structure.                *)
(***************************************************************************)
LEMMA EnvironmentManaged ==
  ASSUME ManagedIInv, Environment
  PROVE  ManagedIInv'
<1>1. /\ u \in Services /\ u.start_limit_burst \in Nat
      /\ Sound(u, m) /\ Typed(u, m) /\ ~ m.err
  BY ManagedAssumption DEF ManagedIInv, Sound, Coherent
<1>2. ASSUME NEW x, World(x), Goes(u, m, x), ~ x.err
      PROVE  ManagedIInv'
  BY <1>2 DEF ManagedIInv, World, Goes, Held, Quiet
<1>3. ASSUME NEW x, World(x), Typed(u, x), Agree(m, x), ~ x.err
      PROVE  ManagedIInv'
  BY <1>1, <1>2, <1>3, AgreeGoes
<1>4. ASSUME NEW reason \in MainExits, MainEnds(reason) PROVE ManagedIInv'
  <2> DEFINE y == [m EXCEPT !.child = "ended", !.exit = reason]
  <2>1. World(y) /\ m.child = "alive"
    BY <1>4 DEF MainEnds
  <2>2. /\ Typed(u, y) /\ y.rec = m.rec /\ ~ y.err /\ y.child = "ended" /\ y.exit = reason
        /\ y.forking_pending = m.forking_pending
        /\ y.forking_parent_exited = m.forking_parent_exited
        /\ y.stop_command = m.stop_command /\ y.reload_command = m.reload_command
        /\ y.exec_condition_helper = m.exec_condition_helper /\ y.start_helper = m.start_helper
        /\ y.exec_conditions_done = m.exec_conditions_done
        /\ y.wants_running = m.wants_running /\ y.restart_after_stop = m.restart_after_stop
        /\ y.restart_at = m.restart_at
    BY <1>1, FieldsAre DEF Typed, Helpers, Deadlines
  <2> HIDE DEF y
  <2>3. Goes(u, m, y)
    BY <1>1, <2>1, <2>2
       DEF Goes, Quiet, Up, Sound, Coherent, ProcessLinked, PhasesLinked, Passed, RestartLinked
  <2> QED BY <1>2, <2>1, <2>2, <2>3
<1>5. ASSUME NEW helper \in Helpers, NEW outcome \in HelperOutcomes, HelperEnds(helper, outcome)
      PROVE  ManagedIInv'
  <2> DEFINE y == [m EXCEPT ![helper] = outcome]
  <2>1. World(y) /\ m[helper] = "running"
    BY <1>5 DEF HelperEnds
  <2>2. helper \in Fields /\ outcome \in HelperValue
    BY FieldsAre DEF Helpers, HelperValue
  <2>3. /\ y = [field \in Fields |-> y[field]]
        /\ \A field \in Fields : y[field] = IF field = helper THEN outcome ELSE m[field]
    BY <1>1, <2>2 DEF Typed
  <2> HIDE DEF y
  <2>4. \A field \in Fields \ Helpers : y[field] = m[field]
    BY <2>3
  <2>5. Typed(u, y)
    BY <1>1, <2>2, <2>3, <2>4, FieldsAre DEF Typed, Helpers, Deadlines
  <2>6. \A h \in Helpers : y[h] # "none" => m[h] # "none"
    BY <2>1, <2>3, FieldsAre DEF Helpers
  <2>7. /\ y.rec = m.rec /\ ~ y.err /\ y.child = m.child /\ y.exit = m.exit
        /\ y.forking_pending = m.forking_pending
        /\ y.forking_parent_exited = m.forking_parent_exited
        /\ y.exec_conditions_done = m.exec_conditions_done
        /\ y.wants_running = m.wants_running /\ y.restart_after_stop = m.restart_after_stop
        /\ y.restart_at = m.restart_at
    BY <1>1, <2>4, FieldsAre DEF Helpers
  <2>8. Goes(u, m, y)
    BY <1>1, <2>5, <2>6, <2>7
       DEF Goes, Quiet, Up, Sound, Coherent, ProcessLinked, PhasesLinked, Passed, RestartLinked,
           Helpers
  <2> QED BY <1>2, <2>1, <2>7, <2>8
<1>6. ASSUME NEW deadline \in Deadlines, Expires(deadline) PROVE ManagedIInv'
  <2> DEFINE y == [m EXCEPT ![deadline] = "due"]
  <2>1. World(y) /\ m[deadline] = "armed"
    BY <1>6 DEF Expires
  <2>2. deadline \in Fields /\ "due" \in Deadline
    BY FieldsAre DEF Deadlines, Deadline
  <2>3. /\ y = [field \in Fields |-> y[field]]
        /\ \A field \in Fields : y[field] = IF field = deadline THEN "due" ELSE m[field]
    BY <1>1, <2>2 DEF Typed
  <2> HIDE DEF y
  <2>4. \A field \in Fields \ Deadlines : y[field] = m[field]
    BY <2>3
  <2>5. Typed(u, y)
    BY <1>1, <2>2, <2>3, <2>4, FieldsAre DEF Typed, Helpers, Deadlines
  <2>6. y.restart_at = "none" => m.restart_at = "none"
    BY <2>1, <2>3, FieldsAre
  <2>7. /\ y.rec = m.rec /\ ~ y.err /\ y.child = m.child /\ y.exit = m.exit
        /\ y.forking_pending = m.forking_pending
        /\ y.forking_parent_exited = m.forking_parent_exited
        /\ y.stop_command = m.stop_command /\ y.reload_command = m.reload_command
        /\ y.exec_condition_helper = m.exec_condition_helper /\ y.start_helper = m.start_helper
        /\ y.exec_conditions_done = m.exec_conditions_done
        /\ y.wants_running = m.wants_running /\ y.restart_after_stop = m.restart_after_stop
    BY <1>1, <2>4, FieldsAre DEF Deadlines
  <2>8. Goes(u, m, y)
    BY <1>1, <2>5, <2>6, <2>7
       DEF Goes, Quiet, Up, Sound, Coherent, ProcessLinked, PhasesLinked, Passed, RestartLinked
  <2> QED BY <1>2, <2>1, <2>7, <2>8
<1>7. ASSUME NEW message \in {"READY=1", "WATCHDOG=1"}, Notified(message) PROVE ManagedIInv'
  <2> DEFINE y == [m EXCEPT !.notify = message]
  <2>1. World(y)
    BY <1>7 DEF Notified
  <2>2. Typed(u, y) /\ Agree(m, y) /\ ~ y.err
    BY <1>1, FieldsAre DEF Typed, Agree, Around, Helpers, Deadlines
  <2> HIDE DEF y
  <2> QED BY <1>3, <2>1, <2>2
<1>8. ASSUME OutOfMemory PROVE ManagedIInv'
  <2> DEFINE y == [m EXCEPT !.oom = TRUE]
  <2>1. World(y)
    BY <1>8 DEF OutOfMemory
  <2>2. Typed(u, y) /\ Agree(m, y) /\ ~ y.err
    BY <1>1, FieldsAre DEF Typed, Agree, Around, Helpers, Deadlines
  <2> HIDE DEF y
  <2> QED BY <1>3, <2>1, <2>2
<1>9. ASSUME TargetChanges PROVE ManagedIInv'
  <2> DEFINE y == [m EXCEPT !.lost = ~ @]
  <2>1. World(y)
    BY <1>9 DEF TargetChanges
  <2>2. Typed(u, y) /\ Agree(m, y) /\ ~ y.err
    BY <1>1, FieldsAre DEF Typed, Agree, Around, Helpers, Deadlines
  <2> HIDE DEF y
  <2> QED BY <1>3, <2>1, <2>2
<1>10. ASSUME AttemptAges PROVE ManagedIInv'
  <2> DEFINE y == [m EXCEPT !.start_attempts = @ - 1]
  <2>1. World(y) /\ m.start_attempts > 0
    BY <1>10 DEF AttemptAges
  <2>2. m.start_attempts - 1 \in 0 .. u.start_limit_burst
    BY <1>1, <2>1 DEF Typed
  <2>3. y.start_attempts = m.start_attempts - 1
    BY <1>1, FieldsAre DEF Typed
  <2>4. Typed(u, y) /\ Agree(m, y) /\ ~ y.err
    BY <1>1, <2>2, <2>3, FieldsAre DEF Typed, Agree, Around, Helpers, Deadlines
  <2> HIDE DEF y
  <2> QED BY <1>3, <2>1, <2>4
<1>11. ASSUME NEW there, World([m EXCEPT !.daemon = there]) PROVE ManagedIInv'
  <2> DEFINE y == [m EXCEPT !.daemon = there]
  <2>1. World(y)
    BY <1>11
  <2>2. Typed(u, y) /\ Agree(m, y) /\ ~ y.err
    BY <1>1, FieldsAre DEF Typed, Agree, Around, Helpers, Deadlines
  <2> HIDE DEF y
  <2> QED BY <1>3, <2>1, <2>2
<1>12. ASSUME DaemonForked \/ DaemonEnds PROVE ManagedIInv'
  BY <1>11, <1>12 DEF DaemonForked, DaemonEnds
<1> QED BY <1>4, <1>5, <1>6, <1>7, <1>8, <1>9, <1>10, <1>12 DEF Environment

(***************************************************************************)
(* Every behaviour keeps the inductive invariant.                          *)
(***************************************************************************)
THEOREM ManagedInductive == Spec => []ManagedIInv
<1>1. ManagedIInv /\ [Next]_vars => ManagedIInv'
  <2> SUFFICES ASSUME ManagedIInv, [Next]_vars PROVE ManagedIInv'
    OBVIOUS
  <2>1. ASSUME NEW f \in Outcomes, Poll(f) PROVE ManagedIInv'
    <3> DEFINE y == refresh_lost_mount(u, m)
               x == poll(u, f, y)
    <3>1. /\ u \in Services /\ u.start_limit_burst \in Nat /\ Sound(u, m) /\ ~ m.err
      BY ManagedAssumption DEF ManagedIInv
    <3>2. Goes(u, m, y) /\ ~ y.err
      BY <3>1, LostMountGoes
    <3>3. /\ m' = [x EXCEPT !.err = FALSE] /\ manager' = IF x.err THEN "down" ELSE "up"
          /\ UNCHANGED <<u, clients, stop_asked>>
      BY <2>1 DEF Poll
    <3> HIDE DEF y
    <3>4. Goes(u, m, x)
      BY <3>1, <3>2, PollGoes, GoesOn DEF Goes
    <3> HIDE DEF x
    <3>5. Typed(u, m') /\ Agree(x, m') /\ ~ m'.err
      BY <3>3, <3>4, ErrStep DEF Goes, Sound, Coherent
    <3>6. Goes(u, m, m')
      BY <3>4, <3>5, AgreeGoes, GoesOn DEF Goes
    <3> QED BY <3>3, <3>5, <3>6 DEF ManagedIInv, Goes, Quiet, Held
  <2>2. CASE Unsupervised \/ UNCHANGED vars
    BY <2>2 DEF ManagedIInv, Unsupervised, vars
  <2> QED BY <2>1, <2>2, RequestManaged, EnvironmentManaged DEF Next
<1> QED BY <1>1, InitManaged, PTL DEF Spec

(***************************************************************************)
(* The process and the record, the phases of a start, the commands beside  *)
(* the main process and the time of the next restart agree between any two *)
(* steps, whichever call of the operating system failed.                   *)
(***************************************************************************)
THEOREM ServiceAlwaysSound == Spec => []ServiceInv
<1>1. ManagedIInv => ServiceInv
  <2> SUFFICES ASSUME ManagedIInv PROVE ServiceInv
    OBVIOUS
  <2>1. Typed(u, m) /\ ProcessLinked(m) /\ PhasesLinked(u, m) /\ RestartLinked(m)
    BY DEF ManagedIInv, Sound, Coherent
  <2>2. TypeOK
    BY <2>1 DEF ManagedIInv, Typed, TypeOK, HelperValue
  <2>3. ProcessMatchesRecord /\ CommandsHaveMain /\ BackoffIsScheduled
    BY <2>1 DEF ProcessLinked, RestartLinked, ProcessMatchesRecord, CommandsHaveMain,
                BackoffIsScheduled
  <2>4. OneStartPhase
    BY <2>1 DEF PhasesLinked, OneStartPhase
  <2> QED BY <2>2, <2>3, <2>4 DEF ServiceInv
<1> QED BY <1>1, ManagedInductive, PTL

(***************************************************************************)
(* After a stop request no poll, restart policy, postponed start or late   *)
(* helper brings the service up before somebody asks for it.               *)
(***************************************************************************)
THEOREM StopAlwaysWins == Spec => []StopWins
<1>1. ManagedIInv => StopWins
  BY DEF ManagedIInv, Held, StopWins
<1> QED BY <1>1, ManagedInductive, PTL

-----------------------------------------------------------------------------
(***************************************************************************)
(* Deadlines.  The stop of the process, the stop command of an active      *)
(* service and ExecStopPost share the field stop_deadline, and the end of  *)
(* a command clears it whosever it is.  An automatic restart skips start,  *)
(* which arms start_deadline, and gets one with its process.               *)
(***************************************************************************)

\* Nothing runs before the main process.
StartsBare(s) == ~ s.exec_conditions /\ ~ s.start_pre

\* No command runs without a main process: a service with a stop command is
\* never active.
StopsBare(s) ==
  /\ ~ s.stop_post
  /\ s.has_stop => ~ s.remain_after_exit /\ s.service_type \notin {"Socket", "Timer", "Path"}

\* A start has its deadline, at the latest with its process.
StartArmed(s, x) ==
  /\ StartsBare(s) => x.start_helper = "none"
  /\ x.rec.state = "Starting" /\ s.start_timeout /\ (x.rec.pid # NoPid \/ StartsBare(s)) =>
       x.start_deadline # "none"

\* A stop has its deadline, or SIGKILL has been sent.
StopArmed(s, x) ==
  StopsBare(s) => /\ x.active_stop_helper = "none" /\ x.stop_post_helper = "none"
                  /\ s.has_stop => x.rec.state # "Active"
                  /\ x.rec.state = "Stopping" /\ s.stop_timeout /\ s.kill_mode # "None" =>
                       x.stop_deadline # "none" \/ x.signal = "kill"

Armed(s, x) == StartArmed(s, x) /\ StopArmed(s, x)

\* The helpers that share a deadline with the process are the same.
Unhelped(x, y) ==
  /\ y.active_stop_helper = x.active_stop_helper /\ y.stop_post_helper = x.stop_post_helper

\* Nothing that a deadline depends on has changed, but for a stronger signal.
Same(x, y) ==
  /\ y.rec = x.rec /\ y.start_helper = x.start_helper /\ Unhelped(x, y)
  /\ y.start_deadline = x.start_deadline /\ y.stop_deadline = x.stop_deadline
  /\ x.signal = "kill" => y.signal = "kill"

\* A record that has just begun its start, as far as deadlines go.
Begun(s, x) ==
  /\ Typed(s, x) /\ StopArmed(s, x)
  /\ x.rec.state = "Starting" /\ x.rec.pid = NoPid /\ x.start_helper = "none"

(***************************************************************************)
(* What changes neither the phase nor a deadline keeps both.               *)
(***************************************************************************)
LEMMA SameArmed ==
  ASSUME NEW s, NEW x, NEW y, Same(x, y)
  PROVE  /\ Armed(s, x) => Armed(s, y)
         /\ StopArmed(s, x) => StopArmed(s, y)
BY DEF Same, Unhelped, Armed, StartArmed, StopArmed

(***************************************************************************)
(* Such changes compose.                                                   *)
(***************************************************************************)
LEMMA SameOn ==
  ASSUME NEW x, NEW y, NEW z, Same(x, y), Same(y, z)
  PROVE  Same(x, z)
BY DEF Same, Unhelped

(***************************************************************************)
(* A record that rests, or waits for its restart, needs no deadline.       *)
(***************************************************************************)
LEMMA RestArmed ==
  ASSUME NEW s, NEW x, NEW y, StopArmed(s, x), Unhelped(x, y), y.start_helper = "none",
         y.rec.state \notin {"Starting", "Stopping"},
         y.rec.state = "Active" /\ s.has_stop => ~ StopsBare(s)
  PROVE  Armed(s, y)
BY DEF Unhelped, Armed, StartArmed, StopArmed

(***************************************************************************)
(* A start deadline may go when there is no start, or when its helpers may *)
(* run without one.                                                        *)
(***************************************************************************)
LEMMA UntimedArmed ==
  ASSUME NEW s, NEW x, NEW y, Armed(s, x), y.rec = x.rec, Unhelped(x, y),
         y.start_helper = "none", y.stop_deadline = x.stop_deadline, y.signal = x.signal,
         x.rec.state = "Starting" => x.rec.pid = NoPid /\ ~ StartsBare(s)
  PROVE  Armed(s, y)
BY DEF Unhelped, Armed, StartArmed, StopArmed

(***************************************************************************)
(* What runs at a teardown says nothing of a service with such commands.   *)
(***************************************************************************)
LEMMA TornArmed ==
  ASSUME NEW s, NEW x, NEW y, Armed(s, x), ~ StopsBare(s), y.rec = x.rec,
         y.start_helper = x.start_helper, y.start_deadline = x.start_deadline
  PROVE  Armed(s, y)
BY DEF Armed, StartArmed, StopArmed

(***************************************************************************)
(* Errors, signals, directories, attempts and the other deadlines.         *)
(***************************************************************************)
LEMMA SmallSame ==
  ASSUME NEW s, NEW x, Typed(s, x)
  PROVE  /\ Same(x, x) /\ Same(x, Err(x)) /\ Same(x, [x EXCEPT !.err = FALSE])
         /\ Same(x, cleanup_directories(x))
         /\ Same(x, arm_runtime_limit(s, x)) /\ Same(x, arm_watchdog(s, x))
         /\ Same(x, [x EXCEPT !.start_post_helper = "running"])
         /\ \A signal \in {"term", "abort", "kill"} : Same(x, send_signal(s, x, signal))
<1>1. Same(x, x) /\ Same(x, Err(x)) /\ Same(x, [x EXCEPT !.err = FALSE])
  BY FieldsAre DEF Typed, Same, Unhelped, Err
<1>2. Same(x, cleanup_directories(x)) /\ Same(x, [x EXCEPT !.start_post_helper = "running"])
  BY FieldsAre DEF Typed, Same, Unhelped, cleanup_directories
<1>3. Same(x, arm_runtime_limit(s, x)) /\ Same(x, arm_watchdog(s, x))
  BY FieldsAre DEF Typed, Same, Unhelped, arm_runtime_limit, arm_watchdog
<1>4. \A signal \in {"term", "abort", "kill"} : Same(x, send_signal(s, x, signal))
  BY FieldsAre DEF Typed, Same, Unhelped, send_signal
<1> QED BY <1>1, <1>2, <1>3, <1>4

(***************************************************************************)
(* Killing the helpers of a start or of a process.                         *)
(***************************************************************************)
LEMMA KillSame ==
  ASSUME NEW s, NEW x, NEW helpers \in SUBSET Helpers, Typed(s, x),
         "active_stop_helper" \notin helpers, "stop_post_helper" \notin helpers
  PROVE  LET y == kill(x, helpers) IN
         /\ Typed(s, y) /\ y.rec = x.rec /\ Unhelped(x, y) /\ y.signal = x.signal
         /\ y.start_deadline = x.start_deadline /\ y.stop_deadline = x.stop_deadline
         /\ y.start_helper = IF "start_helper" \in helpers THEN "none" ELSE x.start_helper
         /\ y.err = x.err
<1> DEFINE y == kill(x, helpers)
<1>1. /\ Typed(s, y)
      /\ \A field \in Fields : y[field] = IF field \in helpers THEN "none" ELSE x[field]
  <2>1. y = [field \in Fields |-> IF field \in helpers THEN "none" ELSE x[field]]
    BY DEF kill, Typed
  <2>2. Typed(s, y)
    BY KillGoes
  <2> HIDE DEF y
  <2> QED BY <2>1, <2>2
<1> HIDE DEF y
<1>2. {"rec", "signal", "start_deadline", "stop_deadline", "err", "active_stop_helper",
       "stop_post_helper"} \cap helpers = {}
  BY DEF Helpers
<1>3. /\ y.rec = x.rec /\ y.signal = x.signal /\ y.start_deadline = x.start_deadline
      /\ y.stop_deadline = x.stop_deadline /\ y.err = x.err
      /\ y.active_stop_helper = x.active_stop_helper /\ y.stop_post_helper = x.stop_post_helper
  BY <1>1, <1>2, FieldsAre
<1>4. y.start_helper = IF "start_helper" \in helpers THEN "none" ELSE x.start_helper
  BY <1>1, FieldsAre
<1> QED BY <1>1, <1>3, <1>4 DEF Unhelped, y

(***************************************************************************)
(* A process that is to end has its deadline.                              *)
(***************************************************************************)
LEMMA EndArmed ==
  ASSUME NEW s, NEW x, NEW y, StopArmed(s, x), Typed(s, y), Unhelped(x, y),
         y.start_helper = "none",
         y.rec.state = IF y.rec.pid # NoPid THEN "Stopping" ELSE "Failed"
  PROVE  Armed(s, EndProcess(s, y))
<1> DEFINE z == SignalIf(StoppingProcess(y), s, y, "term")
           e == arm_stop_deadline(s, z)
<1>1. Same(y, z) /\ Typed(s, z)
  BY SmallSame, SignalStep DEF SignalIf
<1>2. EndProcess(s, y) = e
  BY DEF EndProcess
<1> HIDE DEF z
<1>3. e = IF StoppingProcess(z) THEN [z EXCEPT !.stop_deadline = timeout_deadline(s.stop_timeout)]
          ELSE z
  BY DEF arm_stop_deadline
<1>4. /\ e.rec = z.rec /\ e.start_helper = z.start_helper /\ Unhelped(z, e)
      /\ StoppingProcess(z) => e.stop_deadline = timeout_deadline(s.stop_timeout)
  BY <1>1, <1>3, FieldsAre DEF Typed, Unhelped
<1> HIDE DEF e
<1>5. e.rec = y.rec /\ e.start_helper = "none" /\ Unhelped(x, e)
  BY <1>1, <1>4 DEF Same, Unhelped
<1>6. y.rec.state = "Stopping" /\ s.stop_timeout => e.stop_deadline = "armed"
  BY <1>1, <1>4 DEF Same, StoppingProcess, timeout_deadline
<1> QED BY <1>2, <1>5, <1>6 DEF Unhelped, Armed, StartArmed, StopArmed

(***************************************************************************)
(* A spawn that failed leaves a record that rests or waits.                *)
(***************************************************************************)
LEMMA SpawnFailedArmed ==
  ASSUME NEW s, NEW x, Begun(s, x)
  PROVE  Armed(s, mark_spawn_failed(s, x)) /\ Armed(s, Err(mark_spawn_failed(s, x)))
<1> DEFINE k == kill(x, {"exec_condition_helper"})
           c == cleanup_directories(k)
           ok == R!spawn_failed_ok(x.rec, x.rec.generation)
           rec == R!spawn_failed(s, x.rec)
           y == [c EXCEPT !.rec = rec]
           z == [y EXCEPT !.restart_at = "armed"]
           w == mark_spawn_failed(s, x)
<1>1. Typed(s, k) /\ Unhelped(x, k) /\ k.start_helper = "none" /\ k.rec = x.rec
  BY KillSame DEF Begun, Helpers
<1>2. w = ArmRestart(IF ok THEN y ELSE Err(c))
  BY DEF mark_spawn_failed, Commit
<1> HIDE DEF k
<1>3. Typed(s, c) /\ Unhelped(x, c) /\ c.start_helper = "none"
  BY <1>1, CleanupStep, SmallSame DEF Same, Unhelped
<1> HIDE DEF c
<1>4. ok
  BY DEF Begun, R!spawn_failed_ok, R!check_generation
<1>5. rec \in R!ServiceRecord /\ rec.state \in {"Backoff", "Failed"}
  BY FailTransitions DEF Begun, Typed
<1> HIDE DEF ok, rec
<1>6. /\ Typed(s, y) /\ y.rec = rec /\ Unhelped(x, y) /\ y.start_helper = "none"
  BY <1>3, <1>5, RecStep, FieldsAre DEF Typed, Unhelped, Around
<1> HIDE DEF y
<1>7. /\ Typed(s, z) /\ z.rec = rec /\ Unhelped(x, z) /\ z.start_helper = "none"
  <2>1. Typed(s, z) /\ z.rec = rec
    BY <1>6, RestartAtStep DEF Deadline
  <2> QED BY <1>6, <2>1, FieldsAre DEF Typed, Unhelped
<1> HIDE DEF z
<1>8. w = y \/ w = z
  BY <1>2, <1>4 DEF ArmRestart, z
<1> HIDE DEF w
<1>9. Armed(s, w) /\ Typed(s, w)
  BY <1>5, <1>6, <1>7, <1>8, RestArmed DEF Begun
<1> QED BY <1>9, SmallSame, SameArmed DEF w

(***************************************************************************)
(* ExecStartPost does not touch a deadline.                                *)
(***************************************************************************)
LEMMA StartPostSame ==
  ASSUME NEW s, NEW f, NEW x, Typed(s, x)
  PROVE  Same(x, spawn_start_post(s, f, x))
<1> DEFINE y == send_signal(s, x, "term")
<1>1. Same(x, y) /\ Typed(s, y)
  BY SmallSame, SignalStep
<1> HIDE DEF y
<1>2. Same(x, Err(y))
  BY <1>1, SmallSame, SameOn
<1> QED BY <1>2, SmallSame DEF spawn_start_post, y

(***************************************************************************)
(* A start has its deadline at the latest with its process.                *)
(***************************************************************************)
LEMMA SpawnMainArmed ==
  ASSUME NEW s, NEW f, NEW x, Begun(s, x)
  PROVE  Armed(s, spawn_main(s, f, x))
<1> DEFINE pid == CHOOSE p \in Pids : TRUE
           rec == R!spawned(s, x.rec, pid)
           y == MainSpawned(s, x, rec)
<1>1. pid \in Pids
  BY ManagedAssumption
<1>2. Typed(s, x) /\ x.rec \in R!ServiceRecord /\ x.rec.state = "Starting"
  BY DEF Begun, Typed
<1> HIDE DEF pid
<1>3. rec \in R!ServiceRecord /\ rec.state \in {"Starting", "Running"} /\ rec.pid = pid
  BY <1>1, <1>2, StartTransitions
<1>4. R!spawned_ok(x.rec, x.rec.generation)
  BY <1>2 DEF R!spawned_ok, R!check_generation
<1> HIDE DEF rec
<1>5. /\ y.rec = rec /\ Unhelped(x, y) /\ y.start_helper = x.start_helper
      /\ y.start_deadline = StartDeadline(s, x.start_deadline)
  BY <1>2, FieldsAre DEF MainSpawned, Typed, Unhelped
<1>6. s.start_timeout => y.start_deadline # "none"
  BY <1>5 DEF StartDeadline, timeout_deadline
<1>7. \/ spawn_main(s, f, x) = Err(mark_spawn_failed(s, x))
      \/ spawn_main(s, f, x) = y
      \/ spawn_main(s, f, x) = spawn_start_post(s, f, y)
  <2>1. With(y, LAMBDA w : IF Late(s) THEN w ELSE spawn_start_post(s, f, w))
          = IF Late(s) THEN y ELSE spawn_start_post(s, f, y)
    BY DEF With
  <2> QED BY <1>4, <2>1 DEF spawn_main, rec, pid
<1> HIDE DEF y
<1>8. Armed(s, y)
  BY <1>3, <1>5, <1>6 DEF Begun, Armed, StartArmed, StopArmed, Unhelped
<1>9. Typed(s, y)
  BY <1>2, <1>3, MainSpawnedTyped DEF y
<1>10. Armed(s, spawn_start_post(s, f, y))
  BY <1>8, <1>9, StartPostSame, SameArmed
<1> QED BY <1>7, <1>8, <1>10, SpawnFailedArmed

(***************************************************************************)
(* A socket, timer or path is active at once.  It has no stop command when *)
(* nothing runs at its teardown.                                           *)
(***************************************************************************)
LEMMA ActivateArmed ==
  ASSUME NEW s, NEW x, Begun(s, x), s.service_type \in {"Socket", "Timer", "Path"}
  PROVE  Armed(s, Activate(x))
<1> DEFINE y == [x EXCEPT !.rec = R!activated(x.rec)]
           z == [y EXCEPT !.start_deadline = "none"]
<1>1. Typed(s, x) /\ x.rec \in R!ServiceRecord /\ x.rec.state = "Starting"
  BY DEF Begun, Typed
<1>2. R!activated(x.rec) \in R!ServiceRecord /\ R!activated(x.rec).state = "Active"
  <2>1. PICK pid \in Pids : TRUE
    BY ManagedAssumption
  <2> QED BY <1>1, <2>1, StartTransitions
<1>3. Activate(x) = y \/ Activate(x) = z
  <2>1. Activate(x) = Try(y, LAMBDA w : [w EXCEPT !.start_deadline = "none"])
    BY <1>1 DEF Activate, Commit, R!activated_ok, R!check_generation
  <2> HIDE DEF y
  <2> QED BY <2>1 DEF Try, With
<1>4. /\ Typed(s, y) /\ y.rec = R!activated(x.rec) /\ Unhelped(x, y)
      /\ y.start_helper = x.start_helper
  BY <1>1, <1>2, RecStep, FieldsAre DEF Typed, Unhelped
<1> HIDE DEF y
<1>5. /\ z.rec = R!activated(x.rec) /\ Unhelped(x, z) /\ z.start_helper = "none"
      /\ y.start_helper = "none"
  BY <1>4, FieldsAre DEF Typed, Unhelped, Begun
<1> HIDE DEF z
<1> QED BY <1>2, <1>3, <1>4, <1>5, RestArmed DEF Begun, StopsBare

(***************************************************************************)
(* A start goes on with its next phase: without helpers that is the        *)
(* process itself.                                                         *)
(***************************************************************************)
LEMMA SpawnArmed ==
  ASSUME NEW s, NEW f, NEW x, Begun(s, x)
  PROVE  Armed(s, spawn(s, f, x))
<1> DEFINE c == [x EXCEPT !.exec_condition_helper = "running"]
           h == [x EXCEPT !.start_helper = "running"]
<1>1. Typed(s, x)
  BY DEF Begun
<1>2. c.rec = x.rec /\ Unhelped(x, c) /\ h.rec = x.rec /\ Unhelped(x, h)
  BY <1>1, FieldsAre DEF Typed, Unhelped
<1> HIDE DEF c, h
<1>3. ~ StartsBare(s) => Armed(s, c) /\ Armed(s, h)
  BY <1>2 DEF Begun, Armed, StartArmed, StopArmed, Unhelped
<1>4. \/ spawn(s, f, x) = Err(mark_spawn_failed(s, x))
      \/ spawn(s, f, x) = Activate(x) /\ s.service_type \in {"Socket", "Timer", "Path"}
      \/ spawn(s, f, x) \in {c, h} /\ ~ StartsBare(s)
      \/ spawn(s, f, x) = spawn_main(s, f, x)
  BY DEF spawn, StartsBare, c, h
<1> QED BY <1>3, <1>4, SpawnFailedArmed, ActivateArmed, SpawnMainArmed

(***************************************************************************)
(* The start limit.                                                        *)
(***************************************************************************)
LEMMA LimitArmed ==
  ASSUME NEW s, NEW x, Coherent(s, x), Armed(s, x), x.rec.state # "Starting"
  PROVE  /\ Armed(s, enforce_start_limit(s, x))
         /\ enforce_start_limit(s, x).start_helper = "none"
<1> DEFINE y == enforce_start_limit(s, x)
           a == [x EXCEPT !.start_attempts = @ + 1]
           c == cleanup_directories(x)
           d == [c EXCEPT !.rec = R!start_limit_hit(@), !.wants_running = FALSE,
                          !.restart_at = "none"]
<1>1. Typed(s, x) /\ x.rec \in R!ServiceRecord /\ x.start_helper = "none"
  BY DEF Coherent, Typed, PhasesLinked
<1>2. y = x \/ y = a \/ y = Err(d) \/ y = Err(x)
  BY DEF enforce_start_limit
<1>3. Same(x, a)
  BY <1>1, FieldsAre DEF Typed, Same, Unhelped
<1>4. Typed(s, c) /\ Same(x, c)
  BY <1>1, CleanupStep, SmallSame
<1>5. R!start_limit_hit(c.rec).state = "Failed"
  BY <1>1, <1>4, FailTransitions DEF Same
<1> HIDE DEF a, c
<1>6. /\ Err(d).rec.state = "Failed" /\ Unhelped(x, Err(d))
      /\ Err(d).start_helper = "none"
  <2>1. /\ d.rec = R!start_limit_hit(c.rec) /\ Unhelped(c, d) /\ d.start_helper = c.start_helper
        /\ DOMAIN d = Fields
    BY <1>4, FieldsAre DEF Typed, Unhelped
  <2> HIDE DEF d
  <2>2. /\ Err(d).rec = d.rec /\ Unhelped(d, Err(d)) /\ Err(d).start_helper = d.start_helper
    BY <2>1, FieldsAre DEF Err, Unhelped
  <2> QED BY <1>1, <1>4, <1>5, <2>1, <2>2 DEF Same, Unhelped
<1> HIDE DEF d, y
<1>7. Armed(s, Err(d))
  BY <1>6, RestArmed DEF Armed
<1>8. ASSUME NEW z, Same(x, z) PROVE Armed(s, z) /\ z.start_helper = "none"
  BY <1>1, <1>8, SameArmed DEF Same
<1>9. Same(x, x) /\ Same(x, Err(x))
  BY <1>1, SmallSame
<1>10. Armed(s, y) /\ y.start_helper = "none"
  BY <1>2, <1>3, <1>6, <1>7, <1>8, <1>9
<1> QED BY <1>10 DEF y

(***************************************************************************)
(* A start whose conditions, assertions and directories are looked at.     *)
(***************************************************************************)
LEMMA BeginStartArmed ==
  ASSUME NEW s, NEW f, NEW x, Begun(s, x)
  PROVE  Armed(s, BeginStart(s, f, x))
<1>1. Typed(s, x) /\ x.rec \in R!ServiceRecord
  BY DEF Begun, Typed
<1>2. ASSUME NEW rec \in R!ServiceRecord, rec.state \in {"Skipped", "Failed"}
      PROVE  Armed(s, [x EXCEPT !.rec = rec, !.start_deadline = "none"])
  <2> DEFINE y == [x EXCEPT !.rec = rec, !.start_deadline = "none"]
  <2>1. y.rec = rec /\ Unhelped(x, y) /\ y.start_helper = "none"
    BY <1>1, FieldsAre DEF Typed, Unhelped, Begun
  <2> HIDE DEF y
  <2>2. Armed(s, y)
    BY <1>2, <2>1, RestArmed DEF Begun
  <2> QED BY <2>2 DEF y
<1>3. CASE f = "conditions"
  <2>1. PICK pid \in Pids : TRUE
    BY ManagedAssumption
  <2> DEFINE rec == R!condition_skipped(x.rec)
  <2>2. rec \in R!ServiceRecord /\ rec.state = "Skipped"
    BY <1>1, <2>1, StartTransitions
  <2>3. BeginStart(s, f, x) = [x EXCEPT !.rec = rec, !.start_deadline = "none"]
    BY <1>3 DEF BeginStart
  <2> HIDE DEF rec
  <2> QED BY <1>2, <2>2, <2>3
<1>4. CASE f = "assertions"
  <2> DEFINE rec == R!start_failed(x.rec)
  <2>1. rec \in R!ServiceRecord /\ rec.state = "Failed"
    BY <1>1, FailTransitions DEF Begun
  <2>2. BeginStart(s, f, x) = [x EXCEPT !.rec = rec, !.start_deadline = "none"]
    BY <1>4 DEF BeginStart
  <2> HIDE DEF rec
  <2> QED BY <1>2, <2>1, <2>2
<1>5. CASE f = "prepare"
  <2> DEFINE y == [x EXCEPT !.exec_conditions_done = FALSE]
  <2>1. Typed(s, y) /\ Same(x, y)
    BY <1>1, FieldsAre DEF Typed, Same, Unhelped, Helpers, Deadlines
  <2>2. BeginStart(s, f, x) = Err(mark_spawn_failed(s, y))
    BY <1>5 DEF BeginStart
  <2> HIDE DEF y
  <2>3. Begun(s, y)
    BY <2>1, SameArmed DEF Begun, Same
  <2> QED BY <2>2, <2>3, SpawnFailedArmed
<1>6. CASE f \notin {"conditions", "assertions", "prepare"}
  <2> DEFINE y == [x EXCEPT !.exec_conditions_done = FALSE, !.prepared = TRUE,
                            !.start_deadline = timeout_deadline(s.start_timeout)]
  <2>1. timeout_deadline(s.start_timeout) \in Deadline
    BY DEF timeout_deadline, Deadline
  <2>2. Typed(s, y)
    BY <1>1, <2>1, FieldsAre DEF Typed, Helpers, Deadlines
  <2>3. /\ y.rec = x.rec /\ y.start_helper = x.start_helper /\ Unhelped(x, y)
    BY <1>1, FieldsAre DEF Typed, Unhelped
  <2>4. BeginStart(s, f, x) = spawn(s, f, y)
    BY <1>6 DEF BeginStart
  <2> HIDE DEF y
  <2>5. Begun(s, y)
    BY <2>2, <2>3 DEF Begun, StopArmed, Unhelped
  <2> QED BY <2>4, <2>5, SpawnArmed
<1> QED BY <1>3, <1>4, <1>5, <1>6

(***************************************************************************)
(* A start, from any state.                                                *)
(***************************************************************************)
LEMMA StartArms ==
  ASSUME NEW s, NEW f, NEW x, Coherent(s, x), ~ x.err, s.start_limit_burst \in Nat, Armed(s, x)
  PROVE  Armed(s, start(s, f, x))
<1> DEFINE y == [x EXCEPT !.wants_running = TRUE, !.restart_after_stop = FALSE,
                          !.restart_at = "none"]
           w == [y EXCEPT !.restart_after_stop = TRUE]
           l == enforce_start_limit(s, y)
           b == [l EXCEPT !.runtime_deadline = "none", !.rec = R!start(@)]
<1>1. Typed(s, x)
  BY DEF Coherent
<1>2. /\ Typed(s, y) /\ y.rec = x.rec /\ y.err = x.err
      /\ y.child = x.child /\ y.exit = x.exit /\ y.forking_pending = x.forking_pending
      /\ y.forking_parent_exited = x.forking_parent_exited
      /\ y.stop_command = x.stop_command /\ y.reload_command = x.reload_command
      /\ y.exec_condition_helper = x.exec_condition_helper
      /\ y.start_helper = x.start_helper /\ y.exec_conditions_done = x.exec_conditions_done
  BY <1>1, FieldsAre DEF Typed, Helpers, Deadlines, Deadline
<1>3. Coherent(s, y)
  BY <1>2 DEF Coherent, ProcessLinked, PhasesLinked, Passed
<1>4. Same(x, y) /\ Same(x, w)
  BY <1>1, FieldsAre DEF Typed, Same, Unhelped
<1>5. \/ start(s, f, x) = y
      \/ start(s, f, x) = w
      \/ /\ start(s, f, x) = IF l.err THEN l ELSE BeginStart(s, f, b)
         /\ ~ Up(x) /\ x.rec.state # "Stopping"
  BY DEF start, Try, With
<1> HIDE DEF y, w
<1>6. Armed(s, y) /\ Armed(s, w)
  BY <1>4, SameArmed
<1>7. CASE /\ start(s, f, x) = IF l.err THEN l ELSE BeginStart(s, f, b)
           /\ ~ Up(x) /\ x.rec.state # "Stopping"
  <2>1. y.rec.state \notin {"Starting", "Running", "Active", "Stopping"} /\ ~ y.err
    BY <1>2, <1>7 DEF Up
  <2>2. Armed(s, l) /\ l.start_helper = "none"
    BY <1>3, <1>6, <2>1, LimitArmed
  <2>3. Coherent(s, l) /\ Typed(s, l)
    BY <1>3, <2>1, LimitEffect DEF Coherent
  <2> HIDE DEF l
  <2> DEFINE rec == R!start(l.rec)
             c == [l EXCEPT !.runtime_deadline = "none"]
  <2>4. rec \in R!ServiceRecord /\ rec.state = "Starting" /\ rec.pid = NoPid
    <3>1. PICK pid \in Pids : TRUE
      BY ManagedAssumption
    <3> QED BY <2>3, <3>1, StartTransitions DEF Typed
  <2>5. Typed(s, c) /\ c.rec = l.rec
    BY <2>3, FieldsAre DEF Typed, Helpers, Deadlines, Deadline
  <2>6. /\ b.rec = rec /\ Unhelped(l, b) /\ b.start_helper = l.start_helper
    BY <2>3, FieldsAre DEF Typed, Unhelped
  <2>7. b = [c EXCEPT !.rec = rec]
    BY <2>3, <2>5, FieldsAre DEF Typed
  <2> HIDE DEF b, c, rec
  <2>8. Typed(s, b)
    BY <2>4, <2>5, <2>7, RecStep
  <2>9. Begun(s, b)
    BY <2>2, <2>4, <2>6, <2>8 DEF Begun, Armed, StopArmed, Unhelped
  <2> QED BY <1>7, <2>2, <2>9, BeginStartArmed
<1> QED BY <1>5, <1>6, <1>7

(***************************************************************************)
(* A start that waited for the teardown.                                   *)
(***************************************************************************)
LEMMA TeardownArmed ==
  ASSUME NEW s, NEW f, NEW x, Coherent(s, x), ~ x.err, s.start_limit_burst \in Nat, Armed(s, x)
  PROVE  Armed(s, maybe_start_after_teardown(s, f, x))
BY StartArms DEF maybe_start_after_teardown

(***************************************************************************)
(* What is called off has no deadline.                                     *)
(***************************************************************************)
LEMMA CallOffSame ==
  ASSUME NEW s, NEW x, Typed(s, x)
  PROVE  Typed(s, CallOff(x)) /\ Same(x, CallOff(x)) /\ CallOff(x).err = x.err
<1> DEFINE y == [x EXCEPT !.wants_running = FALSE, !.restart_after_stop = FALSE,
                          !.restart_at = "none", !.runtime_deadline = "none"]
           k == kill(y, {"dbus_probe"})
<1>1. /\ Typed(s, y) /\ Same(x, y) /\ y.err = x.err
  BY FieldsAre DEF Typed, Same, Unhelped, Helpers, Deadlines, Deadline
<1>2. CallOff(x) = k
  BY DEF CallOff
<1> HIDE DEF y
<1>3. Typed(s, k) /\ Same(y, k) /\ k.err = y.err
  BY <1>1, KillSame DEF Helpers, Same
<1> HIDE DEF k
<1> QED BY <1>1, <1>2, <1>3, SameOn

(***************************************************************************)
(* A stop up to its commands starts nothing.                               *)
(***************************************************************************)
LEMMA StopRecordUnhelped ==
  ASSUME NEW s, NEW x, Typed(s, x)
  PROVE  LET y == CompleteUnspawned(StopRecord(s, x)) IN Unhelped(x, y)
<1> DEFINE c == CallOff(x)
           rec == R!stop(c.rec)
           d == [c EXCEPT !.rec = rec]
           e == StopRecord(s, x)
           k == kill(e, {"exec_condition_helper", "start_helper", "start_post_helper"})
           z == [k EXCEPT !.rec = R!stop_completed(@), !.start_deadline = "none"]
           y == CompleteUnspawned(e)
<1>1. Typed(s, c) /\ Same(x, c) /\ c.rec \in R!ServiceRecord
  BY CallOffSame DEF Typed
<1>2. rec \in R!ServiceRecord
  BY <1>1, StopTransitions
<1>3. [CallOff(x) EXCEPT !.rec = R!stop(@)] = d
  BY <1>1, FieldsAre DEF Typed
<1> HIDE DEF c, rec
<1>4. Typed(s, d) /\ Unhelped(c, d)
  BY <1>1, <1>2, RecStep, FieldsAre DEF Typed, Unhelped
<1> HIDE DEF d
<1>5. Typed(s, e) /\ Unhelped(d, e)
  <2>1. e = d \/ e = send_signal(s, d, "term")
    BY <1>3 DEF StopRecord, SignalIf
  <2> HIDE DEF e
  <2>2. /\ Typed(s, send_signal(s, d, "term")) /\ Same(d, send_signal(s, d, "term"))
    BY <1>4, SignalStep, SmallSame
  <2> QED BY <1>4, <2>1, <2>2 DEF Same, Unhelped
<1> HIDE DEF e
<1>6. Typed(s, k) /\ Unhelped(e, k)
  BY <1>5, KillSame DEF Helpers
<1>7. y = e \/ y = z
  BY DEF CompleteUnspawned
<1> HIDE DEF k, y
<1>8. Unhelped(k, z)
  BY <1>6, FieldsAre DEF Typed, Unhelped
<1> HIDE DEF z
<1>9. Unhelped(x, y)
  BY <1>1, <1>4, <1>5, <1>6, <1>7, <1>8 DEF Same, Unhelped
<1> QED BY <1>9 DEF y, e

(***************************************************************************)
(* A stop: a process that is to end has its full time before it.  What     *)
(* runs at the teardown of an active service is not started here, since    *)
(* such a service has no stop command.                                     *)
(***************************************************************************)
LEMMA StopArms ==
  ASSUME NEW s, NEW f, NEW x, Coherent(s, x), ~ x.err, Armed(s, x)
  PROVE  Armed(s, stop_with_signal(s, f, x))
<1> DEFINE a == CompleteUnspawned(StopRecord(s, x))
           b == StopActive(s, f, x.rec.state = "Active", a)
           c == ReleaseAtRest(b)
           d == StopCommand(s, f, c)
           e == [d EXCEPT !.stop_deadline = "none"]
           g == arm_stop_deadline(s, e)
           y == stop_with_signal(s, f, x)
<1>1. y = IF b.err THEN b ELSE g
  BY DEF stop_with_signal, Try, With
<1>2. Sound(s, y) /\ Held(y)
  BY StopHolds
<1>3. y.rec.state \notin {"Starting", "Active"} /\ y.start_helper = "none"
  BY <1>2 DEF Held, Up, Sound, Coherent, PhasesLinked
<1>4. ~ StopsBare(s) => Armed(s, y)
  BY <1>3 DEF Armed, StartArmed, StopArmed
<1>5. y.rec.state = "Stopping" => y.rec.pid # NoPid
  BY <1>2 DEF Sound, Coherent, ProcessLinked
<1>6. Typed(s, a) /\ ~ a.err
  BY StopRecordHolds DEF Sound, Coherent
<1> HIDE DEF y
<1>7. ASSUME StopsBare(s) PROVE Armed(s, y)
  <2>1. /\ Typed(s, x) /\ x.active_stop_helper = "none" /\ x.stop_post_helper = "none"
        /\ s.has_stop => x.rec.state # "Active"
    BY <1>7 DEF Coherent, Armed, StopArmed
  <2>2. Unhelped(x, a)
    BY <2>1, StopRecordUnhelped
  <2> HIDE DEF a
  <2>3. b = a
    BY <1>7, <2>1 DEF StopActive, StopsBare, spawn_stop_post
  <2> HIDE DEF b
  <2>4. Typed(s, c) /\ Same(b, c)
    <3>1. c = b \/ c = cleanup_directories(b)
      BY DEF ReleaseAtRest, CleanUnless
    <3> HIDE DEF c
    <3> QED BY <1>6, <2>3, <3>1, SmallSame, CleanupStep
  <2> HIDE DEF c
  <2>5. DOMAIN d = Fields /\ Unhelped(c, d) /\ d.rec = c.rec
    <3> DEFINE v == [c EXCEPT !.stop_command = "running"]
    <3>1. d = c \/ d = send_signal(s, c, "term") \/ d = v
      BY DEF StopCommand
    <3>2. DOMAIN v = Fields /\ Unhelped(c, v) /\ v.rec = c.rec
      BY <2>4, FieldsAre DEF Typed, Unhelped
    <3>3. /\ Same(c, send_signal(s, c, "term")) /\ Typed(s, send_signal(s, c, "term"))
      BY <2>4, SmallSame, SignalStep
    <3>4. DOMAIN c = Fields /\ DOMAIN send_signal(s, c, "term") = Fields
      BY <2>4, <3>3 DEF Typed
    <3> HIDE DEF v, d
    <3> QED BY <3>1, <3>2, <3>3, <3>4 DEF Same, Unhelped
  <2> HIDE DEF d
  <2>6. DOMAIN e = Fields /\ Unhelped(d, e) /\ e.rec = d.rec
    BY <2>5, FieldsAre DEF Unhelped
  <2> HIDE DEF e
  <2>7. /\ Unhelped(e, g) /\ g.rec = e.rec
        /\ StoppingProcess(e) => g.stop_deadline = timeout_deadline(s.stop_timeout)
    BY <2>6, FieldsAre DEF Unhelped, arm_stop_deadline
  <2> HIDE DEF g
  <2>8. Unhelped(x, g) /\ y = g
    BY <1>1, <1>6, <2>2, <2>3, <2>4, <2>5, <2>6, <2>7 DEF Unhelped, Same
  <2>9. y.rec.state = "Stopping" /\ s.stop_timeout => y.stop_deadline # "none"
    BY <1>5, <2>7, <2>8 DEF StoppingProcess, timeout_deadline
  <2> QED BY <1>3, <2>1, <2>8, <2>9 DEF Armed, StartArmed, StopArmed, Unhelped
<1> QED BY <1>4, <1>7 DEF y

(***************************************************************************)
(* A restart.                                                              *)
(***************************************************************************)
LEMMA RestartArmed ==
  ASSUME NEW s, NEW f, NEW x, Coherent(s, x), ~ x.err, s.start_limit_burst \in Nat, Armed(s, x)
  PROVE  Armed(s, restart(s, f, x))
<1> DEFINE y == [x EXCEPT !.wants_running = TRUE, !.restart_at = "none"]
           z == stop_with_signal(s, f, y)
           w == [z EXCEPT !.wants_running = TRUE, !.restart_after_stop = TRUE]
           v == [y EXCEPT !.restart_after_stop = TRUE]
           o == [y EXCEPT !.rec = R!stop(@)]
<1>1. Typed(s, x) /\ x.rec \in R!ServiceRecord
  BY DEF Coherent, Typed
<1>2. /\ Typed(s, y) /\ y.rec = x.rec /\ y.err = x.err
      /\ y.child = x.child /\ y.exit = x.exit /\ y.forking_pending = x.forking_pending
      /\ y.forking_parent_exited = x.forking_parent_exited
      /\ y.stop_command = x.stop_command /\ y.reload_command = x.reload_command
      /\ y.exec_condition_helper = x.exec_condition_helper
      /\ y.start_helper = x.start_helper /\ y.exec_conditions_done = x.exec_conditions_done
  BY <1>1, FieldsAre DEF Typed, Helpers, Deadlines, Deadline
<1>3. Same(x, y)
  BY <1>1, FieldsAre DEF Typed, Same, Unhelped
<1>4. restart(s, f, x)
        = CASE x.rec.state \in {"Running", "Starting"} ->
                 (IF z.err THEN z ELSE IF z.rec.state = "Exited" THEN start(s, f, z) ELSE w)
            [] x.rec.state = "Stopping" -> v
            [] x.rec.state = "Backoff" -> start(s, f, o)
            [] x.rec.state = "Active" -> (IF z.err THEN z ELSE start(s, f, z))
            [] OTHER -> start(s, f, y)
  BY DEF restart, Try, With
<1> HIDE DEF y
<1>5. Coherent(s, y) /\ ~ y.err /\ Armed(s, y)
  BY <1>2, <1>3, SameArmed DEF Coherent, ProcessLinked, PhasesLinked, Passed
<1>6. Coherent(s, z) /\ Typed(s, z) /\ Armed(s, z)
  BY <1>5, StopHolds, StopArms DEF Sound, Coherent
<1> HIDE DEF z
<1>7. /\ ~ z.err => Armed(s, start(s, f, z))
      /\ Armed(s, start(s, f, y))
  BY <1>5, <1>6, StartArms
<1>8. Same(z, w) /\ Same(y, v)
  BY <1>2, <1>6, FieldsAre DEF Typed, Same, Unhelped
<1>9. Armed(s, w) /\ Armed(s, v)
  BY <1>5, <1>6, <1>8, SameArmed
<1>10. x.rec.state = "Backoff" => Armed(s, start(s, f, o))
  <2> SUFFICES ASSUME x.rec.state = "Backoff" PROVE Armed(s, start(s, f, o))
    OBVIOUS
  <2> DEFINE rec == R!stop(x.rec)
  <2>1. rec \in R!ServiceRecord /\ rec.pid = x.rec.pid /\ rec.state = "Exited"
    BY <1>1, StopTransitions
  <2>2. o = [y EXCEPT !.rec = rec]
    BY <1>2, FieldsAre DEF Typed
  <2> HIDE DEF rec, o
  <2>3. Typed(s, o) /\ Around(y, o) /\ o.rec = rec /\ ~ o.err
    BY <1>2, <1>5, <2>1, <2>2, RecStep
  <2>4. Unhelped(y, o)
    BY <1>2, <2>2, FieldsAre DEF Typed, Unhelped
  <2>5. Coherent(s, o)
    BY <1>2, <1>5, <2>1, <2>3 DEF Coherent, Around, ProcessLinked, PhasesLinked, Passed
  <2>6. o.start_helper = "none"
    BY <2>1, <2>3, <2>5 DEF Coherent, PhasesLinked
  <2>7. Armed(s, o)
    BY <1>5, <2>1, <2>3, <2>4, <2>6, RestArmed DEF Armed
  <2> QED BY <2>3, <2>5, <2>7, StartArms
<1> HIDE DEF w, v, o
<1> QED BY <1>4, <1>6, <1>7, <1>9, <1>10

(***************************************************************************)
(* A reload, and the reset of a failed service.                            *)
(***************************************************************************)
LEMMA ReloadArmed ==
  ASSUME NEW s, NEW f, NEW x, Typed(s, x), Armed(s, x)
  PROVE  Armed(s, reload(s, f, x))
<1> DEFINE y == [x EXCEPT !.reload_failed = FALSE]
           z == [x EXCEPT !.reload_failed = FALSE, !.reload_command = "running"]
<1>1. Typed(s, y) /\ Same(x, y) /\ Same(x, z)
  BY FieldsAre DEF Typed, Same, Unhelped, Helpers, Deadlines
<1>2. \/ reload(s, f, x) \in {x, Err(x), z}
      \/ reload(s, f, x) = Err(y)
  BY DEF reload
<1> HIDE DEF y, z
<1>3. Same(x, x) /\ Same(x, Err(x)) /\ Same(x, Err(y))
  BY <1>1, SmallSame, SameOn
<1> QED BY <1>1, <1>2, <1>3, SameArmed

(***************************************************************************)
(* The reset of a failed service.                                          *)
(***************************************************************************)
LEMMA ResetArmed ==
  ASSUME NEW s, NEW x, Coherent(s, x), Armed(s, x)
  PROVE  Armed(s, reset_failed(x))
<1> DEFINE c == cleanup_directories(x)
           rec == R!reset(x.rec)
           e == [c EXCEPT !.rec = rec, !.start_attempts = 0, !.runtime_deadline = "none"]
<1>1. Typed(s, x) /\ x.rec \in R!ServiceRecord
  BY DEF Coherent, Typed
<1>2. Typed(s, c) /\ Same(x, c)
  BY <1>1, CleanupStep, SmallSame
<1>3. rec.state = "Defined"
  BY <1>1, FailTransitions
<1>4. reset_failed(x) = x \/ (reset_failed(x) = e /\ x.rec.state = "Failed")
  <2>1. [c EXCEPT !.rec = R!reset(@), !.start_attempts = 0, !.runtime_deadline = "none"] = e
    BY <1>2, FieldsAre DEF Typed, Same
  <2> QED BY <2>1 DEF reset_failed
<1> HIDE DEF c, rec
<1>5. e.rec = rec /\ Unhelped(c, e) /\ e.start_helper = c.start_helper
  BY <1>2, FieldsAre DEF Typed, Unhelped
<1> HIDE DEF e
<1>6. x.rec.state = "Failed" => Armed(s, e)
  <2>1. x.rec.state = "Failed" => x.start_helper = "none"
    BY DEF Coherent, PhasesLinked
  <2>2. Unhelped(x, e) /\ e.start_helper = x.start_helper
    BY <1>2, <1>5 DEF Same, Unhelped
  <2> QED BY <1>3, <1>5, <2>1, <2>2, RestArmed DEF Armed
<1> QED BY <1>4, <1>6

(***************************************************************************)
(* A job timeout ends what was starting, with a deadline of its own.       *)
(***************************************************************************)
LEMMA JobTimeoutArmed ==
  ASSUME NEW s, NEW x, Coherent(s, x), Armed(s, x)
  PROVE  Armed(s, mark_job_timeout(s, x))
<1> DEFINE y == CallOff(x)
           helpers == {"start_helper", "exec_condition_helper", "start_post_helper"}
           failed(rec) == [y EXCEPT !.rec = rec, !.start_deadline = "none"]
           failing(rec) == EndProcess(s, kill(failed(rec), helpers))
           c == cleanup_directories(y)
           timed == [c EXCEPT !.rec = R!job_timed_out(@), !.start_deadline = "none"]
<1>1. Typed(s, y) /\ Same(x, y) /\ y.rec = x.rec /\ y.rec \in R!ServiceRecord
  BY CallOffSame DEF Coherent, Typed, Same
<1>2. mark_job_timeout(s, x)
        = CASE R!job_timed_out_ok(x.rec) -> timed
            [] x.rec.state = "Starting" -> failing(R!start_timed_out(x.rec))
            [] x.rec.state = "Running" -> failing(R!start_failed(x.rec))
            [] OTHER -> y
  BY DEF mark_job_timeout
<1> HIDE DEF y
<1>3. Armed(s, y)
  BY <1>1, SameArmed
<1>4. R!job_timed_out_ok(x.rec) => Armed(s, timed)
  <2> SUFFICES ASSUME R!job_timed_out_ok(x.rec) PROVE Armed(s, timed)
    OBVIOUS
  <2> DEFINE rec == R!job_timed_out(x.rec)
  <2>1. rec.state = "Failed"
    BY <1>1, FailTransitions
  <2>2. Typed(s, c) /\ Same(y, c)
    BY <1>1, CleanupStep, SmallSame
  <2> HIDE DEF c
  <2>3. timed = [c EXCEPT !.rec = rec, !.start_deadline = "none"]
    BY <1>1, <2>2, FieldsAre DEF Typed, Same
  <2> HIDE DEF rec, timed
  <2>4. timed.rec = rec /\ Unhelped(c, timed) /\ timed.start_helper = c.start_helper
    BY <2>2, <2>3, FieldsAre DEF Typed, Unhelped
  <2>5. x.start_helper = "none"
    BY DEF R!job_timed_out_ok, Coherent, PhasesLinked
  <2>6. Unhelped(y, timed) /\ timed.start_helper = "none"
    BY <1>1, <2>2, <2>4, <2>5 DEF Same, Unhelped
  <2> QED BY <1>3, <2>1, <2>4, <2>6, RestArmed DEF Armed
<1>5. ASSUME NEW rec \in R!ServiceRecord, rec.pid = x.rec.pid,
             rec.state = IF x.rec.pid # NoPid THEN "Stopping" ELSE "Failed"
      PROVE  Armed(s, failing(rec))
  <2> DEFINE a == [y EXCEPT !.rec = rec]
             w == failed(rec)
             k == kill(w, helpers)
  <2>1. Typed(s, a) /\ a.rec = rec
    BY <1>1, <1>5, RecStep
  <2>2. w = [a EXCEPT !.start_deadline = "none"]
    BY <1>1
  <2>3. Unhelped(y, w)
    BY <1>1, FieldsAre DEF Typed, Unhelped
  <2> HIDE DEF a, w
  <2>4. Typed(s, w) /\ w.rec = rec
    BY <2>1, <2>2, FieldsAre DEF Typed, Helpers, Deadlines, Deadline
  <2>5. Typed(s, k) /\ k.rec = rec /\ Unhelped(w, k) /\ k.start_helper = "none"
    BY <2>4, KillSame DEF Helpers
  <2> HIDE DEF k
  <2>6. Unhelped(y, k)
    BY <2>3, <2>5 DEF Unhelped
  <2>7. Armed(s, EndProcess(s, k))
    BY <1>3, <1>5, <2>5, <2>6, EndArmed DEF Armed
  <2> QED BY <2>7 DEF k, w
<1>6. Armed(s, failing(R!start_timed_out(x.rec))) /\ Armed(s, failing(R!start_failed(x.rec)))
  <2> HIDE DEF failing
  <2> QED BY <1>1, <1>5, FailTransitions
<1> HIDE DEF timed, failing
<1> QED BY <1>2, <1>3, <1>4, <1>6

-----------------------------------------------------------------------------
(***************************************************************************)
(* The deadlines of a poll.                                                *)
(***************************************************************************)

(***************************************************************************)
(* A service becomes ready: its start is over.                             *)
(***************************************************************************)
LEMMA ReadyArmed ==
  ASSUME NEW s, NEW f, NEW x, Coherent(s, x), Armed(s, x)
  PROVE  Armed(s, BecomeReady(s, f, x))
<1> DEFINE ok == R!ready_ok(x.rec, x.rec.pid, x.rec.generation)
           rec == R!ready(x.rec)
           y == Commit(x, ok, rec)
           z == arm_runtime_limit(s, y)
           w == [z EXCEPT !.start_deadline = "none"]
<1>1. Typed(s, x) /\ x.rec \in R!ServiceRecord
  BY DEF Coherent, Typed
<1>2. BecomeReady(s, f, x) = IF y.err THEN y ELSE spawn_start_post(s, f, w)
  <2> HIDE DEF y
  <2>1. Try(y, LAMBDA v : spawn_start_post(s, f,
                            [arm_runtime_limit(s, v) EXCEPT !.start_deadline = "none"]))
          = IF y.err THEN y ELSE spawn_start_post(s, f, w)
    BY DEF Try, With
  <2> QED BY <2>1 DEF BecomeReady, y
<1>3. rec \in R!ServiceRecord /\ rec.state = "Running"
  <2>1. PICK pid \in Pids : TRUE
    BY ManagedAssumption
  <2> QED BY <1>1, <2>1, StartTransitions
<1>4. ok => x.start_helper = "none"
  BY DEF R!ready_ok, Coherent, PhasesLinked
<1> HIDE DEF ok, rec
<1>5. CASE ~ ok
  <2>1. y = Err(x)
    BY <1>5 DEF Commit
  <2>2. y.err /\ Armed(s, y)
    BY <1>1, <2>1, ErrStep, SmallSame, SameArmed
  <2> QED BY <1>2, <2>2
<1>6. CASE ok
  <2>1. y = [x EXCEPT !.rec = rec]
    BY <1>6 DEF Commit
  <2> HIDE DEF y
  <2>2. /\ Typed(s, y) /\ y.rec = rec /\ Unhelped(x, y) /\ y.start_helper = "none"
    BY <1>1, <1>3, <1>4, <1>6, <2>1, RecStep, FieldsAre DEF Typed, Unhelped
  <2>3. Typed(s, z) /\ Same(y, z)
    BY <2>2, DeadlineSteps, SmallSame
  <2> HIDE DEF z
  <2>4. Typed(s, w) /\ w.rec = z.rec /\ Unhelped(z, w) /\ w.start_helper = z.start_helper
    BY <2>3, FieldsAre DEF Typed, Unhelped, Helpers, Deadlines, Deadline
  <2> HIDE DEF w
  <2>5. w.rec = rec /\ Unhelped(x, w) /\ w.start_helper = "none"
    BY <2>2, <2>3, <2>4 DEF Same, Unhelped
  <2>6. Armed(s, w)
    BY <1>3, <2>5, RestArmed DEF Armed
  <2>7. Armed(s, y)
    BY <1>3, <2>2, RestArmed DEF Armed
  <2> QED BY <1>2, <2>4, <2>6, <2>7, StartPostSame, SameArmed
<1> QED BY <1>5, <1>6

(***************************************************************************)
(* Notifications, and the probe of a D-Bus name.                           *)
(***************************************************************************)
LEMMA MessagesArmed ==
  ASSUME NEW s, NEW f, NEW x, Sound(s, x), Armed(s, x)
  PROVE  Armed(s, observe_notify(s, f, x)) /\ Armed(s, observe_dbus(s, f, x))
<1>1. Typed(s, x)
  BY DEF Sound, Coherent
<1>2. ASSUME NEW y, Typed(s, y), Agree(x, y), Same(x, y)
      PROVE  Armed(s, y) /\ Armed(s, BecomeReady(s, f, y))
  <2>1. Coherent(s, y) /\ Armed(s, y)
    BY <1>2, AgreeCoherent, SameArmed DEF Sound
  <2> QED BY <2>1, ReadyArmed
<1>3. Armed(s, observe_notify(s, f, x))
  <2> DEFINE y == [x EXCEPT !.notify = IF @ = "closed" THEN @ ELSE "open"]
             z == arm_watchdog(s, y)
  <2>1. Typed(s, y) /\ Agree(x, y) /\ Same(x, y)
    BY <1>1, FieldsAre DEF Typed, Agree, Around, Same, Unhelped, Helpers, Deadlines
  <2>2. observe_notify(s, f, x) \in {BecomeReady(s, f, z), z, y}
    BY DEF observe_notify
  <2> HIDE DEF y
  <2>3. Typed(s, z) /\ Agree(y, z) /\ Same(y, z)
    BY <2>1, DeadlineSteps, SmallSame
  <2> HIDE DEF z
  <2>4. Agree(x, z) /\ Same(x, z)
    BY <2>1, <2>3, SameOn DEF Agree, Around
  <2> QED BY <1>2, <2>1, <2>2, <2>3, <2>4
<1>4. Armed(s, observe_dbus(s, f, x))
  <2> DEFINE y == [x EXCEPT !.dbus_probe = "none", !.dbus_ready = (x.rec.pid # NoPid)]
             z == [x EXCEPT !.dbus_probe = "running"]
  <2>1. /\ Typed(s, y) /\ Agree(x, y) /\ Same(x, y)
        /\ Typed(s, z) /\ Agree(x, z) /\ Same(x, z)
    BY <1>1, FieldsAre DEF Typed, Agree, Around, Same, Unhelped, Helpers, Deadlines, HelperValue
  <2>2. observe_dbus(s, f, x) \in {x, BecomeReady(s, f, y), z}
    BY DEF observe_dbus
  <2> HIDE DEF y, z
  <2> QED BY <1>2, <2>1, <2>2
<1> QED BY <1>3, <1>4

(***************************************************************************)
(* Out of memory: a stop of its own, or SIGKILL.                           *)
(***************************************************************************)
LEMMA OomArmed ==
  ASSUME NEW s, NEW f, NEW x, Sound(s, x), ~ x.err, Armed(s, x)
  PROVE  Armed(s, check_oom(s, f, x))
<1> DEFINE y == [x EXCEPT !.oom = FALSE]
           z == [y EXCEPT !.signal = "kill"]
<1>1. Typed(s, x)
  BY DEF Sound, Coherent
<1>2. Typed(s, y) /\ Agree(x, y) /\ Same(x, y) /\ ~ y.err
  BY <1>1, FieldsAre DEF Typed, Agree, Around, Same, Unhelped, Helpers, Deadlines
<1>3. check_oom(s, f, x) \in {y, stop_with_signal(s, f, y), z}
  BY DEF check_oom
<1> HIDE DEF y
<1>4. Same(y, z)
  BY <1>2, FieldsAre DEF Typed, Same, Unhelped
<1> HIDE DEF z
<1>5. Armed(s, y) /\ Armed(s, z) /\ Coherent(s, y)
  BY <1>2, <1>4, SameArmed, AgreeCoherent DEF Sound
<1>6. Armed(s, stop_with_signal(s, f, y))
  BY <1>2, <1>5, StopArms
<1> QED BY <1>3, <1>5, <1>6

(***************************************************************************)
(* The watchdog and the limit on the running time.                         *)
(***************************************************************************)
LEMMA LimitsArmed ==
  ASSUME NEW s, NEW x, Sound(s, x), Armed(s, x)
  PROVE  Armed(s, check_runtime_limit(s, check_watchdog(s, x)))
<1> DEFINE w == [x EXCEPT !.watchdog_deadline = "none"]
           y == check_watchdog(s, x)
           c == [y EXCEPT !.runtime_deadline = "none"]
           rec == R!runtime_timed_out(c.rec)
           d == [c EXCEPT !.rec = rec]
<1>1. Typed(s, x)
  BY DEF Sound, Coherent
<1>2. Typed(s, w) /\ Same(x, w)
  BY <1>1, FieldsAre DEF Typed, Same, Unhelped, Helpers, Deadlines, Deadline
<1>3. y = x \/ y = send_signal(s, w, "abort")
  BY DEF check_watchdog
<1> HIDE DEF w, y
<1>4. Typed(s, y) /\ Same(x, y)
  <2>1. Typed(s, send_signal(s, w, "abort")) /\ Same(w, send_signal(s, w, "abort"))
    BY <1>2, SmallSame, SignalStep
  <2> QED BY <1>1, <1>2, <1>3, <2>1, SameOn, SmallSame
<1>5. Typed(s, c) /\ Same(y, c) /\ c.rec \in R!ServiceRecord
  <2>1. Typed(s, c) /\ Same(y, c)
    BY <1>4, FieldsAre DEF Typed, Same, Unhelped, Helpers, Deadlines, Deadline
  <2> QED BY <2>1 DEF Typed
<1>6. \/ check_runtime_limit(s, y) = y
      \/ check_runtime_limit(s, y) = EndProcess(s, d) /\ y.rec.state = "Running"
  <2>1. [c EXCEPT !.rec = R!runtime_timed_out(@)] = d
    BY <1>5, FieldsAre DEF Typed
  <2> QED BY <2>1 DEF check_runtime_limit
<1> HIDE DEF c
<1>7. Armed(s, y) /\ Armed(s, c)
  BY <1>4, <1>5, SameArmed
<1>8. /\ rec \in R!ServiceRecord /\ rec.pid = c.rec.pid
      /\ rec.state = IF c.rec.pid # NoPid THEN "Stopping" ELSE "Failed"
  BY <1>5, FailTransitions
<1> HIDE DEF rec
<1>9. Typed(s, d) /\ d.rec = rec /\ Unhelped(c, d) /\ d.start_helper = c.start_helper
  BY <1>5, <1>8, RecStep, FieldsAre DEF Typed, Unhelped
<1> HIDE DEF d
<1>10. y.rec.state = "Running" => c.start_helper = "none"
  BY <1>4, <1>5 DEF Same, Sound, Coherent, PhasesLinked
<1>11. y.rec.state = "Running" => Armed(s, EndProcess(s, d))
  BY <1>7, <1>8, <1>9, <1>10, EndArmed DEF Armed
<1>12. Armed(s, check_runtime_limit(s, y))
  BY <1>6, <1>7, <1>11
<1> QED BY <1>12 DEF y


(***************************************************************************)
(* A spawn that nobody waits for any more has only an error.               *)
(***************************************************************************)
LEMMA SpawnRefusedArmed ==
  ASSUME NEW s, NEW x, Typed(s, x), Armed(s, x), x.rec.state # "Starting",
         x.start_helper = "none"
  PROVE  Armed(s, mark_spawn_failed(s, x))
<1> DEFINE k == kill(x, {"exec_condition_helper"})
           c == cleanup_directories(k)
<1>1. Typed(s, k) /\ Same(x, k)
  BY KillSame DEF Helpers, Same
<1> HIDE DEF k
<1>2. Typed(s, c) /\ Same(k, c)
  BY <1>1, CleanupStep, SmallSame
<1> HIDE DEF c
<1>3. Typed(s, Err(c)) /\ Err(c).err /\ Same(c, Err(c))
  BY <1>2, ErrStep, SmallSame
<1>4. mark_spawn_failed(s, x) = ArmRestart(Err(c))
  BY DEF mark_spawn_failed, Commit, R!spawn_failed_ok, c, k
<1>5. mark_spawn_failed(s, x) = Err(c)
  BY <1>3, <1>4 DEF ArmRestart
<1> QED BY <1>1, <1>2, <1>3, <1>5, SameArmed

(***************************************************************************)
(* ExecCondition has ended.  A start with conditions is timed only from    *)
(* its process on, so its deadline may be gone.                            *)
(***************************************************************************)
LEMMA ConditionArmed ==
  ASSUME NEW s, NEW f, NEW x, Sound(s, x), ~ x.err, x.exec_condition_helper # "none", Armed(s, x)
  PROVE  Armed(s, handle_exec_condition_exit(s, f, x))
<1> DEFINE y == [x EXCEPT !.exec_condition_helper = "none"]
           z == [y EXCEPT !.exec_conditions_done = TRUE]
           ended == [y EXCEPT !.start_deadline = "none"]
           ok == R!condition_skipped_ok(x.rec, x.rec.generation)
           rec == R!condition_skipped(x.rec)
           w == Commit(ended, ok, rec)
<1>1. /\ Typed(s, x) /\ x.rec \in R!ServiceRecord /\ x.rec.pid = NoPid
      /\ x.rec.state \notin {"Running", "Stopping"}
      /\ x.start_helper = "none" /\ ~ StartsBare(s)
  BY DEF Sound, Coherent, Typed, ProcessLinked, PhasesLinked, Passed, StartsBare
<1>2. handle_exec_condition_exit(s, f, x)
        = CASE x.exec_condition_helper = "ok" ->
                 (IF z.rec.state = "Starting" THEN spawn(s, f, z) ELSE z)
            [] x.exec_condition_helper = "skip" ->
                 (IF w.err THEN w ELSE cleanup_directories(w))
            [] OTHER -> mark_spawn_failed(s, ended)
  <2>1. Try(w, cleanup_directories) = IF w.err THEN w ELSE cleanup_directories(w)
    BY DEF Try, With
  <2> HIDE DEF w
  <2> QED BY <1>1, <2>1 DEF handle_exec_condition_exit, w
<1>3. /\ Typed(s, y) /\ y.rec = x.rec /\ Unhelped(x, y) /\ y.start_helper = "none"
      /\ y.stop_deadline = x.stop_deadline /\ y.signal = x.signal
  BY <1>1, FieldsAre DEF Typed, Unhelped, Helpers, Deadlines, HelperValue
<1> HIDE DEF y
<1>4. /\ Typed(s, z) /\ z.rec = y.rec /\ Unhelped(y, z) /\ z.start_helper = y.start_helper
      /\ z.stop_deadline = y.stop_deadline /\ z.signal = y.signal
  BY <1>3, FieldsAre DEF Typed, Unhelped, Helpers, Deadlines
<1> HIDE DEF z
<1>5. /\ Typed(s, ended) /\ ended.rec = y.rec /\ Unhelped(y, ended)
      /\ ended.start_helper = y.start_helper
      /\ ended.stop_deadline = y.stop_deadline /\ ended.signal = y.signal
  BY <1>3, FieldsAre DEF Typed, Unhelped, Helpers, Deadlines, Deadline
<1> HIDE DEF ended
<1>6. Armed(s, z) /\ Armed(s, ended)
  <2>1. Unhelped(x, z) /\ Unhelped(x, ended)
    BY <1>3, <1>4, <1>5 DEF Unhelped
  <2> QED BY <1>1, <1>3, <1>4, <1>5, <2>1, UntimedArmed
<1>7. z.rec.state = "Starting" => Armed(s, spawn(s, f, z))
  <2>1. z.rec.state = "Starting" => Begun(s, z)
    BY <1>1, <1>3, <1>4, <1>6 DEF Begun, Armed
  <2> QED BY <2>1, SpawnArmed
<1>8. Armed(s, mark_spawn_failed(s, ended))
  <2>1. ended.rec.state = "Starting" => Begun(s, ended)
    BY <1>1, <1>3, <1>5, <1>6 DEF Begun, Armed
  <2> QED BY <1>3, <1>5, <1>6, <2>1, SpawnFailedArmed, SpawnRefusedArmed
<1>9. rec \in R!ServiceRecord /\ rec.state = "Skipped"
  <2>1. PICK pid \in Pids : TRUE
    BY ManagedAssumption
  <2> QED BY <1>1, <2>1, StartTransitions
<1> HIDE DEF rec, ok
<1>10. Typed(s, w) /\ Armed(s, w)
  <2>1. CASE ok
    <3>1. w = [ended EXCEPT !.rec = rec]
      BY <2>1 DEF Commit
    <3> HIDE DEF w
    <3>2. /\ Typed(s, w) /\ w.rec = rec /\ Unhelped(ended, w)
          /\ w.start_helper = ended.start_helper
      BY <1>5, <1>9, <3>1, RecStep, FieldsAre DEF Typed, Unhelped
    <3> QED BY <1>3, <1>5, <1>6, <1>9, <3>2, RestArmed DEF Armed
  <2>2. CASE ~ ok
    BY <1>5, <1>6, <2>2, ErrStep, SmallSame, SameArmed DEF Commit
  <2> QED BY <2>1, <2>2
<1> HIDE DEF w
<1>11. Armed(s, cleanup_directories(w))
  BY <1>10, SmallSame, SameArmed
<1> QED BY <1>2, <1>6, <1>7, <1>8, <1>10, <1>11

(***************************************************************************)
(* ExecStartPre has ended.                                                 *)
(***************************************************************************)
LEMMA StartHelperArmed ==
  ASSUME NEW s, NEW f, NEW x, Sound(s, x), x.start_helper # "none", Armed(s, x)
  PROVE  Armed(s, handle_start_helper_exit(s, f, x))
<1> DEFINE y == [x EXCEPT !.start_helper = "none"]
           z == [y EXCEPT !.start_deadline = "none"]
<1>1. Typed(s, x) /\ x.rec.state = "Starting" /\ x.rec.pid = NoPid
  BY DEF Sound, Coherent, PhasesLinked
<1>2. handle_start_helper_exit(s, f, x)
        = IF x.start_helper # "ok" THEN mark_spawn_failed(s, z) ELSE spawn_main(s, f, y)
  BY <1>1 DEF handle_start_helper_exit
<1>3. Typed(s, y) /\ y.rec = x.rec /\ Unhelped(x, y) /\ y.start_helper = "none"
  BY <1>1, FieldsAre DEF Typed, Unhelped, Helpers, Deadlines, HelperValue
<1> HIDE DEF y
<1>4. Typed(s, z) /\ z.rec = y.rec /\ Unhelped(y, z) /\ z.start_helper = y.start_helper
  BY <1>3, FieldsAre DEF Typed, Unhelped, Helpers, Deadlines, Deadline
<1> HIDE DEF z
<1>5. Begun(s, y) /\ Begun(s, z)
  BY <1>1, <1>3, <1>4 DEF Begun, Armed, StopArmed, Unhelped
<1> QED BY <1>2, <1>5, SpawnFailedArmed, SpawnMainArmed

(***************************************************************************)
(* ExecStartPost has ended: what its failure stops has a deadline.         *)
(***************************************************************************)
LEMMA StartPostExitArmed ==
  ASSUME NEW s, NEW x, Sound(s, x), Armed(s, x)
  PROVE  Armed(s, handle_start_post_exit(s, x))
<1> DEFINE y == [x EXCEPT !.start_post_helper = "none"]
           rec == R!start_failed(y.rec)
           z == [y EXCEPT !.rec = rec]
           w == [z EXCEPT !.start_deadline = "none", !.stop_deadline = "none"]
<1>1. Typed(s, x)
  BY DEF Sound, Coherent
<1>2. Typed(s, y) /\ Same(x, y) /\ y.rec = x.rec
  BY <1>1, FieldsAre DEF Typed, Same, Unhelped, Helpers, Deadlines, HelperValue
<1>3. \/ handle_start_post_exit(s, x) = y
      \/ handle_start_post_exit(s, x) = EndProcess(s, w) /\ x.rec.state = "Running"
  <2>1. [y EXCEPT !.rec = R!start_failed(@)] = z
    BY <1>2, FieldsAre DEF Typed
  <2> QED BY <2>1 DEF handle_start_post_exit
<1> HIDE DEF y
<1>4. Armed(s, y) /\ y.rec \in R!ServiceRecord
  BY <1>2, SameArmed DEF Typed
<1>5. /\ rec \in R!ServiceRecord /\ rec.pid = y.rec.pid
      /\ rec.state = IF y.rec.pid # NoPid THEN "Stopping" ELSE "Failed"
  BY <1>4, FailTransitions
<1> HIDE DEF rec
<1>6. Typed(s, z) /\ z.rec = rec /\ Unhelped(y, z) /\ z.start_helper = y.start_helper
  BY <1>2, <1>5, RecStep, FieldsAre DEF Typed, Unhelped
<1> HIDE DEF z
<1>7. Typed(s, w) /\ w.rec = z.rec /\ Unhelped(z, w) /\ w.start_helper = z.start_helper
  BY <1>6, FieldsAre DEF Typed, Unhelped, Helpers, Deadlines, Deadline
<1> HIDE DEF w
<1>8. x.rec.state = "Running" => y.start_helper = "none"
  BY <1>2 DEF Same, Sound, Coherent, PhasesLinked
<1>9. Unhelped(y, w)
  BY <1>6, <1>7 DEF Unhelped
<1>10. x.rec.state = "Running" => Armed(s, EndProcess(s, w))
  BY <1>4, <1>5, <1>6, <1>7, <1>8, <1>9, EndArmed DEF Armed
<1> QED BY <1>3, <1>4, <1>10

(***************************************************************************)
(* The stop command of an active service, and ExecStopPost, have ended.    *)
(* They run only where the shared deadline is not vouched for.             *)
(***************************************************************************)
LEMMA TornDownArmed ==
  ASSUME NEW s, NEW f, NEW x, Sound(s, x), ~ x.err, s.start_limit_burst \in Nat, Armed(s, x)
  PROVE  /\ x.active_stop_helper # "none" => Armed(s, AfterActiveStop(s, f, x))
         /\ x.stop_post_helper # "none" => Armed(s, handle_stop_post_exit(s, f, x))
<1>1. Typed(s, x)
  BY DEF Sound, Coherent
<1>2. ASSUME x.active_stop_helper # "none" PROVE Armed(s, AfterActiveStop(s, f, x))
  <2> DEFINE a == [x EXCEPT !.active_stop_helper = "none", !.stop_deadline = "none"]
             b == spawn_stop_post(s, f, a)
             c == CleanUnless(b, "stop_post_helper")
  <2>1. ~ StopsBare(s)
    BY <1>2 DEF Armed, StopArmed
  <2>2. Typed(s, a) /\ Agree(x, a) /\ ~ a.err /\ a.start_deadline = x.start_deadline
    BY <1>1, FieldsAre DEF Typed, Agree, Around, Helpers, Deadlines, Deadline, HelperValue
  <2> HIDE DEF a
  <2>3. Typed(s, b) /\ Agree(a, b) /\ ~ b.err /\ b.start_deadline = a.start_deadline
    <3>1. b.start_deadline = a.start_deadline
      BY <2>2, FieldsAre DEF spawn_stop_post, Typed
    <3> QED BY <2>2, <3>1, StopPostStep
  <2> HIDE DEF b
  <2>4. Typed(s, c) /\ Agree(b, c) /\ ~ c.err /\ c.start_deadline = b.start_deadline
    <3>1. c.start_deadline = b.start_deadline
      BY <2>3, FieldsAre DEF CleanUnless, cleanup_directories, Typed
    <3> QED BY <2>3, <3>1, StopPostStep
  <2> HIDE DEF c
  <2>5. Agree(x, c) /\ c.start_deadline = x.start_deadline
    BY <2>2, <2>3, <2>4 DEF Agree, Around
  <2>6. Coherent(s, c) /\ Armed(s, c)
    BY <2>1, <2>4, <2>5, AgreeCoherent, TornArmed DEF Sound, Agree, Around
  <2>7. Armed(s, maybe_start_after_teardown(s, f, c))
    BY <2>4, <2>6, TeardownArmed
  <2> QED BY <2>7 DEF AfterActiveStop, a, b, c
<1>3. ASSUME x.stop_post_helper # "none" PROVE Armed(s, handle_stop_post_exit(s, f, x))
  <2> DEFINE a == [x EXCEPT !.stop_post_helper = "none", !.stop_deadline = "none"]
             c == cleanup_directories(a)
  <2>1. ~ StopsBare(s)
    BY <1>3 DEF Armed, StopArmed
  <2>2. Typed(s, a) /\ Agree(x, a) /\ ~ a.err /\ a.start_deadline = x.start_deadline
    BY <1>1, FieldsAre DEF Typed, Agree, Around, Helpers, Deadlines, Deadline, HelperValue
  <2> HIDE DEF a
  <2>3. Typed(s, c) /\ Agree(a, c) /\ ~ c.err /\ Same(a, c)
    BY <2>2, CleanupStep, SmallSame
  <2> HIDE DEF c
  <2>4. Agree(x, c) /\ c.start_deadline = x.start_deadline
    BY <2>2, <2>3 DEF Agree, Around, Same
  <2>5. Coherent(s, c) /\ Armed(s, c)
    BY <2>1, <2>3, <2>4, AgreeCoherent, TornArmed DEF Sound, Agree, Around
  <2>6. Armed(s, maybe_start_after_teardown(s, f, c))
    BY <2>3, <2>5, TeardownArmed
  <2> QED BY <2>6 DEF handle_stop_post_exit, a, c
<1> QED BY <1>2, <1>3

(***************************************************************************)
(* The reload command and the stop command have ended.                     *)
(***************************************************************************)
LEMMA CommandsArmed ==
  ASSUME NEW s, NEW x, Typed(s, x), Armed(s, x)
  PROVE  Armed(s, handle_reload_exit(x)) /\ Armed(s, handle_stop_exit(s, x))
<1>1. Same(x, handle_reload_exit(x))
  BY FieldsAre DEF handle_reload_exit, Typed, Same, Unhelped
<1>2. Same(x, handle_stop_exit(s, x))
  <2> DEFINE y == [x EXCEPT !.stop_command = "none"]
  <2>1. Typed(s, y) /\ Same(x, y)
    BY FieldsAre DEF Typed, Same, Unhelped, Helpers, Deadlines, HelperValue
  <2>2. handle_stop_exit(s, x) = y \/ handle_stop_exit(s, x) = send_signal(s, y, "term")
    BY DEF handle_stop_exit
  <2> HIDE DEF y
  <2> QED BY <2>1, <2>2, SmallSame, SameOn
<1> QED BY <1>1, <1>2, SameArmed

(***************************************************************************)
(* A service within its limit is started or restarted.                     *)
(***************************************************************************)
LEMMA RelaunchArmed ==
  ASSUME NEW s, NEW f, NEW x, NEW rec \in R!ServiceRecord, Typed(s, x), Armed(s, x),
         x.start_helper = "none", rec.state = "Starting", rec.pid = NoPid
  PROVE  Armed(s, spawn(s, f, [x EXCEPT !.rec = rec]))
<1> DEFINE y == [x EXCEPT !.rec = rec]
<1>1. Typed(s, y) /\ y.rec = rec /\ Unhelped(x, y) /\ y.start_helper = "none"
  BY RecStep, FieldsAre DEF Typed, Unhelped
<1> HIDE DEF y
<1>2. Begun(s, y)
  BY <1>1 DEF Begun, Armed, StopArmed, Unhelped
<1> QED BY <1>2, SpawnArmed DEF y

(***************************************************************************)
(* What follows an exit.                                                   *)
(***************************************************************************)
LEMMA RestartAfterExitArmed ==
  ASSUME NEW s, NEW f, NEW x, Coherent(s, x), ~ x.err, s.start_limit_burst \in Nat,
         x.rec.state \in {"Active", "Exited", "Failed", "Backoff"}, Armed(s, x)
  PROVE  Armed(s, RestartAfterExit(s, f, x))
<1> DEFINE y == [x EXCEPT !.restart_after_stop = FALSE]
           l == enforce_start_limit(s, y)
           c == [l EXCEPT !.err = FALSE]
           b == [l EXCEPT !.rec = R!start(@)]
           e == [x EXCEPT !.restart_at = "armed"]
<1>1. Typed(s, x)
  BY DEF Coherent
<1>2. \/ RestartAfterExit(s, f, x) \in {e, x, l, c}
      \/ RestartAfterExit(s, f, x) = spawn(s, f, b)
  <2> HIDE DEF l
  <2>1. UnlessLimited(s, y, LAMBDA z : IF R!start_ok(z.rec)
                                       THEN spawn(s, f, [z EXCEPT !.rec = R!start(@)]) ELSE z)
          = IF l.err THEN c ELSE IF R!start_ok(l.rec) THEN spawn(s, f, b) ELSE l
    <3>1. With(l, LAMBDA z : IF z.err THEN [z EXCEPT !.err = FALSE]
                             ELSE IF R!start_ok(z.rec)
                             THEN spawn(s, f, [z EXCEPT !.rec = R!start(@)]) ELSE z)
            = IF l.err THEN c ELSE IF R!start_ok(l.rec) THEN spawn(s, f, b) ELSE l
      BY DEF With
    <3> QED BY <3>1 DEF UnlessLimited, l
  <2>2. x.rec.state = "Backoff" => ArmRestart(x) = e
    BY DEF ArmRestart
  <2> HIDE DEF b, c, e
  <2> QED BY <2>1, <2>2 DEF RestartAfterExit
<1>3. Same(x, e) /\ Same(x, x)
  BY <1>1, FieldsAre DEF Typed, Same, Unhelped
<1>4. Typed(s, y) /\ Same(x, y) /\ ~ y.err
  BY <1>1, FieldsAre DEF Typed, Same, Unhelped, Helpers, Deadlines
<1>5. Coherent(s, y)
  <2>1. /\ y.child = x.child /\ y.exit = x.exit /\ y.forking_pending = x.forking_pending
        /\ y.forking_parent_exited = x.forking_parent_exited
        /\ y.stop_command = x.stop_command /\ y.reload_command = x.reload_command
        /\ y.exec_condition_helper = x.exec_condition_helper
        /\ y.start_helper = x.start_helper
        /\ y.exec_conditions_done = x.exec_conditions_done /\ y.rec = x.rec
    BY <1>1, FieldsAre DEF Typed
  <2> HIDE DEF y
  <2> QED BY <1>4, <2>1 DEF Coherent, ProcessLinked, PhasesLinked, Passed
<1> HIDE DEF y
<1>6. Armed(s, y) /\ y.rec.state # "Starting"
  BY <1>4, SameArmed DEF Same
<1>7. Armed(s, l) /\ l.start_helper = "none" /\ Typed(s, l)
  BY <1>4, <1>5, <1>6, LimitArmed, LimitEffect DEF Coherent
<1> HIDE DEF l, e
<1>8. Armed(s, c)
  BY <1>7, SmallSame, SameArmed
<1> HIDE DEF c
<1>9. Armed(s, spawn(s, f, b))
  <2> DEFINE rec == R!start(l.rec)
  <2>1. b = [l EXCEPT !.rec = rec]
    BY <1>7, FieldsAre DEF Typed
  <2>2. rec \in R!ServiceRecord /\ rec.state = "Starting" /\ rec.pid = NoPid
    <3>1. PICK pid \in Pids : TRUE
      BY ManagedAssumption
    <3> QED BY <1>7, <3>1, StartTransitions DEF Typed
  <2> HIDE DEF b, rec
  <2> QED BY <1>7, <2>1, <2>2, RelaunchArmed
<1> QED BY <1>2, <1>3, <1>7, <1>8, <1>9, SameArmed

(***************************************************************************)
(* A process takes its deadlines with it, not the commands of a teardown.  *)
(***************************************************************************)
LEMMA ProcessGoneUnhelped ==
  ASSUME NEW s, NEW x, Typed(s, x)
  PROVE  Unhelped(x, ProcessGone(x))
<1> DEFINE k == kill(x, {"stop_command", "reload_command", "dbus_probe"})
<1>1. Typed(s, k) /\ Unhelped(x, k)
  BY KillSame DEF Helpers
<1>2. ProcessGone(x).active_stop_helper = k.active_stop_helper
      /\ ProcessGone(x).stop_post_helper = k.stop_post_helper
  <2> HIDE DEF k
  <2>1. \A v : v = k => v = [field \in Fields |-> v[field]]
    BY <1>1 DEF Typed
  <2> QED BY <2>1, FieldsAre DEF ProcessGone, k
<1> QED BY <1>1, <1>2 DEF Unhelped

(***************************************************************************)
(* The main process has ended: the record rests or waits, unless it starts *)
(* again.                                                                  *)
(***************************************************************************)
LEMMA ExitArmed ==
  ASSUME NEW s, NEW f, NEW x, NEW exit \in R!ExitReason, Sound(s, x), ~ x.err,
         s.start_limit_burst \in Nat, Armed(s, x)
  PROVE  Armed(s, handle_exit(s, f, x, exit))
<1> DEFINE reason == IF s.main_ignore_failure THEN R!Exited(0) ELSE exit
           ok == R!exited_ok(x.rec, x.rec.pid, x.rec.generation)
           rec == R!exited(s, x.rec, reason)
           g == ProcessGone(x)
           y == Commit(g, ok, rec)
           p == spawn_stop_post(s, f, y)
           t == IF y.rec.state = "Active" THEN y ELSE CleanUnless(p, "stop_post_helper")
<1>1. Typed(s, x) /\ x.rec \in R!ServiceRecord
  BY DEF Sound, Coherent, Typed
<1>2. CASE x.rec.pid = NoPid
  BY <1>1, <1>2, SmallSame, SameArmed DEF handle_exit
<1>3. CASE x.rec.pid # NoPid
  <2>1. handle_exit(s, f, x, exit) = IF y.err THEN y ELSE RestartAfterExit(s, f, t)
    <3> HIDE DEF y
    <3>1. Try(y, LAMBDA v : RestartAfterExit(s, f, IF v.rec.state = "Active" THEN v
                              ELSE CleanUnless(spawn_stop_post(s, f, v), "stop_post_helper")))
            = IF y.err THEN y ELSE RestartAfterExit(s, f, t)
      BY DEF Try, With
    <3> QED BY <1>3, <3>1 DEF handle_exit, y
  <2>2. reason \in R!ExitReason
    BY ExitedType
  <2> HIDE DEF reason
  <2>3. /\ rec \in R!ServiceRecord /\ rec.pid = NoPid
        /\ rec.state \in {"Active", "Exited", "Failed", "Backoff"}
        /\ rec.state = "Active" => s.remain_after_exit
    BY <1>1, <2>2, ExitTransition
  <2>4. ok
    BY <1>1, <1>3 DEF R!exited_ok, R!check_generation, Sound, Coherent, ProcessLinked
  <2>5. /\ Typed(s, g) /\ g.rec = x.rec /\ g.err = x.err /\ g.child = "none"
        /\ ~ g.forking_pending /\ ~ g.forking_parent_exited
        /\ g.stop_command = "none" /\ g.reload_command = "none"
        /\ g.exec_condition_helper = x.exec_condition_helper
        /\ g.start_helper = x.start_helper
        /\ g.exec_conditions_done = x.exec_conditions_done
        /\ Unhelped(x, g)
    BY <1>1, ProcessGoneStep, ProcessGoneUnhelped
  <2> HIDE DEF rec, g
  <2>6. y = [g EXCEPT !.rec = rec]
    BY <2>4 DEF Commit
  <2> HIDE DEF y
  <2>7. Typed(s, y) /\ Around(g, y) /\ y.rec = rec /\ ~ y.err /\ Unhelped(g, y)
    BY <2>3, <2>5, <2>6, RecStep, FieldsAre DEF Typed, Unhelped
  <2>8. x.start_helper = "none"
    BY <1>3 DEF Sound, Coherent, PhasesLinked
  <2>9. Coherent(s, y)
    BY <2>3, <2>5, <2>7, <2>8 DEF Sound, Coherent, Around, ProcessLinked, PhasesLinked, Passed
  <2>10. Armed(s, y)
    <3>1. Unhelped(x, y) /\ y.start_helper = "none"
      BY <2>5, <2>7, <2>8 DEF Unhelped, Around
    <3> QED BY <2>3, <2>7, <3>1, RestArmed DEF Armed, StopsBare
  <2>11. Typed(s, p) /\ Agree(y, p) /\ ~ p.err /\ Armed(s, p)
    <3>1. StopsBare(s) => p = y
      BY DEF spawn_stop_post, StopsBare
    <3>2. p.start_deadline = y.start_deadline
      BY <2>7, FieldsAre DEF spawn_stop_post, Typed
    <3>3. Typed(s, p) /\ Agree(y, p) /\ ~ p.err
      BY <2>7, StopPostStep
    <3> HIDE DEF p
    <3> QED BY <2>10, <3>1, <3>2, <3>3, TornArmed DEF Agree, Around
  <2> HIDE DEF p
  <2> DEFINE v == CleanUnless(p, "stop_post_helper")
  <2>12. Typed(s, v) /\ Agree(p, v) /\ ~ v.err /\ Armed(s, v)
    BY <2>11, StopPostStep, SmallSame, SameArmed DEF CleanUnless
  <2>13. t = y \/ t = v
    OBVIOUS
  <2> HIDE DEF t, v
  <2>14. Agree(y, v)
    BY <2>11, <2>12 DEF Agree, Around
  <2>15. Coherent(s, v) /\ v.rec = rec
    BY <2>7, <2>9, <2>12, <2>14, AgreeCoherent DEF Agree
  <2>16. Armed(s, RestartAfterExit(s, f, t))
    BY <2>3, <2>7, <2>9, <2>10, <2>12, <2>13, <2>15, RestartAfterExitArmed
  <2> QED BY <2>1, <2>7, <2>16
<1> QED BY <1>2, <1>3

(***************************************************************************)
(* A daemon that is adopted runs.                                          *)
(***************************************************************************)
LEMMA AdoptArmed ==
  ASSUME NEW s, NEW f, NEW x, Sound(s, x), ~ x.err, s.start_limit_burst \in Nat, Armed(s, x)
  PROVE  Armed(s, try_adopt_forking(s, f, x))
<1> DEFINE pid == CHOOSE p \in Pids : p # x.rec.pid
           ok == R!adopted_ok(x.rec, x.rec.generation)
           rec == R!adopted(x.rec, pid)
           y == Commit(x, ok, rec)
           a == [y EXCEPT !.daemon = FALSE]
           b == [y EXCEPT !.child = "alive", !.daemon = FALSE, !.adopted = TRUE,
                          !.forking_pending = FALSE, !.forking_parent_exited = FALSE,
                          !.start_deadline = "none"]
           c == arm_runtime_limit(s, b)
<1>1. Typed(s, x) /\ x.rec \in R!ServiceRecord
  BY DEF Sound, Coherent, Typed
<1>2. \/ try_adopt_forking(s, f, x) = handle_exit(s, f, x, R!Exited(1))
      \/ try_adopt_forking(s, f, x) = x
      \/ try_adopt_forking(s, f, x)
           = IF y.err THEN y ELSE IF f = "attach" THEN Err(a) ELSE spawn_start_post(s, f, c)
  <2> HIDE DEF y
  <2>1. Try(y, LAMBDA v : IF f = "attach" THEN Err([v EXCEPT !.daemon = FALSE])
                 ELSE spawn_start_post(s, f, arm_runtime_limit(s,
                        [v EXCEPT !.child = "alive", !.daemon = FALSE, !.adopted = TRUE,
                                  !.forking_pending = FALSE, !.forking_parent_exited = FALSE,
                                  !.start_deadline = "none"])))
          = IF y.err THEN y ELSE IF f = "attach" THEN Err(a) ELSE spawn_start_post(s, f, c)
    BY DEF Try, With
  <2> HIDE DEF a, b, c
  <2> QED BY <2>1 DEF try_adopt_forking, y
<1>3. Armed(s, handle_exit(s, f, x, R!Exited(1)))
  BY ExitArmed, ExitedType
<1>4. CASE ~ ok
  <2>1. y = Err(x)
    BY <1>4 DEF Commit
  <2>2. Armed(s, y) /\ y.err
    BY <1>1, <2>1, ErrStep, SmallSame, SameArmed
  <2> HIDE DEF y, a, c
  <2> QED BY <1>2, <1>3, <2>2
<1>5. CASE ok
  <2>1. pid \in Pids
    BY ManagedAssumption
  <2>2. x.rec.state = "Running" /\ x.start_helper = "none"
    BY <1>5 DEF R!adopted_ok, Sound, Coherent, PhasesLinked
  <2> HIDE DEF pid
  <2>3. /\ rec \in R!ServiceRecord /\ rec.state = "Running"
    BY <1>1, <2>1, <2>2, StartTransitions
  <2> HIDE DEF rec
  <2>4. y = [x EXCEPT !.rec = rec]
    BY <1>5 DEF Commit
  <2> HIDE DEF y
  <2>5. Typed(s, y) /\ y.rec = rec /\ Unhelped(x, y) /\ y.start_helper = "none"
    BY <1>1, <2>2, <2>3, <2>4, RecStep, FieldsAre DEF Typed, Unhelped
  <2>6. Armed(s, y)
    BY <2>3, <2>5, RestArmed DEF Armed
  <2>7. Typed(s, a) /\ Same(y, a)
    BY <2>5, FieldsAre DEF Typed, Same, Unhelped, Helpers, Deadlines
  <2> HIDE DEF a
  <2>8. Armed(s, Err(a))
    BY <2>6, <2>7, SmallSame, SameArmed
  <2>9. Typed(s, b) /\ b.rec = y.rec /\ Unhelped(y, b) /\ b.start_helper = "none"
    <3>1. b = [field \in Fields |-> b[field]]
      BY <2>5, FieldsAre DEF Typed
    <3>2. /\ \A helper \in Helpers : b[helper] = y[helper]
          /\ \A deadline \in Deadlines : b[deadline] \in {y[deadline], "none"}
      BY <2>5, FieldsAre DEF Typed, Helpers, Deadlines
    <3>3. /\ b.rec = y.rec /\ b.child = "alive"
          /\ b.exit = y.exit /\ b.signal = y.signal /\ b.notify = y.notify
          /\ b.start_attempts = y.start_attempts
      BY <2>5, FieldsAre DEF Typed
    <3> HIDE DEF b
    <3> QED BY <2>5, <3>1, <3>2, <3>3 DEF Typed, Deadline, Unhelped, Helpers
  <2> HIDE DEF b
  <2>10. Armed(s, b)
    BY <2>3, <2>5, <2>6, <2>9, RestArmed DEF Armed
  <2>11. Typed(s, c) /\ Same(b, c)
    BY <2>9, DeadlineSteps, SmallSame
  <2> HIDE DEF c
  <2>12. Armed(s, spawn_start_post(s, f, c))
    BY <2>10, <2>11, StartPostSame, SameArmed
  <2> QED BY <1>2, <1>3, <2>6, <2>8, <2>12
<1> QED BY <1>4, <1>5

(***************************************************************************)
(* The exit of the main process is seen.                                   *)
(***************************************************************************)
LEMMA ObserveExitArmed ==
  ASSUME NEW s, NEW f, NEW x, Sound(s, x), ~ x.err, s.start_limit_burst \in Nat, Armed(s, x)
  PROVE  Armed(s, observe_exit(s, f, x))
<1> DEFINE exit == IF x.adopted THEN R!Exited(1) ELSE x.exit
           y == [x EXCEPT !.child = "none", !.exit = NoExit, !.forking_parent_exited = TRUE]
<1>1. Typed(s, x)
  BY DEF Sound, Coherent
<1>2. \/ observe_exit(s, f, x) = x
      \/ /\ observe_exit(s, f, x) = try_adopt_forking(s, f, y)
         /\ x.forking_pending
      \/ /\ observe_exit(s, f, x) = handle_exit(s, f, x, exit)
         /\ x.child = "ended"
  BY DEF observe_exit
<1>3. x.child = "ended" => exit \in R!ExitReason
  BY ExitedType, ManagedAssumption DEF Sound, Coherent, ProcessLinked
<1> HIDE DEF exit
<1>4. x.child = "ended" => Armed(s, handle_exit(s, f, x, exit))
  BY <1>3, ExitArmed
<1>5. x.forking_pending => Armed(s, try_adopt_forking(s, f, y))
  <2> SUFFICES ASSUME x.forking_pending PROVE Armed(s, try_adopt_forking(s, f, y))
    OBVIOUS
  <2>1. /\ Typed(s, y) /\ y.rec = x.rec /\ ~ y.err /\ y.child = "none"
        /\ y.forking_pending = x.forking_pending /\ y.forking_parent_exited
        /\ y.stop_command = x.stop_command /\ y.reload_command = x.reload_command
        /\ y.exec_condition_helper = x.exec_condition_helper /\ y.start_helper = x.start_helper
        /\ y.exec_conditions_done = x.exec_conditions_done
        /\ y.wants_running = x.wants_running /\ y.restart_after_stop = x.restart_after_stop
        /\ y.restart_at = x.restart_at
    BY <1>1, FieldsAre DEF Typed, Helpers, Deadlines
  <2>2. Same(x, y)
    BY <1>1, FieldsAre DEF Typed, Same, Unhelped
  <2> HIDE DEF y
  <2>3. Sound(s, y)
    BY <2>1 DEF Sound, Coherent, ProcessLinked, PhasesLinked, Passed, RestartLinked
  <2> QED BY <2>1, <2>2, <2>3, AdoptArmed, SameArmed
<1> QED BY <1>2, <1>4, <1>5

(***************************************************************************)
(* A stop that has run out of its time has SIGKILL behind it.              *)
(***************************************************************************)
LEMMA StopDeadlineArmed ==
  ASSUME NEW s, NEW f, NEW x, Sound(s, x), ~ x.err, s.start_limit_burst \in Nat, Armed(s, x)
  PROVE  Armed(s, check_active_stop_deadline(s, f, check_stop_deadline(s, x)))
<1> DEFINE rec == R!stop_timed_out(x.rec)
           a == [x EXCEPT !.rec = rec]
           b == [a EXCEPT !.stop_deadline = "none"]
           c == send_signal(s, b, "kill")
           helpers == {"start_helper", "exec_condition_helper", "start_post_helper",
                       "dbus_probe", "stop_command"}
           k == kill(c, helpers)
           y == check_stop_deadline(s, x)
<1>1. Typed(s, x) /\ x.rec \in R!ServiceRecord
  BY DEF Sound, Coherent, Typed
<1>2. y = x \/ (y = k /\ x.rec.state = "Stopping")
  <2>1. [x EXCEPT !.rec = R!stop_timed_out(@), !.stop_deadline = "none"] = b
    BY <1>1, FieldsAre DEF Typed
  <2>2. x.rec.state = "Stopping" => R!stop_timed_out_signals(x.rec)
    BY DEF R!stop_timed_out_signals, Sound, Coherent, ProcessLinked
  <2> QED BY <2>1, <2>2 DEF check_stop_deadline, SignalIf
<1>3. /\ rec \in R!ServiceRecord /\ rec.pid = x.rec.pid
      /\ x.rec.state = "Stopping" => rec.state = "Stopping"
  BY <1>1, StopTransitions DEF Sound, Coherent, ProcessLinked
<1> HIDE DEF rec, y
<1>4. Typed(s, a) /\ Around(x, a) /\ a.rec = rec /\ a.err = x.err /\ Unhelped(x, a)
  BY <1>1, <1>3, RecStep, FieldsAre DEF Typed, Unhelped
<1> HIDE DEF a
<1>5. Typed(s, b) /\ Agree(a, b) /\ b.err = a.err /\ Unhelped(a, b)
  BY <1>4, FieldsAre DEF Typed, Agree, Around, Unhelped, Helpers, Deadlines, Deadline
<1> HIDE DEF b
<1>6. /\ Typed(s, c) /\ Agree(b, c) /\ Same(b, c)
      /\ s.kill_mode # "None" => c.signal = "kill"
  <2>1. s.kill_mode # "None" => c.signal = "kill"
    BY <1>5, FieldsAre DEF send_signal, Typed
  <2> QED BY <1>5, <2>1, SignalStep, SmallSame
<1> HIDE DEF c
<1>7. Typed(s, k) /\ k.rec = c.rec /\ Unhelped(c, k) /\ k.signal = c.signal
      /\ k.start_helper = "none"
  BY <1>6, KillSame DEF Helpers
<1> HIDE DEF k
<1>8. x.rec.state = "Stopping" => Armed(s, k)
  <2>1. k.rec = rec /\ Unhelped(x, k)
    BY <1>4, <1>5, <1>6, <1>7 DEF Agree, Same, Unhelped
  <2> QED BY <1>3, <1>6, <1>7, <2>1 DEF Armed, StartArmed, StopArmed, Unhelped
<1>9. Armed(s, y)
  BY <1>2, <1>8
<1>10. Sound(s, y) /\ ~ y.err
  BY KillDeadlineGoes DEF Goes, y
<1>11. check_active_stop_deadline(s, f, y)
         = IF y.rec.state # "Exited" \/ y.active_stop_helper = "none" \/ y.stop_deadline # "due"
           THEN y ELSE AfterActiveStop(s, f, y)
  BY DEF check_active_stop_deadline
<1>12. Armed(s, check_active_stop_deadline(s, f, y))
  BY <1>9, <1>10, <1>11, TornDownArmed
<1> QED BY <1>12 DEF y

(***************************************************************************)
(* A start that has run out of its time is stopped, against a deadline.    *)
(***************************************************************************)
LEMMA StartDeadlineArmed ==
  ASSUME NEW s, NEW x, Sound(s, x), Armed(s, x)
  PROVE  Armed(s, check_start_deadline(s, x))
<1> DEFINE rec == R!start_timed_out(x.rec)
           a == [x EXCEPT !.rec = rec]
           b == [a EXCEPT !.start_deadline = "none"]
           k == kill(b, {"start_helper", "start_post_helper", "dbus_probe"})
<1>1. Typed(s, x) /\ x.rec \in R!ServiceRecord
  BY DEF Sound, Coherent, Typed
<1>2. \/ check_start_deadline(s, x) = x
      \/ check_start_deadline(s, x) = EndProcess(s, k)
  <2>1. [x EXCEPT !.rec = R!start_timed_out(@), !.start_deadline = "none"] = b
    BY <1>1, FieldsAre DEF Typed
  <2> QED BY <2>1 DEF check_start_deadline
<1>3. /\ rec \in R!ServiceRecord /\ rec.pid = x.rec.pid
      /\ rec.state = IF x.rec.pid # NoPid THEN "Stopping" ELSE "Failed"
  BY <1>1, FailTransitions
<1> HIDE DEF rec
<1>4. Typed(s, a) /\ a.rec = rec /\ Unhelped(x, a)
  BY <1>1, <1>3, RecStep, FieldsAre DEF Typed, Unhelped
<1> HIDE DEF a
<1>5. Typed(s, b) /\ b.rec = a.rec /\ Unhelped(a, b)
  BY <1>4, FieldsAre DEF Typed, Unhelped, Helpers, Deadlines, Deadline
<1> HIDE DEF b
<1>6. Typed(s, k) /\ k.rec = b.rec /\ Unhelped(b, k) /\ k.start_helper = "none"
  BY <1>5, KillSame DEF Helpers
<1> HIDE DEF k
<1>7. Unhelped(x, k) /\ k.rec = rec
  BY <1>4, <1>5, <1>6 DEF Unhelped
<1>8. Armed(s, EndProcess(s, k))
  BY <1>3, <1>6, <1>7, EndArmed DEF Armed
<1> QED BY <1>2, <1>8

(***************************************************************************)
(* The time of a restart has come.                                         *)
(***************************************************************************)
LEMMA RestartDueArmed ==
  ASSUME NEW s, NEW f, NEW x, Sound(s, x), ~ x.err, s.start_limit_burst \in Nat, Armed(s, x)
  PROVE  Armed(s, check_restart_due(s, f, x))
<1> DEFINE y == [x EXCEPT !.restart_at = "none"]
           l == enforce_start_limit(s, y)
           c == [l EXCEPT !.err = FALSE]
           b == [l EXCEPT !.rec = R!restart_due(@)]
<1>1. Typed(s, x)
  BY DEF Sound, Coherent
<1>2. \/ check_restart_due(s, f, x) = x
      \/ /\ check_restart_due(s, f, x) \in {c, spawn(s, f, b)}
         /\ x.rec.state = "Backoff"
  <2> HIDE DEF l
  <2>1. With(l, LAMBDA z : IF z.err THEN [z EXCEPT !.err = FALSE]
                           ELSE spawn(s, f, [z EXCEPT !.rec = R!restart_due(@)]))
          = IF l.err THEN c ELSE spawn(s, f, b)
    BY DEF With
  <2>2. UnlessLimited(s, y, LAMBDA z : spawn(s, f, [z EXCEPT !.rec = R!restart_due(@)]))
          = IF l.err THEN c ELSE spawn(s, f, b)
    BY <2>1 DEF UnlessLimited, l
  <2> HIDE DEF b, c
  <2> QED BY <2>2 DEF check_restart_due
<1>3. CASE x.rec.state = "Backoff"
  <2>1. /\ Coherent(s, y) /\ y.rec = x.rec /\ ~ y.err
    BY <1>1, RestartAtStep DEF Deadline, Sound
  <2>2. Same(x, y)
    BY <1>1, FieldsAre DEF Typed, Same, Unhelped
  <2> HIDE DEF y
  <2>3. Armed(s, l) /\ l.start_helper = "none" /\ Typed(s, l) /\ l.rec.pid = NoPid
    <3>1. Armed(s, l) /\ l.start_helper = "none"
      BY <1>3, <2>1, <2>2, SameArmed, LimitArmed
    <3>2. Coherent(s, l) /\ l.rec.state \in {"Backoff", "Failed"}
      BY <1>3, <2>1, LimitEffect DEF Agree
    <3> HIDE DEF l
    <3> QED BY <3>1, <3>2 DEF Coherent, ProcessLinked
  <2> HIDE DEF l
  <2>4. Armed(s, c)
    BY <2>3, SmallSame, SameArmed
  <2> DEFINE rec == R!restart_due(l.rec)
  <2>5. b = [l EXCEPT !.rec = rec]
    BY <2>3, FieldsAre DEF Typed
  <2>6. rec \in R!ServiceRecord /\ rec.state = "Starting" /\ rec.pid = l.rec.pid
    <3>1. PICK pid \in Pids : TRUE
      BY ManagedAssumption
    <3> QED BY <2>3, <3>1, StartTransitions DEF Typed
  <2> HIDE DEF b, c, rec
  <2> QED BY <1>2, <2>3, <2>4, <2>5, <2>6, RelaunchArmed
<1>4. CASE x.rec.state # "Backoff"
  BY <1>2, <1>4
<1> QED BY <1>3, <1>4

(***************************************************************************)
(* A mount point or a device that has gone away.                           *)
(***************************************************************************)
LEMMA LostMountArmed ==
  ASSUME NEW s, NEW x, Sound(s, x), Armed(s, x)
  PROVE  Armed(s, refresh_lost_mount(s, x))
<1> DEFINE c == cleanup_directories(x)
           d == [c EXCEPT !.wants_running = FALSE]
           rec == R!stop(x.rec)
           e == [d EXCEPT !.rec = rec]
<1>1. Typed(s, x) /\ x.rec \in R!ServiceRecord
  BY DEF Sound, Coherent, Typed
<1>2. Typed(s, c) /\ Same(x, c)
  BY <1>1, CleanupStep, SmallSame
<1>3. Typed(s, d) /\ Same(c, d)
  BY <1>2, FieldsAre DEF Typed, Same, Unhelped, Helpers, Deadlines
<1>4. \/ refresh_lost_mount(s, x) = x
      \/ refresh_lost_mount(s, x) = e /\ x.rec.state = "Active"
  <2>1. d.rec = x.rec
    BY <1>2, <1>3 DEF Same
  <2>2. [c EXCEPT !.wants_running = FALSE, !.rec = R!stop(@)] = e
    BY <1>3, <2>1, FieldsAre DEF Typed
  <2> QED BY <2>2 DEF refresh_lost_mount
<1> HIDE DEF c, d
<1>5. /\ rec \in R!ServiceRecord
      /\ x.rec.state = "Active" => rec.state = "Exited" /\ x.start_helper = "none"
  BY <1>1, StopTransitions DEF Sound, Coherent, PhasesLinked
<1> HIDE DEF rec
<1>6. e.rec = rec /\ Unhelped(d, e) /\ e.start_helper = d.start_helper
  BY <1>3, <1>5, FieldsAre DEF Typed, Unhelped
<1> HIDE DEF e
<1>7. Unhelped(x, e) /\ e.start_helper = x.start_helper
  BY <1>2, <1>3, <1>6 DEF Same, Unhelped
<1>8. x.rec.state = "Active" => Armed(s, e)
  BY <1>5, <1>6, <1>7, RestArmed DEF Armed
<1> QED BY <1>4, <1>8

(***************************************************************************)
(* A poll, in the order of the code: what one part leaves the next one     *)
(* finds with its deadlines.                                               *)
(***************************************************************************)
LEMMA PollArmed ==
  ASSUME NEW s, NEW f, NEW x, Sound(s, x), ~ x.err, s.start_limit_burst \in Nat, Armed(s, x)
  PROVE  Armed(s, poll(s, f, x))
<1> DEFINE a == observe_notify(s, f, x)
           b == Try(a, LAMBDA v : observe_dbus(s, f, v))
           c == Try(b, LAMBDA v : check_oom(s, f, v))
           d == Try(c, LAMBDA v : check_runtime_limit(s, check_watchdog(s, v)))
           e == WhenEnded(d, "exec_condition_helper",
                          LAMBDA v : handle_exec_condition_exit(s, f, v))
           g == WhenEnded(e, "start_helper", LAMBDA v : handle_start_helper_exit(s, f, v))
           h == WhenEnded(g, "start_post_helper", LAMBDA v : handle_start_post_exit(s, v))
           i == WhenEnded(h, "active_stop_helper", LAMBDA v : AfterActiveStop(s, f, v))
           j == WhenEnded(i, "stop_post_helper", LAMBDA v : handle_stop_post_exit(s, f, v))
           k == WhenEnded(j, "reload_command", handle_reload_exit)
           l == WhenEnded(k, "stop_command", LAMBDA v : handle_stop_exit(s, v))
           n == Try(l, LAMBDA v : observe_exit(s, f, v))
           o == Try(n, LAMBDA v : IF v.forking_pending /\ v.forking_parent_exited
                                THEN try_adopt_forking(s, f, v) ELSE v)
           p == Try(o, LAMBDA v : check_active_stop_deadline(s, f, check_stop_deadline(s, v)))
           q == Try(p, LAMBDA v : check_start_deadline(s, v))
           r == Try(q, LAMBDA v : check_restart_due(s, f, v))
           Fit(v) == Sound(s, v) /\ Armed(s, v)
<1>1. Fit(a)
  BY NotifyGoes, MessagesArmed DEF Goes
<1>2. poll(s, f, x) = r
  BY DEF poll
<1> HIDE DEF a
<1>3. Fit(b)
  <2>1. b = IF a.err THEN a ELSE observe_dbus(s, f, a)
    BY DEF Try, With
  <2> HIDE DEF b
  <2> QED BY <1>1, <2>1, DbusGoes, MessagesArmed DEF Goes
<1> HIDE DEF b
<1>4. Fit(c)
  <2>1. c = IF b.err THEN b ELSE check_oom(s, f, b)
    BY DEF Try, With
  <2> HIDE DEF c
  <2> QED BY <1>3, <2>1, OomGoes, OomArmed DEF Goes
<1> HIDE DEF c
<1>5. Fit(d)
  <2>1. d = IF c.err THEN c ELSE check_runtime_limit(s, check_watchdog(s, c))
    BY DEF Try, With
  <2> HIDE DEF d
  <2> QED BY <1>4, <2>1, LimitsGo, LimitsArmed DEF Goes
<1> HIDE DEF d
<1>6. Fit(e)
  <2>1. e = IF d.err \/ d.exec_condition_helper \in {"none", "running"} THEN d
            ELSE handle_exec_condition_exit(s, f, d)
    BY DEF WhenEnded, Try, With
  <2> HIDE DEF e
  <2> QED BY <1>5, <2>1, ConditionGoes, ConditionArmed DEF Goes
<1> HIDE DEF e
<1>7. Fit(g)
  <2>1. g = IF e.err \/ e.start_helper \in {"none", "running"} THEN e
            ELSE handle_start_helper_exit(s, f, e)
    BY DEF WhenEnded, Try, With
  <2> HIDE DEF g
  <2> QED BY <1>6, <2>1, StartHelperGoes, StartHelperArmed DEF Goes
<1> HIDE DEF g
<1>8. Fit(h)
  <2>1. h = IF g.err \/ g.start_post_helper \in {"none", "running"} THEN g
            ELSE handle_start_post_exit(s, g)
    BY DEF WhenEnded, Try, With
  <2> HIDE DEF h
  <2> QED BY <1>7, <2>1, StartPostExitGoes, StartPostExitArmed DEF Goes
<1> HIDE DEF h
<1>9. Fit(i)
  <2>1. i = IF h.err \/ h.active_stop_helper \in {"none", "running"} THEN h
            ELSE AfterActiveStop(s, f, h)
    BY DEF WhenEnded, Try, With
  <2> HIDE DEF i
  <2> QED BY <1>8, <2>1, TornDownGoes, TornDownArmed DEF Goes
<1> HIDE DEF i
<1>10. Fit(j)
  <2>1. j = IF i.err \/ i.stop_post_helper \in {"none", "running"} THEN i
            ELSE handle_stop_post_exit(s, f, i)
    BY DEF WhenEnded, Try, With
  <2> HIDE DEF j
  <2> QED BY <1>9, <2>1, TornDownGoes, TornDownArmed DEF Goes
<1> HIDE DEF j
<1>11. Fit(k)
  <2>1. k = IF j.err \/ j.reload_command \in {"none", "running"} THEN j
            ELSE handle_reload_exit(j)
    BY DEF WhenEnded, Try, With
  <2> HIDE DEF k
  <2> QED BY <1>10, <2>1, CommandsGo, CommandsArmed DEF Goes, Sound, Coherent
<1> HIDE DEF k
<1>12. Fit(l)
  <2>1. l = IF k.err \/ k.stop_command \in {"none", "running"} THEN k
            ELSE handle_stop_exit(s, k)
    BY DEF WhenEnded, Try, With
  <2> HIDE DEF l
  <2> QED BY <1>11, <2>1, CommandsGo, CommandsArmed DEF Goes, Sound, Coherent
<1> HIDE DEF l
<1>13. Fit(n)
  <2>1. n = IF l.err THEN l ELSE observe_exit(s, f, l)
    BY DEF Try, With
  <2> HIDE DEF n
  <2> QED BY <1>12, <2>1, ObserveExitGoes, ObserveExitArmed DEF Goes
<1> HIDE DEF n
<1>14. Fit(o)
  <2>1. o = IF n.err THEN n ELSE IF n.forking_pending /\ n.forking_parent_exited
            THEN try_adopt_forking(s, f, n) ELSE n
    BY DEF Try, With
  <2> HIDE DEF o
  <2> QED BY <1>13, <2>1, AdoptGoes, AdoptArmed DEF Goes
<1> HIDE DEF o
<1>15. Fit(p)
  <2>1. p = IF o.err THEN o ELSE check_active_stop_deadline(s, f, check_stop_deadline(s, o))
    BY DEF Try, With
  <2> HIDE DEF p
  <2> QED BY <1>14, <2>1, StopDeadlineGoes, StopDeadlineArmed DEF Goes
<1> HIDE DEF p
<1>16. Fit(q)
  <2>1. q = IF p.err THEN p ELSE check_start_deadline(s, p)
    BY DEF Try, With
  <2> HIDE DEF q
  <2> QED BY <1>15, <2>1, StartDeadlineGoes, StartDeadlineArmed DEF Goes
<1> HIDE DEF q
<1>17. Fit(r)
  <2>1. r = IF q.err THEN q ELSE check_restart_due(s, f, q)
    BY DEF Try, With
  <2> HIDE DEF r
  <2> QED BY <1>16, <2>1, RestartDueGoes, RestartDueArmed DEF Goes
<1> HIDE DEF r
<1> QED BY <1>2, <1>17

(***************************************************************************)
(* A new service waits for nothing.                                        *)
(***************************************************************************)
LEMMA InitArmed == Init => Armed(u, m)
<1> SUFFICES ASSUME Init PROVE Armed(u, m)
  OBVIOUS
<1>1. /\ new.rec.state = "Defined" /\ new.start_helper = "none"
      /\ new.active_stop_helper = "none" /\ new.stop_post_helper = "none"
  BY DEF new, R!NewRecord
<1> QED BY <1>1 DEF Init, Armed, StartArmed, StopArmed

(***************************************************************************)
(* A request, with the error it is answered with.                          *)
(***************************************************************************)
LEMMA RequestArmed ==
  ASSUME ManagedIInv, Armed(u, m), Request
  PROVE  Armed(u, m)'
<1>1. /\ u \in Services /\ u.start_limit_burst \in Nat
      /\ Sound(u, m) /\ Coherent(u, m) /\ Typed(u, m) /\ ~ m.err
  BY ManagedAssumption DEF ManagedIInv, Sound, Coherent
<1>2. ASSUME NEW x, Typed(u, x), Armed(u, x), Answer(x)
      PROVE  Armed(u, m)'
  <2>1. m' = [x EXCEPT !.err = FALSE] /\ u' = u
    BY <1>2 DEF Answer
  <2>2. Armed(u, m')
    BY <1>2, <2>1, SmallSame, SameArmed
  <2> QED BY <2>1, <2>2 DEF Armed, StartArmed, StopArmed, StartsBare, StopsBare
<1>3. ASSUME NEW f \in Outcomes, StartRequested(f) PROVE Armed(u, m)'
  BY <1>1, <1>2, <1>3, StartSound, StartArms DEF StartRequested, Sound, Coherent
<1>4. ASSUME NEW f \in Outcomes, StopRequested(f) PROVE Armed(u, m)'
  BY <1>1, <1>2, <1>4, StopHolds, StopArms DEF StopRequested, Sound, Coherent
<1>5. ASSUME NEW f \in Outcomes, RestartRequested(f) PROVE Armed(u, m)'
  BY <1>1, <1>2, <1>5, RestartSound, RestartArmed DEF RestartRequested, Sound, Coherent
<1>6. ASSUME NEW f \in Outcomes, ReloadRequested(f) PROVE Armed(u, m)'
  BY <1>1, <1>2, <1>6, ReloadGoes, ReloadArmed DEF ReloadRequested, Goes, Sound, Coherent
<1>7. ASSUME ResetRequested PROVE Armed(u, m)'
  BY <1>1, <1>2, <1>7, ResetGoes, ResetArmed DEF ResetRequested, Goes, Sound, Coherent
<1>8. ASSUME JobTimedOut PROVE Armed(u, m)'
  BY <1>1, <1>2, <1>8, JobTimeoutGoes, JobTimeoutArmed DEF JobTimedOut, Goes, Sound, Coherent
<1>9. ASSUME ClientsLeave PROVE Armed(u, m)'
  BY <1>9 DEF ClientsLeave, Armed, StartArmed, StopArmed, StartsBare, StopsBare
<1> QED BY <1>3, <1>4, <1>5, <1>6, <1>7, <1>8, <1>9 DEF Request

(***************************************************************************)
(* Between two polls a deadline passes, and a helper ends: neither takes a *)
(* deadline away, and no helper begins.                                    *)
(***************************************************************************)
LEMMA EnvironmentArmed ==
  ASSUME ManagedIInv, Armed(u, m), Environment
  PROVE  Armed(u, m)'
<1>1. Typed(u, m)
  BY DEF ManagedIInv, Sound, Coherent
<1>2. ASSUME NEW x, World(x), x.rec = m.rec, x.signal = m.signal,
             m.start_helper = "none" => x.start_helper = "none",
             m.active_stop_helper = "none" => x.active_stop_helper = "none",
             m.stop_post_helper = "none" => x.stop_post_helper = "none",
             m.start_deadline # "none" => x.start_deadline # "none",
             m.stop_deadline # "none" => x.stop_deadline # "none"
      PROVE  Armed(u, m)'
  BY <1>2 DEF World, Armed, StartArmed, StopArmed, StartsBare, StopsBare
<1>3. ASSUME NEW reason \in MainExits, MainEnds(reason) PROVE Armed(u, m)'
  <2> DEFINE y == [m EXCEPT !.child = "ended", !.exit = reason]
  <2>1. World(y)
    BY <1>3 DEF MainEnds
  <2>2. /\ y.rec = m.rec /\ y.signal = m.signal /\ y.start_helper = m.start_helper
        /\ y.active_stop_helper = m.active_stop_helper
        /\ y.stop_post_helper = m.stop_post_helper
        /\ y.start_deadline = m.start_deadline /\ y.stop_deadline = m.stop_deadline
    BY <1>1, FieldsAre DEF Typed
  <2> HIDE DEF y
  <2> QED BY <1>2, <2>1, <2>2
<1>4. ASSUME NEW helper \in Helpers, NEW outcome \in HelperOutcomes, HelperEnds(helper, outcome)
      PROVE  Armed(u, m)'
  <2> DEFINE y == [m EXCEPT ![helper] = outcome]
  <2>1. World(y) /\ m[helper] = "running"
    BY <1>4 DEF HelperEnds
  <2>2. \A field \in Fields : y[field] = IF field = helper THEN outcome ELSE m[field]
    BY <1>1 DEF Typed
  <2> HIDE DEF y
  <2>3. /\ \A field \in Fields \ Helpers : y[field] = m[field]
        /\ \A h \in Helpers : m[h] = "none" => y[h] = "none"
    BY <2>1, <2>2, FieldsAre DEF Helpers
  <2>4. /\ y.rec = m.rec /\ y.signal = m.signal
        /\ y.start_deadline = m.start_deadline /\ y.stop_deadline = m.stop_deadline
    BY <2>3, FieldsAre DEF Helpers
  <2> QED BY <1>2, <2>1, <2>3, <2>4 DEF Helpers
<1>5. ASSUME NEW deadline \in Deadlines, Expires(deadline) PROVE Armed(u, m)'
  <2> DEFINE y == [m EXCEPT ![deadline] = "due"]
  <2>1. World(y)
    BY <1>5 DEF Expires
  <2>2. \A field \in Fields : y[field] = IF field = deadline THEN "due" ELSE m[field]
    BY <1>1 DEF Typed
  <2> HIDE DEF y
  <2>3. /\ \A field \in Fields \ Deadlines : y[field] = m[field]
        /\ \A d \in Deadlines : m[d] # "none" => y[d] # "none"
    BY <2>2, FieldsAre DEF Deadlines
  <2>4. /\ y.rec = m.rec /\ y.signal = m.signal /\ y.start_helper = m.start_helper
        /\ y.active_stop_helper = m.active_stop_helper
        /\ y.stop_post_helper = m.stop_post_helper
    BY <2>3, FieldsAre DEF Deadlines
  <2> QED BY <1>2, <2>1, <2>3, <2>4 DEF Deadlines
<1>6. ASSUME NEW x, World(x), Same(m, x), x.signal = m.signal PROVE Armed(u, m)'
  BY <1>2, <1>6 DEF Same, Unhelped
<1>7. ASSUME NEW message, Notified(message) PROVE Armed(u, m)'
  <2> DEFINE y == [m EXCEPT !.notify = message]
  <2>1. World(y)
    BY <1>7 DEF Notified
  <2>2. Same(m, y) /\ y.signal = m.signal
    BY <1>1, FieldsAre DEF Typed, Same, Unhelped
  <2> HIDE DEF y
  <2> QED BY <1>6, <2>1, <2>2
<1>8. ASSUME NEW seen, \/ World([m EXCEPT !.oom = TRUE]) \/ World([m EXCEPT !.lost = ~ @])
                       \/ World([m EXCEPT !.start_attempts = @ - 1])
                       \/ World([m EXCEPT !.daemon = seen])
      PROVE  Armed(u, m)'
  <2> DEFINE a == [m EXCEPT !.oom = TRUE]
             b == [m EXCEPT !.lost = ~ @]
             c == [m EXCEPT !.start_attempts = @ - 1]
             d == [m EXCEPT !.daemon = seen]
  <2>1. /\ Same(m, a) /\ a.signal = m.signal /\ Same(m, b) /\ b.signal = m.signal
        /\ Same(m, c) /\ c.signal = m.signal /\ Same(m, d) /\ d.signal = m.signal
    BY <1>1, FieldsAre DEF Typed, Same, Unhelped
  <2>2. World(a) \/ World(b) \/ World(c) \/ World(d)
    BY <1>8
  <2> HIDE DEF a, b, c, d
  <2> QED BY <1>6, <2>1, <2>2
<1>9. ASSUME OutOfMemory \/ TargetChanges \/ AttemptAges \/ DaemonForked \/ DaemonEnds
      PROVE  Armed(u, m)'
  BY <1>8, <1>9 DEF OutOfMemory, TargetChanges, AttemptAges, DaemonForked, DaemonEnds
<1> QED BY <1>3, <1>4, <1>5, <1>7, <1>9 DEF Environment

(***************************************************************************)
(* Every behaviour keeps the deadlines of what is waited for.              *)
(***************************************************************************)
THEOREM DeadlinesInductive == Spec => []Armed(u, m)
<1>1. ManagedIInv /\ Armed(u, m) /\ [Next]_vars => Armed(u, m)'
  <2> SUFFICES ASSUME ManagedIInv, Armed(u, m), [Next]_vars PROVE Armed(u, m)'
    OBVIOUS
  <2>1. ASSUME NEW f \in Outcomes, Poll(f) PROVE Armed(u, m)'
    <3> DEFINE y == refresh_lost_mount(u, m)
               x == poll(u, f, y)
    <3>1. /\ u \in Services /\ u.start_limit_burst \in Nat /\ Sound(u, m) /\ ~ m.err
      BY ManagedAssumption DEF ManagedIInv
    <3>2. Goes(u, m, y) /\ ~ y.err /\ Armed(u, y)
      BY <3>1, LostMountGoes, LostMountArmed
    <3>3. m' = [x EXCEPT !.err = FALSE] /\ u' = u
      BY <2>1 DEF Poll
    <3> HIDE DEF y
    <3>4. Typed(u, x) /\ Armed(u, x)
      BY <3>1, <3>2, PollGoes, PollArmed DEF Goes, Sound, Coherent
    <3> HIDE DEF x
    <3>5. Armed(u, m')
      BY <3>3, <3>4, SmallSame, SameArmed
    <3> QED BY <3>3, <3>5 DEF Armed, StartArmed, StopArmed, StartsBare, StopsBare
  <2>2. CASE Unsupervised \/ UNCHANGED vars
    BY <2>2 DEF Unsupervised, vars, Armed, StartArmed, StopArmed, StartsBare, StopsBare
  <2> QED BY <2>1, <2>2, RequestArmed, EnvironmentArmed DEF Next
<1> QED BY <1>1, InitArmed, ManagedInductive, PTL DEF Spec

(***************************************************************************)
(* "stop_escalates_to_kill": a process that is being stopped has a         *)
(* deadline before it or SIGKILL behind it, whatever the service starts    *)
(* with, unless commands run that share its deadline.                      *)
(***************************************************************************)
THEOREM StopsEscalate == Spec => [](StopsBare(u) => StopEscalates)
<1>1. Armed(u, m) => (StopsBare(u) => StopEscalates)
  BY DEF Armed, StopArmed, StopEscalates, StoppingProcess
<1> QED BY <1>1, DeadlinesInductive, PTL

(***************************************************************************)
(* "start_timeout": a start is timed, also an automatic one; with          *)
(* ExecCondition or ExecStartPre at the latest when its process is there.  *)
(***************************************************************************)
THEOREM StartsAreTimed == Spec => [](StartsBare(u) \/ m.rec.pid # NoPid => StartIsTimed)
<1>1. Armed(u, m) => (StartsBare(u) \/ m.rec.pid # NoPid => StartIsTimed)
  BY DEF Armed, StartArmed, StartIsTimed
<1> QED BY <1>1, DeadlinesInductive, PTL

(***************************************************************************)
(* Both hold of every service that runs its commands beside its main       *)
(* process only, through every phase of its starts and stops.              *)
(***************************************************************************)
THEOREM DeadlinesAlwaysArmed == Spec => [](StartsBare(u) /\ StopsBare(u) => DeadlinesArmed)
<1>1. /\ StopsBare(u) => StopEscalates
      /\ StartsBare(u) \/ m.rec.pid # NoPid => StartIsTimed
      => (StartsBare(u) /\ StopsBare(u) => DeadlinesArmed)
  BY DEF DeadlinesArmed
<1> QED BY <1>1, StopsEscalate, StartsAreTimed, PTL

-----------------------------------------------------------------------------
(***************************************************************************)
(* The contract.  ManagedService implements ServiceContract: whatever a    *)
(* method of ServiceMethods does to the structure, it does to the view of  *)
(* the service only what ServiceView allows.  The fields are related by    *)
(* the inductive invariant above.                                          *)
(***************************************************************************)

(***************************************************************************)
(* What the view is made of, and relations between structures.             *)
(***************************************************************************)

Wishes(x, y) ==
  y.wants_running = x.wants_running /\ y.restart_after_stop = x.restart_after_stop

\* Where a start may have come to when its method returns.
BegunStates == {"Starting", "Running", "Active", "Skipped", "Failed", "Backoff"}

\* A start that was begun in this poll: nothing of it has ended yet.
Fresh(x) ==
  /\ x.rec.state \in BegunStates
  /\ x.wants_running \/ x.rec.state = "Failed"
  /\ x.child # "ended" /\ ~ (x.forking_pending /\ x.forking_parent_exited)
  /\ x.rec.state = "Starting" => x.start_deadline # "due"

-----------------------------------------------------------------------------
(***************************************************************************)
(* Spawning.                                                               *)
(***************************************************************************)

(***************************************************************************)
(* A start that failed before its process: nothing but the record changes, *)
(* and only that of a start.                                               *)
(***************************************************************************)
LEMMA SpawnFailedSeen ==
  ASSUME NEW s, NEW x, Typed(s, x), ~ x.err
  PROVE  LET y == mark_spawn_failed(s, x) IN
         /\ Typed(s, y) /\ Wishes(x, y)
         /\ x.rec.state # "Starting" => y.rec = x.rec /\ y.restart_at = x.restart_at
         /\ x.rec.state = "Starting" => y.rec.state \in {"Backoff", "Failed"}
<1> DEFINE k == kill(x, {"exec_condition_helper"})
           c == cleanup_directories(k)
           ok == R!spawn_failed_ok(x.rec, x.rec.generation)
           rec == R!spawn_failed(s, x.rec)
           y == [c EXCEPT !.rec = rec]
           z == [y EXCEPT !.restart_at = "armed"]
<1>1. x.rec \in R!ServiceRecord
  BY DEF Typed
<1>2. Typed(s, k) /\ k.err = x.err /\ k.rec = x.rec /\ Wishes(x, k) /\ k.restart_at = x.restart_at
  BY KillGoes, FieldsAre DEF Helpers, Wishes
<1>3. Typed(s, c) /\ Agree(k, c) /\ c.err = k.err
  BY <1>2, CleanupStep
<1>4. mark_spawn_failed(s, x) = ArmRestart(IF ok THEN y ELSE Err(c))
  BY DEF mark_spawn_failed, Commit
<1>5. /\ rec \in R!ServiceRecord /\ rec.pid = x.rec.pid
      /\ rec.state \in {"Backoff", "Failed"}
  BY <1>1, FailTransitions
<1>6. ok <=> x.rec.state = "Starting"
  BY DEF R!spawn_failed_ok, R!check_generation
<1> HIDE DEF k, c, ok, rec
<1>7. Typed(s, Err(c)) /\ Agree(c, Err(c)) /\ Err(c).err
  BY <1>3, ErrStep
<1>8. Typed(s, y) /\ Around(c, y) /\ y.rec = rec /\ ~ y.err
  BY <1>2, <1>3, <1>5, RecStep
<1>9. /\ Typed(s, z) /\ z.rec = rec
      /\ z.wants_running = y.wants_running /\ z.restart_after_stop = y.restart_after_stop
  BY <1>8, RestartAtStep DEF Deadline
<1>10. CASE ~ ok
  <2>1. mark_spawn_failed(s, x) = Err(c)
    BY <1>4, <1>7, <1>10 DEF ArmRestart
  <2> QED BY <1>2, <1>3, <1>6, <1>7, <1>10, <2>1 DEF Wishes, Agree, Around
<1>11. CASE ok
  <2>1. mark_spawn_failed(s, x) \in {y, z}
    BY <1>4, <1>11 DEF ArmRestart
  <2> HIDE DEF y, z
  <2> QED BY <1>2, <1>3, <1>5, <1>6, <1>8, <1>9, <1>11, <2>1 DEF Wishes, Agree, Around
<1> QED BY <1>10, <1>11

(***************************************************************************)
(* ExecStartPost is beside what the view is made of, but for readiness.    *)
(***************************************************************************)
LEMMA StartPostSeen ==
  ASSUME NEW s, NEW f, NEW x, Typed(s, x)
  PROVE  LET y == spawn_start_post(s, f, x) IN
         Typed(s, y) /\ Agree(x, y) /\ y.start_deadline = x.start_deadline
<1> DEFINE y == send_signal(s, x, "term")
           z == [x EXCEPT !.start_post_helper = "running"]
<1>1. Typed(s, y) /\ Agree(x, y)
  BY SignalStep
<1>2. y.start_deadline = x.start_deadline
  BY FieldsAre DEF Typed, send_signal
<1>3. Typed(s, Err(y)) /\ Agree(y, Err(y))
  BY <1>1, ErrStep
<1>4. Err(y).start_deadline = y.start_deadline
  BY <1>1, FieldsAre DEF Typed, Err
<1>5. Typed(s, z) /\ Agree(x, z) /\ z.start_deadline = x.start_deadline
  BY FieldsAre DEF Typed, Agree, Around, Helpers, Deadlines, HelperValue
<1>6. spawn_start_post(s, f, x) \in {x, Err(y), z}
  BY DEF spawn_start_post
<1> HIDE DEF y, z
<1>7. Agree(x, x) /\ Agree(x, Err(y))
  BY <1>1, <1>3 DEF Agree, Around
<1> QED BY <1>1, <1>2, <1>3, <1>4, <1>5, <1>6, <1>7

(***************************************************************************)
(* A start goes on with its next phase: it is still one, or has ended by   *)
(* itself, and nothing of it has ended behind the back of the supervisor.  *)
(***************************************************************************)
LEMMA SpawnMainSeen ==
  ASSUME NEW s, NEW f, NEW x, Launchable(s, x), Passed(s, x)
  PROVE  LET y == spawn_main(s, f, x) IN
         /\ Wishes(x, y)
         /\ y.rec.state \in {"Starting", "Running", "Failed", "Backoff"}
         /\ y.rec.state \in {"Starting", "Running"} =>
              /\ y.child = "alive" /\ ~ y.forking_parent_exited
              /\ x.start_deadline # "due" => y.start_deadline # "due"
<1> DEFINE pid == CHOOSE p \in Pids : TRUE
           rec == R!spawned(s, x.rec, pid)
           y == MainSpawned(s, x, rec)
           w == spawn_start_post(s, f, y)
           e == mark_spawn_failed(s, x)
<1>1. pid \in Pids /\ pid # NoPid
  BY ManagedAssumption
<1>2. Typed(s, x) /\ x.rec \in R!ServiceRecord /\ x.rec.state = "Starting" /\ ~ x.err
  BY DEF Launchable, Sound, Coherent, Typed
<1> HIDE DEF pid
<1>3. rec \in R!ServiceRecord /\ rec.pid # NoPid /\ rec.state \in {"Starting", "Running"}
  BY <1>1, <1>2, StartTransitions
<1> HIDE DEF rec
<1>4. Typed(s, y)
  BY <1>3, MainSpawnedGoes DEF Goes, Sound, Coherent
<1>5. /\ y.rec = rec /\ y.child = "alive" /\ ~ y.forking_parent_exited /\ Wishes(x, y)
      /\ y.start_deadline = StartDeadline(s, x.start_deadline)
  BY <1>2, FieldsAre DEF MainSpawned, Typed, Wishes
<1>6. x.start_deadline # "due" => y.start_deadline # "due"
  BY <1>5 DEF StartDeadline, timeout_deadline
<1>7. Typed(s, w) /\ Agree(y, w) /\ w.start_deadline = y.start_deadline
  BY <1>4, StartPostSeen
<1>8. /\ Typed(s, e) /\ Wishes(x, e) /\ e.rec.state \in {"Backoff", "Failed"}
  BY <1>2, SpawnFailedSeen
<1> HIDE DEF y, e, w
<1>9. Agree(e, Err(e))
  BY <1>8, ErrStep
<1>10. spawn_main(s, f, x) \in {Err(e), y, w}
  <2>1. With(y, LAMBDA v : IF Late(s) THEN v ELSE spawn_start_post(s, f, v))
          = IF Late(s) THEN y ELSE spawn_start_post(s, f, y)
    BY DEF With
  <2>2. R!spawned_ok(x.rec, x.rec.generation)
    BY <1>2 DEF R!spawned_ok, R!check_generation
  <2> QED BY <2>1, <2>2 DEF spawn_main, y, w, e, rec, pid
<1> QED BY <1>3, <1>5, <1>6, <1>7, <1>8, <1>9, <1>10 DEF Wishes, Agree, Around

(***************************************************************************)
(* What does not run, or has just been spawned, is fresh.                  *)
(***************************************************************************)
LEMMA RestIsFresh ==
  ASSUME NEW s, NEW x, Sound(s, x), x.wants_running \/ x.rec.state = "Failed",
         \/ x.rec.state \in {"Active", "Skipped", "Failed", "Backoff"}
         \/ x.rec.state = "Starting" /\ x.rec.pid = NoPid /\ x.start_deadline # "due"
  PROVE  Fresh(x)
BY DEF Fresh, BegunStates, Sound, Coherent, ProcessLinked

(***************************************************************************)
(* A start that was begun: it keeps the wishes, and is fresh.              *)
(***************************************************************************)
LEMMA SpawnSeen ==
  ASSUME NEW s, NEW f, NEW x, Launchable(s, x)
  PROVE  LET y == spawn(s, f, x) IN
         /\ Wishes(x, y)
         /\ y.rec.state \in BegunStates
         /\ x.wants_running /\ x.start_deadline # "due" => Fresh(y)
<1> DEFINE e == mark_spawn_failed(s, x)
           a == [x EXCEPT !.rec = R!activated(x.rec)]
           b == [a EXCEPT !.start_deadline = "none"]
           c == [x EXCEPT !.exec_condition_helper = "running"]
           h == [x EXCEPT !.start_helper = "running"]
           p == spawn_main(s, f, x)
           y == spawn(s, f, x)
<1>1. Typed(s, x) /\ x.rec \in R!ServiceRecord /\ x.rec.state = "Starting" /\ x.rec.pid = NoPid /\ ~ x.err
  BY DEF Launchable, Sound, Coherent, Typed
<1>2. Sound(s, y)
  BY SpawnGoes DEF Goes
<1>3. Typed(s, e) /\ Wishes(x, e) /\ e.rec.state \in {"Backoff", "Failed"}
  BY <1>1, SpawnFailedSeen
<1>4. Agree(e, Err(e))
  BY <1>3, ErrStep
<1>5. Wishes(x, b) /\ b.rec.state = "Active"
  <2>1. R!activated(x.rec) \in R!ServiceRecord /\ R!activated(x.rec).state = "Active"
    <3>1. PICK pid \in Pids : TRUE
      BY ManagedAssumption
    <3> QED BY <1>1, <3>1, StartTransitions
  <2>2. Typed(s, a) /\ Around(x, a) /\ a.rec.state = "Active"
    BY <1>1, <2>1, RecStep
  <2> HIDE DEF a
  <2>3. b.rec = a.rec /\ Wishes(a, b)
    BY <2>2, FieldsAre DEF Typed, Wishes
  <2> QED BY <2>2, <2>3 DEF Wishes, Around
<1>6. Activate(x) = b
  <2>1. ~ a.err
    BY <1>1, FieldsAre DEF Typed
  <2>2. Activate(x) = Try(a, LAMBDA w : [w EXCEPT !.start_deadline = "none"])
    BY <1>1 DEF Activate, Commit, R!activated_ok, R!check_generation
  <2> HIDE DEF a
  <2> QED BY <2>1, <2>2 DEF Try, With
<1>7. /\ Wishes(x, c) /\ c.rec = x.rec /\ c.start_deadline = x.start_deadline
      /\ Wishes(x, h) /\ h.rec = x.rec /\ h.start_deadline = x.start_deadline
  BY <1>1, FieldsAre DEF Typed, Wishes
<1>8. ASSUME Passed(s, x)
      PROVE  /\ Wishes(x, p)
             /\ p.rec.state \in {"Starting", "Running", "Failed", "Backoff"}
             /\ p.rec.state \in {"Starting", "Running"} =>
                  /\ p.child = "alive" /\ ~ p.forking_parent_exited
                  /\ x.start_deadline # "due" => p.start_deadline # "due"
  BY <1>8, SpawnMainSeen
<1>9. y \in {Err(e), Activate(x), c, h} \/ (Passed(s, x) /\ y = p)
  BY DEF spawn, Passed
<1> HIDE DEF e, b, c, h, p, y
<1>10. CASE y \in {Err(e), b}
  <2>1. Wishes(x, y) /\ y.rec.state \in {"Backoff", "Failed", "Active"}
    BY <1>3, <1>4, <1>5, <1>10 DEF Wishes, Agree, Around
  <2>2. x.wants_running => Fresh(y)
    BY <1>2, <2>1, RestIsFresh DEF Wishes
  <2> QED BY <2>1, <2>2 DEF BegunStates, y
<1>11. CASE y \in {c, h}
  <2>1. Wishes(x, y) /\ y.rec = x.rec /\ y.start_deadline = x.start_deadline
    BY <1>7, <1>11
  <2>2. x.wants_running /\ x.start_deadline # "due" => Fresh(y)
    BY <1>1, <1>2, <2>1, RestIsFresh DEF Wishes
  <2> QED BY <1>1, <2>1, <2>2 DEF BegunStates, y
<1>12. CASE Passed(s, x) /\ y = p
  <2>1. /\ Wishes(x, y)
        /\ y.rec.state \in {"Starting", "Running", "Failed", "Backoff"}
        /\ y.rec.state \in {"Starting", "Running"} =>
             /\ y.child = "alive" /\ ~ y.forking_parent_exited
             /\ x.start_deadline # "due" => y.start_deadline # "due"
    BY <1>8, <1>12
  <2>2. CASE y.rec.state \in {"Starting", "Running"}
    BY <2>1, <2>2 DEF BegunStates, Fresh, Wishes, y
  <2>3. CASE y.rec.state \in {"Failed", "Backoff"}
    <3>1. x.wants_running => Fresh(y)
      BY <1>2, <2>1, <2>3, RestIsFresh DEF Wishes
    <3> QED BY <2>1, <3>1 DEF BegunStates, y
  <2> QED BY <2>1, <2>2, <2>3
<1> QED BY <1>6, <1>9, <1>10, <1>11, <1>12

(***************************************************************************)
(* The same from the conditions on: the start runs against a new deadline. *)
(***************************************************************************)
LEMMA BeginStartSeen ==
  ASSUME NEW s, NEW f, NEW x, Launchable(s, x), x.wants_running
  PROVE  LET y == BeginStart(s, f, x) IN Wishes(x, y) /\ Fresh(y)
<1> DEFINE y == BeginStart(s, f, x)
<1>1. Typed(s, x) /\ x.rec \in R!ServiceRecord /\ x.rec.pid = NoPid /\ ~ x.err
  BY DEF Launchable, Sound, Coherent, Typed
<1>2. Sound(s, y)
  BY BeginStartSound
<1>3. CASE f = "conditions"
  <2>1. PICK pid \in Pids : TRUE
    BY ManagedAssumption
  <2> DEFINE rec == R!condition_skipped(x.rec)
  <2>2. rec.state = "Skipped"
    BY <1>1, <2>1, StartTransitions
  <2>3. y = [x EXCEPT !.rec = rec, !.start_deadline = "none"]
    BY <1>3 DEF BeginStart
  <2> HIDE DEF rec, y
  <2>4. Wishes(x, y) /\ y.rec.state \in {"Skipped", "Failed"}
    BY <1>1, <2>2, <2>3, FieldsAre DEF Typed, Wishes
  <2> QED BY <1>2, <2>4, RestIsFresh DEF Wishes, y
<1>4. CASE f = "assertions"
  <2> DEFINE rec == R!start_failed(x.rec)
  <2>2. rec.state = "Failed"
    BY <1>1, FailTransitions
  <2>3. y = [x EXCEPT !.rec = rec, !.start_deadline = "none"]
    BY <1>4 DEF BeginStart
  <2> HIDE DEF rec, y
  <2>4. Wishes(x, y) /\ y.rec.state \in {"Skipped", "Failed"}
    BY <1>1, <2>2, <2>3, FieldsAre DEF Typed, Wishes
  <2> QED BY <1>2, <2>4, RestIsFresh DEF Wishes, y
<1>5. CASE f = "prepare"
  <2> DEFINE z == [x EXCEPT !.exec_conditions_done = FALSE]
             e == mark_spawn_failed(s, z)
  <2>1. Typed(s, z) /\ z.rec = x.rec /\ ~ z.err /\ Wishes(x, z)
    BY <1>1, FieldsAre DEF Typed, Helpers, Deadlines, Wishes
  <2>2. y = Err(e)
    BY <1>5 DEF BeginStart
  <2> HIDE DEF z
  <2>3. Typed(s, e) /\ Wishes(z, e) /\ e.rec.state \in {"Backoff", "Failed"}
    BY <2>1, SpawnFailedSeen DEF Launchable
  <2> HIDE DEF e
  <2>4. Agree(e, Err(e))
    BY <2>3, ErrStep
  <2> HIDE DEF y
  <2>5. Wishes(x, y) /\ y.rec.state \in {"Backoff", "Failed"}
    BY <2>1, <2>2, <2>3, <2>4 DEF Wishes, Agree, Around
  <2> QED BY <1>2, <2>5, RestIsFresh DEF Wishes, y
<1>6. CASE f \notin {"conditions", "assertions", "prepare"}
  <2> DEFINE z == [x EXCEPT !.exec_conditions_done = FALSE, !.prepared = TRUE,
                            !.start_deadline = timeout_deadline(s.start_timeout)]
  <2>1. timeout_deadline(s.start_timeout) \in {"none", "armed"}
    BY DEF timeout_deadline
  <2>2. Typed(s, z)
    BY <1>1, <2>1, FieldsAre DEF Typed, Helpers, Deadlines, Deadline
  <2>3. /\ ~ z.exec_conditions_done /\ z.rec = x.rec /\ z.err = x.err
        /\ z.child = x.child /\ z.exit = x.exit /\ z.forking_pending = x.forking_pending
        /\ z.forking_parent_exited = x.forking_parent_exited
        /\ z.stop_command = x.stop_command /\ z.reload_command = x.reload_command
        /\ z.exec_condition_helper = x.exec_condition_helper
        /\ z.start_helper = x.start_helper
    BY <1>1, FieldsAre DEF Typed
  <2>4. Wishes(x, z) /\ z.start_deadline # "due"
    BY <1>1, <2>1, FieldsAre DEF Typed, Wishes
  <2>5. y = spawn(s, f, z)
    BY <1>6 DEF BeginStart
  <2> HIDE DEF z, y
  <2>6. Launchable(s, z)
    BY <2>2, <2>3 DEF Launchable, Sound, Coherent, ProcessLinked, PhasesLinked, RestartLinked, Passed
  <2>7. Wishes(z, y) /\ Fresh(y)
    BY <2>4, <2>5, <2>6, SpawnSeen DEF Wishes
  <2> QED BY <2>4, <2>7 DEF Wishes, y
<1> QED BY <1>3, <1>4, <1>5, <1>6

-----------------------------------------------------------------------------
(***************************************************************************)
(* Requests.                                                               *)
(***************************************************************************)

\* The view of a structure.
Seen(s, x) ==
  [state |-> x.rec.state, ready |-> ready_for_dependency(s, x), wants |-> x.wants_running,
   again |-> x.restart_after_stop, stopped |-> is_stopped(x), exit |-> ExitSeen(x.rec)]

ViewFields == {"state", "ready", "wants", "again", "stopped", "exit"}

\* A start has to wait for the teardown.
Waits(x) ==
  \/ x.rec.state = "Stopping"
  \/ /\ x.rec.state = "Exited"
     /\ x.active_stop_helper # "none" \/ x.stop_post_helper # "none"

(***************************************************************************)
(* An error that was answered is not seen.                                 *)
(***************************************************************************)
LEMMA ErrSeen ==
  ASSUME NEW s, NEW x, Typed(s, x)
  PROVE  Seen(s, [x EXCEPT !.err = FALSE]) = Seen(s, x)
<1> DEFINE y == [x EXCEPT !.err = FALSE]
<1>1. \A field \in Fields \ {"err"} : y[field] = x[field]
  BY DEF Typed
<1> HIDE DEF y
<1>2. ready_for_dependency(s, y) = ready_for_dependency(s, x)
  BY <1>1, FieldsAre DEF ready_for_dependency
<1>3. is_stopped(y) = is_stopped(x)
  BY <1>1, FieldsAre DEF is_stopped, Helpers
<1>4. y.rec = x.rec /\ y.wants_running = x.wants_running /\ y.restart_after_stop = x.restart_after_stop
  BY <1>1, FieldsAre
<1> QED BY <1>2, <1>3, <1>4 DEF Seen, y

(***************************************************************************)
(* A start that is neither up nor waits is begun.                          *)
(***************************************************************************)
LEMMA StartBegins ==
  ASSUME NEW s, NEW f, NEW x, Coherent(s, x), ~ x.err, s.start_limit_burst \in Nat,
         ~ Up(x), ~ Waits(x)
  PROVE  LET y == start(s, f, x) IN Fresh(y) /\ ~ y.restart_after_stop
<1> DEFINE y == [x EXCEPT !.wants_running = TRUE, !.restart_after_stop = FALSE,
                          !.restart_at = "none"]
           l == enforce_start_limit(s, y)
           b == [l EXCEPT !.runtime_deadline = "none", !.rec = R!start(@)]
           z == start(s, f, x)
<1>1. Typed(s, x)
  BY DEF Coherent
<1>2. /\ Typed(s, y) /\ y.rec = x.rec /\ y.err = x.err
      /\ y.child = x.child /\ y.exit = x.exit /\ y.forking_pending = x.forking_pending
      /\ y.forking_parent_exited = x.forking_parent_exited
      /\ y.stop_command = x.stop_command /\ y.reload_command = x.reload_command
      /\ y.exec_condition_helper = x.exec_condition_helper
      /\ y.start_helper = x.start_helper /\ y.exec_conditions_done = x.exec_conditions_done
  BY <1>1, FieldsAre DEF Typed, Helpers, Deadlines, Deadline
<1>3. Coherent(s, y)
  BY <1>2 DEF Coherent, ProcessLinked, PhasesLinked, Passed
<1>4. y.wants_running /\ ~ y.restart_after_stop
  BY <1>1, FieldsAre DEF Typed
<1>5. z = IF l.err THEN l ELSE BeginStart(s, f, b)
  BY DEF start, Try, With, Waits
<1>6. Sound(s, z)
  BY StartSound
<1> HIDE DEF y
<1>7. y.rec.state \notin {"Starting", "Running", "Active", "Stopping"} /\ ~ y.err
  BY <1>2 DEF Up, Waits
<1>8. /\ Coherent(s, l)
      /\ ~ l.err => Agree(y, l)
      /\ l.err => l.rec.state = "Failed" /\ ~ l.restart_after_stop
  <2>1. /\ Coherent(s, l)
        /\ ~ l.err => Agree(y, l)
        /\ l.err => \/ /\ l.rec.state = "Failed" /\ ~ l.wants_running
                       /\ l.restart_after_stop = y.restart_after_stop
                    \/ Agree(y, l) /\ y.rec.state \in {"Running", "Active", "Stopping"}
    BY <1>3, <1>7, LimitEffect
  <2> QED BY <1>4, <1>7, <2>1
<1> HIDE DEF l, z
<1>9. CASE l.err
  BY <1>5, <1>6, <1>8, <1>9, RestIsFresh DEF z
<1>10. CASE ~ l.err
  <2> DEFINE rec == R!start(l.rec)
             c == [l EXCEPT !.runtime_deadline = "none"]
  <2>1. rec \in R!ServiceRecord /\ rec.state = "Starting" /\ rec.pid = NoPid
    <3>1. PICK pid \in Pids : TRUE
      BY ManagedAssumption
    <3> QED BY <1>8, <3>1, StartTransitions DEF Coherent, Typed
  <2>2. Typed(s, c) /\ Agree(l, c) /\ ~ c.err /\ c.rec = l.rec
    BY <1>8, <1>10, FieldsAre DEF Coherent, Typed, Agree, Around, Helpers, Deadlines, Deadline
  <2>3. b = [c EXCEPT !.rec = R!start(@)]
    OBVIOUS
  <2> HIDE DEF b, c, rec
  <2>4. b = [c EXCEPT !.rec = rec]
    BY <2>2, <2>3, FieldsAre DEF Typed, rec
  <2>5. Typed(s, b) /\ Around(c, b) /\ b.rec = rec /\ ~ b.err
    BY <2>1, <2>2, <2>4, RecStep
  <2>6. l.rec.pid = NoPid /\ l.start_helper = "none" /\ l.child = "none"
    BY <1>7, <1>8, <1>10 DEF Coherent, ProcessLinked, PhasesLinked, Agree
  <2>7. Launchable(s, b)
    BY <1>8, <2>1, <2>2, <2>5, <2>6
       DEF Launchable, Sound, Coherent, Agree, Around, ProcessLinked, PhasesLinked,
           RestartLinked, Passed
  <2>8. b.wants_running /\ ~ b.restart_after_stop
    BY <1>4, <1>8, <1>10, <2>2, <2>5 DEF Agree, Around
  <2>9. Wishes(b, z) /\ Fresh(z)
    BY <1>5, <1>10, <2>7, <2>8, BeginStartSeen
  <2> QED BY <2>8, <2>9 DEF Wishes, z
<1> QED BY <1>9, <1>10

(***************************************************************************)
(* What is fresh is begun in the sense of the contract.                    *)
(***************************************************************************)
LEMMA FreshIsBegun ==
  ASSUME NEW s, NEW x, Fresh(x)
  PROVE  C!Begun(Seen(s, x))
BY DEF Fresh, BegunStates, C!Begun, Seen

(***************************************************************************)
(* A view is made of its fields.                                           *)
(***************************************************************************)
LEMMA SeenFields ==
  ASSUME NEW s, NEW x
  PROVE  /\ Seen(s, x) = [field \in ViewFields |-> Seen(s, x)[field]]
         /\ Seen(s, x).state = x.rec.state
         /\ Seen(s, x).ready = ready_for_dependency(s, x)
         /\ Seen(s, x).wants = x.wants_running
         /\ Seen(s, x).again = x.restart_after_stop
         /\ Seen(s, x).stopped = is_stopped(x)
         /\ Seen(s, x).exit = ExitSeen(x.rec)
BY DEF Seen, ViewFields

(***************************************************************************)
(* A start does what the contract says: it changes the wishes only, or is  *)
(* postponed, or begins.                                                   *)
(***************************************************************************)
LEMMA StartSeen ==
  ASSUME NEW s, NEW f, NEW x, Coherent(s, x), ~ x.err, s.start_limit_burst \in Nat
  PROVE  /\ C!may_start(Seen(s, x), Seen(s, start(s, f, x)))
         /\ Waits(x) => C!Postponed(Seen(s, x), Seen(s, start(s, f, x)))
<1> DEFINE y == [x EXCEPT !.wants_running = TRUE, !.restart_after_stop = FALSE,
                          !.restart_at = "none"]
           w == [y EXCEPT !.restart_after_stop = TRUE]
           z == start(s, f, x)
<1>1. Typed(s, x)
  BY DEF Coherent
<1>2. /\ \A field \in Fields \ {"wants_running", "restart_after_stop", "restart_at"} :
           y[field] = x[field] /\ w[field] = x[field]
      /\ y.wants_running /\ ~ y.restart_after_stop
      /\ w.wants_running /\ w.restart_after_stop
  BY <1>1, FieldsAre DEF Typed
<1>3. y.wants_running = TRUE /\ y.restart_after_stop = FALSE
      /\ w.wants_running = TRUE /\ w.restart_after_stop = TRUE
  BY <1>1, FieldsAre DEF Typed
<1>4. /\ Up(x) => z = y
      /\ ~ Up(x) /\ Waits(x) => z = w
  BY DEF start, Waits
<1> HIDE DEF y, w, z
<1>5. CASE Up(x)
  <2>1. ready_for_dependency(s, y) = ready_for_dependency(s, x)
    BY <1>2, FieldsAre DEF ready_for_dependency
  <2>2. is_stopped(y) = FALSE /\ is_stopped(x) = FALSE
    BY <1>2, <1>5, FieldsAre DEF is_stopped, Up
  <2>3. y.rec = x.rec
    BY <1>2, FieldsAre
  <2>4. Seen(s, y) = [Seen(s, x) EXCEPT !.wants = TRUE, !.again = FALSE]
    <3> DEFINE v == Seen(s, x)
               v1 == Seen(s, y)
    <3>1. v = [field \in ViewFields |-> v[field]] /\ v1 = [field \in ViewFields |-> v1[field]]
      BY SeenFields
    <3>2. v1.state = v.state /\ v1.ready = v.ready /\ v1.stopped = v.stopped /\ v1.exit = v.exit
      <4>1. v1.state = v.state /\ v1.exit = v.exit
        BY <2>3, SeenFields
      <4>2. v1.ready = v.ready
        BY <2>1, SeenFields
      <4>3. v1.stopped = v.stopped
        BY <2>2, SeenFields
      <4> QED BY <4>1, <4>2, <4>3
    <3>3. v1.wants = TRUE /\ v1.again = FALSE
      BY <1>3, SeenFields
    <3> HIDE DEF v, v1
    <3>4. v1 = [v EXCEPT !.wants = TRUE, !.again = FALSE]
      BY <3>1, <3>2, <3>3 DEF ViewFields
    <3> QED BY <3>4 DEF v, v1
  <2>5. C!service_was_up(Seen(s, x)) /\ ~ Waits(x)
    BY <1>5 DEF C!service_was_up, Seen, Up, Waits
  <2> QED BY <1>4, <1>5, <2>4, <2>5 DEF C!may_start, z
<1>6. CASE ~ Up(x) /\ Waits(x)
  <2>1. ready_for_dependency(s, w) = ready_for_dependency(s, x)
    BY <1>2, <1>6, FieldsAre DEF ready_for_dependency, Waits
  <2>2. is_stopped(w) = FALSE /\ is_stopped(x) = FALSE
    BY <1>2, <1>6, FieldsAre DEF is_stopped, Waits, Helpers
  <2>3. w.rec = x.rec
    BY <1>2, FieldsAre
  <2>4. Seen(s, w) = [Seen(s, x) EXCEPT !.wants = TRUE, !.again = TRUE]
    <3> DEFINE v == Seen(s, x)
               v1 == Seen(s, w)
    <3>1. v = [field \in ViewFields |-> v[field]] /\ v1 = [field \in ViewFields |-> v1[field]]
      BY SeenFields
    <3>2. v1.state = v.state /\ v1.ready = v.ready /\ v1.stopped = v.stopped /\ v1.exit = v.exit
      <4>1. v1.state = v.state /\ v1.exit = v.exit
        BY <2>3, SeenFields
      <4>2. v1.ready = v.ready
        BY <2>1, SeenFields
      <4>3. v1.stopped = v.stopped
        BY <2>2, SeenFields
      <4> QED BY <4>1, <4>2, <4>3
    <3>3. v1.wants = TRUE /\ v1.again = TRUE
      BY <1>3, SeenFields
    <3> HIDE DEF v, v1
    <3>4. v1 = [v EXCEPT !.wants = TRUE, !.again = TRUE]
      BY <3>1, <3>2, <3>3 DEF ViewFields
    <3> QED BY <3>4 DEF v, v1
  <2>5. /\ ~ C!service_was_up(Seen(s, x))
        /\ Seen(s, x).state = "Stopping" \/ (Seen(s, x).state = "Exited" /\ ~ Seen(s, x).stopped)
    BY <1>6, <2>2 DEF C!service_was_up, Seen, Up, Waits
  <2> QED BY <1>4, <1>6, <2>4, <2>5 DEF C!may_start, C!Postponed, z
<1>7. CASE ~ Up(x) /\ ~ Waits(x)
  <2>1. Fresh(z) /\ ~ z.restart_after_stop
    BY <1>7, StartBegins DEF z
  <2>2. ~ C!service_was_up(Seen(s, x)) /\ Seen(s, x).state # "Stopping" /\ ~ Seen(s, z).again
    BY <1>7, <2>1 DEF C!service_was_up, Seen, Up, Waits
  <2> QED BY <1>7, <2>1, <2>2, FreshIsBegun DEF C!may_start, z
<1> QED BY <1>5, <1>6, <1>7

(***************************************************************************)
(* What a stop does to the record: a process is being stopped, or there is *)
(* none and the stop is complete.                                          *)
(***************************************************************************)
LEMMA StopRecordSeen ==
  ASSUME NEW s, NEW x, Coherent(s, x)
  PROVE  LET y == CompleteUnspawned(StopRecord(s, x)) IN
         /\ x.rec.state \in {"Starting", "Running"} => y.rec.state \in {"Stopping", "Exited"}
         /\ x.rec.state \in {"Active", "Backoff"} => y.rec.state = "Exited"
         /\ x.rec.state \notin {"Starting", "Running", "Active", "Backoff"} => y.rec = x.rec
<1> DEFINE c == CallOff(x)
           rec == R!stop(c.rec)
           d == [c EXCEPT !.rec = rec]
           e == StopRecord(s, x)
           helpers == {"exec_condition_helper", "start_helper", "start_post_helper"}
           k == kill(e, helpers)
           done == R!stop_completed(e.rec)
           y == CompleteUnspawned(e)
<1>1. c.rec = x.rec /\ Typed(s, c) /\ c.rec \in R!ServiceRecord
  BY CallOffGoes DEF Sound, Coherent, Typed
<1>2. /\ rec \in R!ServiceRecord
      /\ c.rec.state \in {"Starting", "Running"} => rec.state = "Stopping"
      /\ c.rec.state \in {"Active", "Backoff"} => rec.state = "Exited"
  BY <1>1, StopTransitions
<1>3. c.rec.state \notin {"Starting", "Running", "Active", "Backoff"} => rec = c.rec
  BY DEF R!stop
<1>4. [CallOff(x) EXCEPT !.rec = R!stop(@)] = d
  BY <1>1, FieldsAre DEF Typed
<1> HIDE DEF c, rec
<1>5. Typed(s, d) /\ d.rec = rec
  BY <1>1, <1>2, RecStep
<1> HIDE DEF d
<1>6. Typed(s, e) /\ e.rec = rec
  <2>1. e = d \/ e = send_signal(s, d, "term")
    BY <1>4 DEF StopRecord, SignalIf
  <2> HIDE DEF e
  <2> QED BY <1>5, <2>1, SignalStep DEF Agree
<1> HIDE DEF e
<1>7. done.state = "Exited"
  BY <1>2, <1>6, StopTransitions
<1>8. CASE ~ R!stop_completed_ok(e.rec)
  <2>1. y = e
    BY <1>8 DEF CompleteUnspawned
  <2> HIDE DEF y
  <2> QED BY <1>1, <1>2, <1>3, <1>6, <2>1 DEF y, e
<1>9. CASE R!stop_completed_ok(e.rec)
  <2>1. Typed(s, k) /\ k.rec = e.rec
    BY <1>6, KillGoes, FieldsAre DEF Helpers
  <2>2. y.rec = done
    BY <1>9, <2>1, FieldsAre DEF CompleteUnspawned, Typed
  <2>3. rec.state = "Stopping" /\ rec.pid = NoPid
    BY <1>6, <1>9 DEF R!stop_completed_ok
  <2>4. c.rec.state \in {"Starting", "Running"}
    <3>1. c.rec.state # "Stopping" \/ c.rec.pid # NoPid
      BY <1>1 DEF Coherent, ProcessLinked
    <3> QED BY <1>2, <1>3, <2>3, <3>1
  <2> HIDE DEF y
  <2> QED BY <1>1, <1>7, <2>2, <2>4 DEF y, e
<1> QED BY <1>8, <1>9

(***************************************************************************)
(* The commands of a stop leave the record alone, and only that of an      *)
(* active service may fail.                                                *)
(***************************************************************************)
LEMMA StopRecSeen ==
  ASSUME NEW s, NEW f, NEW x, Coherent(s, x)
  PROVE  LET y == stop_with_signal(s, f, x) IN
         /\ y.rec = CompleteUnspawned(StopRecord(s, x)).rec
         /\ ~ x.err /\ x.rec.state # "Active" => ~ y.err
<1> DEFINE a == CompleteUnspawned(StopRecord(s, x))
           b == StopActive(s, f, x.rec.state = "Active", a)
           c == ReleaseAtRest(b)
           d == StopCommand(s, f, c)
           e == [d EXCEPT !.stop_deadline = "none"]
           g == arm_stop_deadline(s, e)
           y == stop_with_signal(s, f, x)
<1>1. Typed(s, a) /\ a.err = x.err
  BY StopRecordHolds DEF Sound, Coherent
<1>2. y = IF b.err THEN b ELSE g
  BY DEF stop_with_signal, Try, With
<1> HIDE DEF a
<1>3. Typed(s, b) /\ b.rec = a.rec /\ (x.rec.state # "Active" => b.err = a.err)
  <2> DEFINE w == [a EXCEPT !.active_stop_helper = "running",
                            !.stop_deadline = timeout_deadline(s.stop_timeout)]
  <2>1. /\ b \in {a, spawn_stop_post(s, f, a), Err(a), w}
        /\ x.rec.state # "Active" => b = a
    BY DEF StopActive
  <2>2. timeout_deadline(s.stop_timeout) \in Deadline
    BY DEF timeout_deadline, Deadline
  <2>3. Typed(s, w) /\ w.rec = a.rec
    BY <1>1, <2>2, FieldsAre DEF Typed, Helpers, Deadlines, HelperValue
  <2>4. /\ Typed(s, spawn_stop_post(s, f, a)) /\ spawn_stop_post(s, f, a).rec = a.rec
        /\ Typed(s, Err(a)) /\ Err(a).rec = a.rec
    <3>1. Typed(s, Err(a)) /\ Err(a).rec = a.rec
      BY <1>1, ErrStep DEF Agree
    <3>2. Typed(s, spawn_stop_post(s, f, a)) /\ spawn_stop_post(s, f, a).rec = a.rec
      BY <1>1, StopPostStep DEF Agree
    <3> QED BY <3>1, <3>2
  <2> HIDE DEF b, w
  <2> QED BY <1>1, <2>1, <2>3, <2>4
<1> HIDE DEF b
<1>4. Typed(s, c) /\ c.rec = b.rec /\ c.err = b.err
  <2>1. c = b \/ c = CleanUnless(b, "stop_post_helper")
    BY DEF ReleaseAtRest
  <2> HIDE DEF c
  <2> QED BY <1>3, <2>1, StopPostStep DEF Agree
<1> HIDE DEF c
<1>5. Typed(s, d) /\ d.rec = c.rec /\ d.err = c.err
  <2> DEFINE w == [c EXCEPT !.stop_command = "running"]
  <2>1. d \in {c, send_signal(s, c, "term"), w}
    BY DEF StopCommand
  <2>2. Typed(s, w) /\ w.rec = c.rec /\ w.err = c.err
    BY <1>4, FieldsAre DEF Typed, Helpers, Deadlines, HelperValue
  <2> HIDE DEF d, w
  <2> QED BY <1>4, <2>1, <2>2, SignalStep DEF Agree
<1> HIDE DEF d
<1>6. Typed(s, e) /\ e.rec = d.rec /\ e.err = d.err
  BY <1>5, FieldsAre DEF Typed, Helpers, Deadlines, Deadline
<1> HIDE DEF e
<1>7. g.rec = e.rec /\ g.err = e.err
  BY <1>6, DeadlineSteps DEF Agree
<1> HIDE DEF g, y
<1>8. y.rec = a.rec /\ (~ x.err /\ x.rec.state # "Active" => ~ y.err)
  BY <1>1, <1>2, <1>3, <1>4, <1>5, <1>6, <1>7
<1> QED BY <1>8 DEF a, y

(***************************************************************************)
(* A stop of what is stopped in every respect leaves it so.                *)
(***************************************************************************)
LEMMA StopKeepsStopped ==
  ASSUME NEW s, NEW f, NEW x, Coherent(s, x), is_stopped(x)
  PROVE  is_stopped(stop_with_signal(s, f, x))
<1> DEFINE c == CallOff(x)
           e == StopRecord(s, x)
           a == CompleteUnspawned(e)
           b == StopActive(s, f, x.rec.state = "Active", a)
           r == ReleaseAtRest(b)
           d == StopCommand(s, f, r)
           h == [d EXCEPT !.stop_deadline = "none"]
           g == arm_stop_deadline(s, h)
           y == stop_with_signal(s, f, x)
<1>1. /\ x.rec.state \in {"Defined", "Exited", "Skipped", "Failed"} /\ x.rec.pid = NoPid
      /\ Typed(s, x) /\ x.rec \in R!ServiceRecord
  BY DEF is_stopped, Coherent, ProcessLinked, Typed
<1>2. Typed(s, c) /\ c.rec = x.rec /\ is_stopped(c)
  <2> DEFINE o == [x EXCEPT !.wants_running = FALSE, !.restart_after_stop = FALSE,
                            !.restart_at = "none", !.runtime_deadline = "none"]
  <2>1. Typed(s, c) /\ c.rec = x.rec
    BY CallOffGoes DEF Coherent
  <2>2. \A field \in Fields : o[field] = CASE field \in {"wants_running", "restart_after_stop"} -> FALSE
                                           [] field \in {"restart_at", "runtime_deadline"} -> "none"
                                           [] OTHER -> x[field]
    BY <1>1, FieldsAre DEF Typed
  <2>3. DOMAIN o = Fields
    BY <1>1, FieldsAre DEF Typed
  <2>4. c = kill(o, {"dbus_probe"})
    BY DEF CallOff
  <2> HIDE DEF o
  <2>5. \A field \in Fields : c[field] = IF field = "dbus_probe" THEN "none" ELSE o[field]
    BY <2>3, <2>4 DEF kill
  <2> HIDE DEF c
  <2> QED BY <1>1, <2>1, <2>2, <2>5, FieldsAre DEF is_stopped, Helpers
<1>3. e = c
  <2>1. e = [c EXCEPT !.rec = R!stop(@)]
    BY <1>1 DEF StopRecord, SignalIf, R!stop_signals
  <2> HIDE DEF c
  <2>2. R!stop(c.rec) = c.rec
    BY <1>1, <1>2 DEF R!stop
  <2> QED BY <1>2, <2>1, <2>2, FieldsAre DEF Typed
<1> HIDE DEF c, e
<1>4. a = c
  BY <1>1, <1>2, <1>3 DEF CompleteUnspawned, R!stop_completed_ok
<1> HIDE DEF a
<1>5. b = a
  BY <1>1 DEF StopActive
<1> HIDE DEF b
<1>6. Typed(s, r) /\ r.rec = b.rec /\ is_stopped(r)
  <2> DEFINE l == cleanup_directories(b)
  <2>1. r = b \/ r = l
    BY DEF ReleaseAtRest, CleanUnless
  <2>2. Typed(s, l) /\ l.rec = b.rec
    BY <1>2, <1>4, <1>5, CleanupStep DEF Agree
  <2>3. (\A field \in Fields \ {"prepared"} : l[field] = b[field]) /\ ~ l.prepared
    BY <1>2, <1>4, <1>5, FieldsAre DEF cleanup_directories, Typed
  <2> HIDE DEF l, r
  <2>4. is_stopped(l)
    <3>1. is_stopped(b)
      BY <1>2, <1>4, <1>5
    <3> QED BY <2>2, <2>3, <3>1, FieldsAre DEF is_stopped, Helpers
  <2> QED BY <1>2, <1>4, <1>5, <2>1, <2>2, <2>4
<1> HIDE DEF r
<1>7. d = r
  BY <1>1, <1>2, <1>4, <1>5, <1>6 DEF StopCommand
<1> HIDE DEF d
<1>8. is_stopped(h) /\ h.rec = r.rec
  <2>1. \A field \in Fields : h[field] = IF field = "stop_deadline" THEN "none" ELSE r[field]
    BY <1>6, <1>7, FieldsAre DEF Typed
  <2> HIDE DEF h
  <2> QED BY <1>6, <2>1, FieldsAre DEF is_stopped, Helpers
<1> HIDE DEF h
<1>9. g = h
  BY <1>1, <1>2, <1>4, <1>5, <1>6, <1>8 DEF arm_stop_deadline, StoppingProcess
<1>10. y = IF b.err THEN b ELSE g
  BY DEF stop_with_signal, Try, With, a, b, r, d, h, e
<1> HIDE DEF y
<1> QED BY <1>2, <1>4, <1>5, <1>8, <1>9, <1>10 DEF y

(***************************************************************************)
(* A stop does what the contract says.                                     *)
(***************************************************************************)
LEMMA StopSeen ==
  ASSUME NEW s, NEW f, NEW x, Coherent(s, x)
  PROVE  C!may_stop(Seen(s, x), Seen(s, stop_with_signal(s, f, x)))
<1> DEFINE y == stop_with_signal(s, f, x)
<1>1. /\ x.rec.state \in {"Starting", "Running"} => y.rec.state \in {"Stopping", "Exited"}
      /\ x.rec.state \in {"Active", "Backoff"} => y.rec.state = "Exited"
      /\ x.rec.state \notin {"Starting", "Running", "Active", "Backoff"} => y.rec = x.rec
  BY StopRecordSeen, StopRecSeen
<1>2. ~ y.wants_running /\ ~ y.restart_after_stop
  BY StopHolds DEF Held
<1>3. is_stopped(x) => is_stopped(y)
  BY StopKeepsStopped
<1> HIDE DEF y
<1>4. ASSUME x.rec.state \notin {"Starting", "Running", "Active", "Backoff"}
      PROVE  C!SameState(Seen(s, x), Seen(s, y))
  <2>1. y.rec = x.rec
    BY <1>1, <1>4
  <2>2. ready_for_dependency(s, y) = ready_for_dependency(s, x)
    BY <1>4, <2>1 DEF ready_for_dependency
  <2>3. /\ Seen(s, y).state = Seen(s, x).state /\ Seen(s, y).exit = Seen(s, x).exit
    BY <2>1, SeenFields
  <2>4. Seen(s, y).ready = Seen(s, x).ready
    BY <2>2, SeenFields
  <2>5. Seen(s, x).stopped => Seen(s, y).stopped
    BY <1>3, SeenFields
  <2> QED BY <2>3, <2>4, <2>5 DEF C!SameState
<1>5. C!Stopped(Seen(s, x), Seen(s, y))
  BY <1>1, <1>4, SeenFields DEF C!Stopped
<1> QED BY <1>2, <1>5, SeenFields DEF C!may_stop, y

(***************************************************************************)
(* A start that finds an exited service is postponed, or begins.           *)
(***************************************************************************)
LEMMA StartOfExited ==
  ASSUME NEW s, NEW f, NEW x, Coherent(s, x), ~ x.err, s.start_limit_burst \in Nat,
         x.rec.state = "Exited"
  PROVE  LET w == Seen(s, start(s, f, x)) IN
         (w.state = "Exited" /\ w.wants /\ w.again) \/ C!Begun(w)
<1> DEFINE w == Seen(s, start(s, f, x))
           v == Seen(s, x)
<1>1. CASE Waits(x)
  <2>1. C!Postponed(v, w)
    BY <1>1, StartSeen
  <2>2. v = [field \in ViewFields |-> v[field]] /\ v.state = "Exited"
    BY SeenFields
  <2> HIDE DEF v, w
  <2>3. w = [v EXCEPT !.wants = TRUE, !.again = TRUE]
    BY <2>1 DEF C!Postponed
  <2>4. w.state = "Exited" /\ w.wants /\ w.again
    BY <2>2, <2>3 DEF ViewFields
  <2> QED BY <2>4 DEF w
<1>2. CASE ~ Waits(x)
  BY <1>2, StartBegins, FreshIsBegun DEF Up
<1> QED BY <1>1, <1>2

(***************************************************************************)
(* A restart does what the contract says.                                  *)
(***************************************************************************)
LEMMA RestartSeen ==
  ASSUME NEW s, NEW f, NEW x, Sound(s, x), ~ x.err, s.start_limit_burst \in Nat
  PROVE  C!may_restart(Seen(s, x), Seen(s, restart(s, f, x)))
<1> DEFINE y == [x EXCEPT !.wants_running = TRUE, !.restart_at = "none"]
           z == stop_with_signal(s, f, y)
           w == [z EXCEPT !.wants_running = TRUE, !.restart_after_stop = TRUE]
           v == [y EXCEPT !.restart_after_stop = TRUE]
           o == [y EXCEPT !.rec = R!stop(@)]
           r == restart(s, f, x)
<1>1. Typed(s, x) /\ x.rec \in R!ServiceRecord /\ Coherent(s, x)
  BY DEF Sound, Coherent, Typed
<1>2. /\ Typed(s, y) /\ y.rec = x.rec /\ y.err = x.err
      /\ y.child = x.child /\ y.exit = x.exit /\ y.forking_pending = x.forking_pending
      /\ y.forking_parent_exited = x.forking_parent_exited
      /\ y.stop_command = x.stop_command /\ y.reload_command = x.reload_command
      /\ y.exec_condition_helper = x.exec_condition_helper
      /\ y.start_helper = x.start_helper /\ y.exec_conditions_done = x.exec_conditions_done
  BY <1>1, FieldsAre DEF Typed, Helpers, Deadlines, Deadline
<1>3. r = CASE x.rec.state \in {"Running", "Starting"} ->
                 (IF z.err THEN z ELSE IF z.rec.state = "Exited" THEN start(s, f, z) ELSE w)
            [] x.rec.state = "Stopping" -> v
            [] x.rec.state = "Backoff" -> start(s, f, o)
            [] x.rec.state = "Active" -> (IF z.err THEN z ELSE start(s, f, z))
            [] OTHER -> start(s, f, y)
  BY DEF restart, Try, With
<1>4. Waits(x) /\ ~ Up(x) => v = start(s, f, x) /\ start(s, f, y) = start(s, f, x)
  <2> DEFINE a == [x EXCEPT !.wants_running = TRUE, !.restart_after_stop = FALSE,
                            !.restart_at = "none"]
             b == [y EXCEPT !.wants_running = TRUE, !.restart_after_stop = FALSE,
                            !.restart_at = "none"]
  <2>1. b = a
    BY <1>1, FieldsAre DEF Typed
  <2>2. v = [a EXCEPT !.restart_after_stop = TRUE]
    BY <1>1, FieldsAre DEF Typed
  <2>3. y.active_stop_helper = x.active_stop_helper /\ y.stop_post_helper = x.stop_post_helper
    BY <1>1, FieldsAre DEF Typed
  <2>4. (Waits(y) <=> Waits(x)) /\ (Up(y) <=> Up(x))
    BY <1>2, <2>3 DEF Waits, Up
  <2>5. /\ Waits(x) /\ ~ Up(x) => start(s, f, x) = [a EXCEPT !.restart_after_stop = TRUE]
        /\ Waits(y) /\ ~ Up(y) => start(s, f, y) = [b EXCEPT !.restart_after_stop = TRUE]
    BY DEF start, Waits
  <2> HIDE DEF a, b, v
  <2> QED BY <2>1, <2>2, <2>4, <2>5
<1>5. (Waits(y) <=> Waits(x)) /\ (Up(y) <=> Up(x))
  BY <1>1, <1>2, FieldsAre DEF Typed, Waits, Up
<1> HIDE DEF y
<1>6. Coherent(s, y) /\ ~ y.err
  BY <1>1, <1>2 DEF Coherent, ProcessLinked, PhasesLinked, Passed
<1>7. /\ Sound(s, z) /\ ~ z.wants_running /\ ~ z.restart_after_stop
      /\ x.rec.state # "Active" => ~ z.err
      /\ x.rec.state \in {"Starting", "Running"} => z.rec.state \in {"Stopping", "Exited"}
      /\ x.rec.state = "Active" => z.rec.state = "Exited"
  <2>1. Sound(s, z) /\ ~ z.wants_running /\ ~ z.restart_after_stop
    BY <1>6, StopHolds DEF Held
  <2>2. x.rec.state # "Active" => ~ z.err
    BY <1>2, <1>6, StopRecSeen
  <2>3. z.rec = CompleteUnspawned(StopRecord(s, y)).rec
    BY <1>6, StopRecSeen
  <2> HIDE DEF z
  <2>4. /\ x.rec.state \in {"Starting", "Running"} => z.rec.state \in {"Stopping", "Exited"}
        /\ x.rec.state = "Active" => z.rec.state = "Exited"
    BY <1>2, <1>6, <2>3, StopRecordSeen
  <2> QED BY <2>1, <2>2, <2>4
<1> HIDE DEF z, v
<1>8. w.rec = z.rec /\ w.wants_running /\ w.restart_after_stop
  BY <1>7, FieldsAre DEF Sound, Coherent, Typed
<1> HIDE DEF w, r
<1> DEFINE V == Seen(s, x)
           W == Seen(s, r)
<1>9. /\ V.state = x.rec.state /\ W.state = r.rec.state
      /\ W.wants = r.wants_running /\ W.again = r.restart_after_stop
  BY SeenFields
<1>10. ASSUME NEW q, Coherent(s, q), ~ q.err, q.rec.state = "Exited", r = start(s, f, q)
       PROVE  (W.state = "Exited" /\ W.wants /\ W.again) \/ C!Begun(W)
  BY <1>10, StartOfExited
<1>11. CASE x.rec.state \in {"Starting", "Running"}
  <2>1. r = IF z.rec.state = "Exited" THEN start(s, f, z) ELSE w
    BY <1>3, <1>7, <1>11
  <2>2. CASE z.rec.state = "Exited"
    <3>1. (W.state = "Exited" /\ W.wants /\ W.again) \/ C!Begun(W)
      BY <1>7, <1>10, <1>11, <2>1, <2>2 DEF Sound
    <3> HIDE DEF V, W
    <3>2. C!may_restart(V, W)
      BY <1>9, <1>11, <3>1 DEF C!may_restart, C!service_was_up
    <3> QED BY <3>2 DEF V, W, r
  <2>3. CASE z.rec.state # "Exited"
    <3>1. W.state = "Stopping" /\ W.wants /\ W.again
      BY <1>7, <1>8, <1>9, <1>11, <2>1, <2>3
    <3> HIDE DEF V, W
    <3>2. C!may_restart(V, W)
      BY <1>9, <1>11, <3>1 DEF C!may_restart, C!service_was_up
    <3> QED BY <3>2 DEF V, W, r
  <2> QED BY <2>2, <2>3
<1>12. CASE x.rec.state = "Active"
  <2>1. r = IF z.err THEN z ELSE start(s, f, z)
    BY <1>3, <1>12
  <2>2. CASE z.err
    <3>1. W.state = "Exited" /\ ~ W.wants /\ ~ W.again
      BY <1>7, <1>9, <1>12, <2>1, <2>2
    <3> HIDE DEF V, W
    <3>2. C!may_restart(V, W)
      BY <1>9, <1>12, <3>1 DEF C!may_restart, C!service_was_up, C!may_stop, C!Stopped
    <3> QED BY <3>2 DEF V, W, r
  <2>3. CASE ~ z.err
    <3>1. (W.state = "Exited" /\ W.wants /\ W.again) \/ C!Begun(W)
      BY <1>7, <1>10, <1>12, <2>1, <2>3 DEF Sound
    <3> HIDE DEF V, W
    <3>2. C!may_restart(V, W)
      BY <1>9, <1>12, <3>1 DEF C!may_restart, C!service_was_up
    <3> QED BY <3>2 DEF V, W, r
  <2> QED BY <2>2, <2>3
<1>13. CASE x.rec.state = "Backoff"
  <2> DEFINE rec == R!stop(x.rec)
  <2>1. rec \in R!ServiceRecord /\ rec.pid = x.rec.pid /\ rec.state = "Exited"
    BY <1>1, <1>13, StopTransitions
  <2>2. o = [y EXCEPT !.rec = rec]
    BY <1>2, FieldsAre DEF Typed
  <2> HIDE DEF rec, o
  <2>3. Typed(s, o) /\ Around(y, o) /\ o.rec = rec /\ ~ o.err
    BY <1>2, <1>6, <2>1, <2>2, RecStep
  <2>4. Coherent(s, o)
    BY <1>2, <1>6, <1>13, <2>1, <2>3 DEF Coherent, Around, ProcessLinked, PhasesLinked, Passed
  <2>5. r = start(s, f, o)
    BY <1>3, <1>13
  <2>6. (W.state = "Exited" /\ W.wants /\ W.again) \/ C!Begun(W)
    BY <1>10, <2>1, <2>3, <2>4, <2>5
  <2> HIDE DEF V, W
  <2>7. C!may_restart(V, W)
    BY <1>9, <1>13, <2>6 DEF C!may_restart, C!service_was_up
  <2> QED BY <2>7 DEF V, W, r
<1>14. CASE x.rec.state \notin {"Starting", "Running", "Active", "Backoff"}
  <2>1. r = IF x.rec.state = "Stopping" THEN v ELSE start(s, f, y)
    BY <1>3, <1>14
  <2>2. ~ Up(x) /\ ~ Up(y)
    BY <1>5, <1>14 DEF Up
  <2>3. CASE Waits(x)
    <3>1. r = start(s, f, x)
      BY <1>4, <2>1, <2>2, <2>3
    <3>2. C!Postponed(V, W)
      BY <1>1, <2>3, <3>1, StartSeen
    <3> HIDE DEF V, W
    <3>3. C!may_restart(V, W)
      BY <1>9, <1>14, <3>2 DEF C!may_restart, C!service_was_up
    <3> QED BY <3>3 DEF V, W, r
  <2>4. CASE ~ Waits(x)
    <3>1. r = start(s, f, y) /\ x.rec.state # "Stopping"
      BY <2>1, <2>4 DEF Waits
    <3>2. Fresh(r)
      BY <1>5, <1>6, <2>2, <2>4, <3>1, StartBegins
    <3>3. C!Begun(W)
      BY <3>2, FreshIsBegun
    <3> HIDE DEF V, W
    <3>4. C!may_restart(V, W)
      BY <1>9, <1>14, <3>1, <3>3 DEF C!may_restart, C!service_was_up
    <3> QED BY <3>4 DEF V, W, r
  <2> QED BY <2>3, <2>4
<1> QED BY <1>11, <1>12, <1>13, <1>14

(***************************************************************************)
(* The same state, as the contract means it.                               *)
(***************************************************************************)
LEMMA SameSeen ==
  ASSUME NEW s, NEW x, NEW y, y.rec = x.rec, x.rec.state # "Running",
         is_stopped(x) => is_stopped(y)
  PROVE  C!SameState(Seen(s, x), Seen(s, y))
<1>1. ready_for_dependency(s, y) = ready_for_dependency(s, x)
  BY DEF ready_for_dependency
<1>2. Seen(s, y).ready = Seen(s, x).ready
  BY <1>1, SeenFields
<1>3. Seen(s, y).state = Seen(s, x).state /\ Seen(s, y).exit = Seen(s, x).exit
  BY SeenFields
<1>4. Seen(s, x).stopped => Seen(s, y).stopped
  BY SeenFields
<1> QED BY <1>2, <1>3, <1>4 DEF C!SameState

(***************************************************************************)
(* The reset of a failed service does what the contract says.              *)
(***************************************************************************)
LEMMA ResetSeen ==
  ASSUME NEW s, NEW x, Sound(s, x)
  PROVE  C!may_reset(Seen(s, x), Seen(s, reset_failed(x)))
<1> DEFINE c == cleanup_directories(x)
           rec == R!reset(x.rec)
           d == [c EXCEPT !.rec = rec]
           e == [d EXCEPT !.start_attempts = 0, !.runtime_deadline = "none"]
           r == reset_failed(x)
           V == Seen(s, x)
           W == Seen(s, r)
<1>1. Typed(s, x) /\ x.rec \in R!ServiceRecord
  BY DEF Sound, Coherent, Typed
<1>2. Typed(s, c) /\ Agree(x, c) /\ c.rec = x.rec
  BY <1>1, CleanupStep DEF Agree
<1>3. rec \in R!ServiceRecord /\ rec.state = "Defined"
  BY <1>1, FailTransitions
<1>4. r = IF x.rec.state # "Failed" THEN x ELSE e
  <2>1. [c EXCEPT !.rec = R!reset(@)] = d
    BY <1>2, FieldsAre DEF Typed
  <2> QED BY <2>1 DEF reset_failed
<1> HIDE DEF c, rec
<1>5. Typed(s, d) /\ Around(c, d) /\ d.rec = rec
  BY <1>2, <1>3, RecStep
<1> HIDE DEF d
<1>6. e.rec = d.rec /\ Wishes(d, e)
  BY <1>5, FieldsAre DEF Typed, Wishes
<1> HIDE DEF e, r
<1>7. /\ V.state = x.rec.state /\ V.wants = x.wants_running /\ V.again = x.restart_after_stop
      /\ W.state = r.rec.state /\ W.wants = r.wants_running /\ W.again = r.restart_after_stop
  BY SeenFields
<1>8. CASE x.rec.state # "Failed"
  <2> HIDE DEF V
  <2>1. W = V
    BY <1>4, <1>8 DEF V
  <2> HIDE DEF W
  <2>2. C!may_reset(V, W)
    BY <1>7, <1>8, <2>1 DEF C!may_reset, C!SameState
  <2> QED BY <2>2 DEF V, W, r
<1>9. CASE x.rec.state = "Failed"
  <2>1. r.rec.state = "Defined" /\ Wishes(x, r)
    BY <1>2, <1>3, <1>4, <1>5, <1>6, <1>9 DEF Wishes, Agree, Around
  <2> HIDE DEF V, W
  <2>2. C!may_reset(V, W)
    BY <1>7, <1>9, <2>1 DEF C!may_reset, Wishes
  <2> QED BY <2>2 DEF V, W, r
<1> QED BY <1>8, <1>9

(***************************************************************************)
(* A job timeout does what the contract says.                              *)
(***************************************************************************)
LEMMA JobTimeoutSeen ==
  ASSUME NEW s, NEW x, Sound(s, x)
  PROVE  C!may_time_out(Seen(s, x), Seen(s, mark_job_timeout(s, x)))
<1> DEFINE y == CallOff(x)
           helpers == {"start_helper", "exec_condition_helper", "start_post_helper"}
           failed(rec) == [y EXCEPT !.rec = rec, !.start_deadline = "none"]
           failing(rec) == EndProcess(s, kill(failed(rec), helpers))
           c == cleanup_directories(y)
           timed == [c EXCEPT !.rec = R!job_timed_out(@), !.start_deadline = "none"]
           r == mark_job_timeout(s, x)
           V == Seen(s, x)
           W == Seen(s, r)
<1>1. /\ Typed(s, y) /\ y.rec \in R!ServiceRecord
      /\ ~ y.wants_running /\ ~ y.restart_after_stop /\ y.rec = x.rec
  BY CallOffGoes DEF Sound, Coherent, Typed
<1>2. r = CASE R!job_timed_out_ok(x.rec) -> timed
            [] x.rec.state = "Starting" -> failing(R!start_timed_out(x.rec))
            [] x.rec.state = "Running" -> failing(R!start_failed(x.rec))
            [] OTHER -> y
  BY DEF mark_job_timeout
<1> HIDE DEF y
<1>3. ASSUME NEW z, NEW rec \in R!ServiceRecord, Typed(s, z), Wishes(y, z)
      PROVE  LET w == [z EXCEPT !.rec = rec, !.start_deadline = "none"] IN
             Typed(s, w) /\ Wishes(y, w) /\ w.rec = rec
  <2> DEFINE v == [z EXCEPT !.rec = rec]
             w == [v EXCEPT !.start_deadline = "none"]
  <2>1. Typed(s, v) /\ Around(z, v) /\ v.rec = rec
    BY <1>3, RecStep
  <2> HIDE DEF v
  <2>2. Typed(s, w) /\ Agree(v, w)
    BY <2>1, FieldsAre DEF Typed, Agree, Around, Helpers, Deadlines, Deadline
  <2> HIDE DEF w
  <2>3. Typed(s, w) /\ Wishes(y, w) /\ w.rec = rec
    BY <1>3, <2>1, <2>2 DEF Agree, Around, Wishes
  <2> QED BY <2>3 DEF w, v
<1>4. timed.rec.state = "Failed" /\ Wishes(y, timed)
  <2> DEFINE rec == R!job_timed_out(x.rec)
  <2>1. rec \in R!ServiceRecord /\ rec.state = "Failed"
    BY <1>1, FailTransitions
  <2>2. Typed(s, c) /\ Wishes(y, c) /\ c.rec = x.rec
    BY <1>1, CleanupStep DEF Agree, Around, Wishes
  <2> HIDE DEF c
  <2>3. timed = [c EXCEPT !.rec = rec, !.start_deadline = "none"]
    BY <2>2, FieldsAre DEF Typed
  <2> HIDE DEF rec, timed
  <2>4. Wishes(y, timed) /\ timed.rec = rec
    BY <1>3, <2>1, <2>2, <2>3
  <2> QED BY <2>1, <2>4
<1>5. ASSUME NEW rec \in R!ServiceRecord, rec.state \in {"Stopping", "Failed"}
      PROVE  failing(rec).rec.state \in {"Stopping", "Failed"} /\ Wishes(y, failing(rec))
  <2> DEFINE w == failed(rec)
             k == kill(w, helpers)
  <2>1. Typed(s, w) /\ Wishes(y, w) /\ w.rec = rec
    BY <1>1, <1>3 DEF Wishes
  <2> HIDE DEF w
  <2>2. Typed(s, k) /\ k.rec = w.rec /\ Wishes(w, k)
    BY <2>1, KillGoes, FieldsAre DEF Helpers, Wishes
  <2> HIDE DEF k
  <2>3. Agree(k, EndProcess(s, k))
    BY <2>2, DeadlineSteps
  <2>4. EndProcess(s, k).rec.state \in {"Stopping", "Failed"} /\ Wishes(y, EndProcess(s, k))
    BY <1>5, <2>1, <2>2, <2>3 DEF Agree, Around, Wishes
  <2> QED BY <2>4 DEF k, w
<1>6. /\ failing(R!start_timed_out(x.rec)).rec.state \in {"Stopping", "Failed"}
      /\ Wishes(y, failing(R!start_timed_out(x.rec)))
      /\ failing(R!start_failed(x.rec)).rec.state \in {"Stopping", "Failed"}
      /\ Wishes(y, failing(R!start_failed(x.rec)))
  <2> HIDE DEF failing
  <2> QED BY <1>1, <1>5, FailTransitions
<1> HIDE DEF timed, failing, r
<1>7. /\ V.state = x.rec.state
      /\ W.state = r.rec.state /\ W.wants = r.wants_running /\ W.again = r.restart_after_stop
  BY SeenFields
<1>8. /\ ~ r.wants_running /\ ~ r.restart_after_stop
      /\ x.rec.state \in {"Starting", "Running"} => r.rec.state \in {"Stopping", "Failed"}
      /\ x.rec.state \in {"Stopping", "Active"} => r = y
      /\ x.rec.state \notin {"Starting", "Running", "Stopping", "Active"} => r.rec.state = "Failed"
  <2>1. r \in {timed, failing(R!start_timed_out(x.rec)), failing(R!start_failed(x.rec)), y}
    BY <1>2
  <2>2. ~ r.wants_running /\ ~ r.restart_after_stop
    BY <1>1, <1>4, <1>6, <2>1 DEF Wishes
  <2>3. x.rec.state \in R!ServiceState
    BY DEF Sound, Coherent, Typed, R!ServiceRecord
  <2>4. R!job_timed_out_ok(x.rec) <=>
          x.rec.state \in {"Defined", "Exited", "Skipped", "Failed", "Backoff"}
    BY DEF R!job_timed_out_ok
  <2> QED BY <1>2, <1>4, <1>6, <2>2, <2>3, <2>4 DEF R!ServiceState
<1>9. x.rec.state \in {"Stopping", "Active"} => C!SameState(V, W)
  <2>1. x.rec.state \in {"Stopping", "Active"} => ~ is_stopped(x)
    BY DEF is_stopped
  <2> QED BY <1>1, <1>8, <2>1, SameSeen
<1> HIDE DEF V, W
<1>10. C!may_time_out(V, W)
  BY <1>7, <1>8, <1>9 DEF C!may_time_out
<1> QED BY <1>10 DEF V, W, r

(***************************************************************************)
(* A reload is not seen.                                                   *)
(***************************************************************************)
LEMMA ReloadSeen ==
  ASSUME NEW s, NEW f, NEW x, Sound(s, x)
  PROVE  Seen(s, reload(s, f, x)) = Seen(s, x)
<1> DEFINE r == reload(s, f, x)
           out == {"err", "reload_failed", "reload_command"}
<1>1. Typed(s, x)
  BY DEF Sound, Coherent
<1>2. CASE r = x
  <2> HIDE DEF r
  <2> QED BY <1>2 DEF r
<1>3. CASE r # x
  <2>1. \A field \in Fields \ out : r[field] = x[field]
    <3> DEFINE y == [x EXCEPT !.reload_failed = FALSE]
               z == [x EXCEPT !.reload_failed = FALSE, !.reload_command = "running"]
    <3>1. r \in {Err(x), Err(y), z}
      BY <1>3 DEF reload
    <3>2. \A field \in Fields \ out : y[field] = x[field] /\ z[field] = x[field]
      BY <1>1 DEF Typed
    <3>3. \A field \in Fields \ out : Err(x)[field] = x[field] /\ Err(y)[field] = y[field]
      BY <1>1 DEF Typed, Err
    <3> HIDE DEF r, y, z
    <3> QED BY <3>1, <3>2, <3>3
  <2>2. CASE x.rec.state = "Running"
    <3> HIDE DEF r
    <3>1. ready_for_dependency(s, r) = ready_for_dependency(s, x)
      BY <2>1, FieldsAre DEF ready_for_dependency
    <3>2. is_stopped(r) = FALSE /\ is_stopped(x) = FALSE
      BY <2>1, <2>2, FieldsAre DEF is_stopped
    <3>3. r.rec = x.rec /\ Wishes(x, r)
      BY <2>1, FieldsAre DEF Wishes
    <3> QED BY <3>1, <3>2, <3>3 DEF Seen, Wishes, r
  <2>3. CASE x.rec.state # "Running"
    <3>1. r = Err(x)
      BY <2>3 DEF reload
    <3>2. \A field \in Fields \ {"err"} : Err(x)[field] = x[field]
      BY <1>1 DEF Typed, Err
    <3> HIDE DEF r
    <3>3. ready_for_dependency(s, r) = ready_for_dependency(s, x)
      BY <3>1, <3>2, FieldsAre DEF ready_for_dependency
    <3>4. is_stopped(r) = is_stopped(x)
      BY <3>1, <3>2, FieldsAre DEF is_stopped, Helpers
    <3>5. r.rec = x.rec /\ Wishes(x, r)
      BY <3>1, <3>2, FieldsAre DEF Wishes
    <3> QED BY <3>3, <3>4, <3>5 DEF Seen, Wishes, r
  <2> QED BY <2>2, <2>3
<1> QED BY <1>2, <1>3

-----------------------------------------------------------------------------
(***************************************************************************)
(* Poll.  The parts before the teardown concern what starts or runs, and   *)
(* the later ones what ends.                                               *)
(***************************************************************************)

Early(x, y) ==
  IF x.rec.state \in {"Starting", "Running"} THEN y.rec.state # "Defined"
  ELSE y.rec = x.rec /\ y.restart_at = x.restart_at /\ Wishes(x, y)

(***************************************************************************)
(* The early parts compose, and other fields do not matter.                *)
(***************************************************************************)
LEMMA EarlyParts ==
  /\ \A x, y, z : Early(x, y) /\ Early(y, z) => Early(x, z)
  /\ \A x, y : Agree(x, y) => Early(x, y)
BY DEF Early, Wishes, Agree, Around

(***************************************************************************)
(* Readiness.                                                              *)
(***************************************************************************)
LEMMA ReadySeen ==
  ASSUME NEW s, NEW f, NEW x, Sound(s, x), x.rec.state = "Starting"
  PROVE  BecomeReady(s, f, x).rec.state \in {"Starting", "Running"}
<1> DEFINE ok == R!ready_ok(x.rec, x.rec.pid, x.rec.generation)
           rec == R!ready(x.rec)
           y == Commit(x, ok, rec)
           z == arm_runtime_limit(s, y)
           w == [z EXCEPT !.start_deadline = "none"]
           p == spawn_start_post(s, f, w)
<1>1. Typed(s, x) /\ x.rec \in R!ServiceRecord
  BY DEF Sound, Coherent, Typed
<1>2. BecomeReady(s, f, x) = IF y.err THEN y ELSE p
  <2> HIDE DEF y
  <2>1. Try(y, LAMBDA v : spawn_start_post(s, f,
                            [arm_runtime_limit(s, v) EXCEPT !.start_deadline = "none"]))
          = IF y.err THEN y ELSE p
    BY DEF Try, With
  <2> QED BY <2>1 DEF BecomeReady, y
<1>3. rec \in R!ServiceRecord /\ rec.state = "Running"
  <2>1. PICK pid \in Pids : TRUE
    BY ManagedAssumption
  <2> QED BY <1>1, <2>1, StartTransitions
<1> HIDE DEF ok, rec
<1>4. Typed(s, y) /\ y.rec \in {x.rec, rec}
  <2>1. CASE ok
    BY <1>1, <1>3, <2>1, RecStep DEF Commit
  <2>2. CASE ~ ok
    BY <1>1, <2>2, ErrStep DEF Commit, Agree
  <2> QED BY <2>1, <2>2
<1> HIDE DEF y
<1>5. Typed(s, z) /\ Agree(y, z)
  BY <1>4, DeadlineSteps
<1> HIDE DEF z
<1>6. Typed(s, w) /\ Agree(z, w)
  BY <1>5, FieldsAre DEF Typed, Agree, Around, Helpers, Deadlines, Deadline
<1> HIDE DEF w
<1>7. Agree(w, p)
  BY <1>6, StartPostSeen
<1> HIDE DEF p
<1> QED BY <1>2, <1>3, <1>4, <1>5, <1>6, <1>7 DEF Agree

(***************************************************************************)
(* A notification may report readiness, and concerns what starts or runs.  *)
(***************************************************************************)
LEMMA NotifySeen ==
  ASSUME NEW s, NEW f, NEW x, Sound(s, x)
  PROVE  Early(x, observe_notify(s, f, x))
<1> DEFINE y == [x EXCEPT !.notify = IF @ = "closed" THEN @ ELSE "open"]
           z == arm_watchdog(s, y)
           b == BecomeReady(s, f, z)
<1>1. Typed(s, x)
  BY DEF Sound, Coherent
<1>2. Typed(s, y) /\ Agree(x, y)
  BY <1>1, FieldsAre DEF Typed, Agree, Around, Helpers, Deadlines
<1>3. \/ observe_notify(s, f, x) = b /\ x.rec.state = "Starting"
      \/ observe_notify(s, f, x) = z
      \/ observe_notify(s, f, x) = y
  BY DEF observe_notify
<1> HIDE DEF y
<1>4. Typed(s, z) /\ Agree(x, z)
  BY <1>2, DeadlineSteps DEF Agree, Around
<1> HIDE DEF z
<1>5. x.rec.state = "Starting" => b.rec.state \in {"Starting", "Running"}
  <2>1. Sound(s, z) /\ z.rec = x.rec
    BY <1>4, AgreeGoes DEF Goes, Agree
  <2> QED BY <2>1, ReadySeen
<1> HIDE DEF b
<1>6. Early(x, z) /\ Early(x, y)
  BY <1>2, <1>4, EarlyParts
<1>7. x.rec.state = "Starting" => Early(x, b)
  BY <1>5 DEF Early
<1> QED BY <1>3, <1>6, <1>7

(***************************************************************************)
(* The D-Bus probe may report readiness too.                               *)
(***************************************************************************)
LEMMA DbusSeen ==
  ASSUME NEW s, NEW f, NEW x, Sound(s, x)
  PROVE  Early(x, observe_dbus(s, f, x))
<1> DEFINE y == [x EXCEPT !.dbus_probe = "none", !.dbus_ready = (x.rec.pid # NoPid)]
           z == [x EXCEPT !.dbus_probe = "running"]
           b == BecomeReady(s, f, y)
<1>1. Typed(s, x)
  BY DEF Sound, Coherent
<1>2. /\ Typed(s, y) /\ Agree(x, y)
      /\ Typed(s, z) /\ Agree(x, z)
  BY <1>1, FieldsAre DEF Typed, Agree, Around, Helpers, Deadlines, HelperValue
<1>3. \/ observe_dbus(s, f, x) = x
      \/ observe_dbus(s, f, x) = b /\ x.rec.state = "Starting"
      \/ observe_dbus(s, f, x) = z
  BY DEF observe_dbus
<1> HIDE DEF y, z
<1>4. x.rec.state = "Starting" => b.rec.state \in {"Starting", "Running"}
  <2>1. Sound(s, y) /\ y.rec = x.rec
    BY <1>2, AgreeGoes DEF Goes, Agree
  <2> QED BY <2>1, ReadySeen
<1> HIDE DEF b
<1>5. Early(x, z) /\ Early(x, x)
  BY <1>2, EarlyParts DEF Agree, Around
<1>6. x.rec.state = "Starting" => Early(x, b)
  BY <1>4 DEF Early
<1> QED BY <1>3, <1>5, <1>6

(***************************************************************************)
(* A service that ran out of memory is stopped or killed.                  *)
(***************************************************************************)
LEMMA OomSeen ==
  ASSUME NEW s, NEW f, NEW x, Sound(s, x)
  PROVE  Early(x, check_oom(s, f, x))
<1> DEFINE y == [x EXCEPT !.oom = FALSE]
           z == [y EXCEPT !.signal = "kill"]
           t == stop_with_signal(s, f, y)
<1>1. Typed(s, x)
  BY DEF Sound, Coherent
<1>2. Typed(s, y) /\ Agree(x, y)
  BY <1>1, FieldsAre DEF Typed, Agree, Around, Helpers, Deadlines
<1>3. \/ check_oom(s, f, x) = y
      \/ check_oom(s, f, x) = t /\ x.rec.state = "Running"
      \/ check_oom(s, f, x) = z
  BY DEF check_oom
<1> HIDE DEF y
<1>4. Agree(y, z)
  BY <1>2, FieldsAre DEF Typed, Agree, Around
<1> HIDE DEF z
<1>5. x.rec.state = "Running" => t.rec.state \in {"Stopping", "Exited"}
  <2>1. Coherent(s, y) /\ y.rec = x.rec
    BY <1>2, AgreeCoherent DEF Sound, Agree
  <2> QED BY <2>1, StopRecSeen, StopRecordSeen
<1> HIDE DEF t
<1>6. Early(x, y) /\ Early(x, z)
  BY <1>2, <1>4, EarlyParts
<1>7. x.rec.state = "Running" => Early(x, t)
  BY <1>5 DEF Early
<1> QED BY <1>3, <1>6, <1>7

(***************************************************************************)
(* The watchdog and the runtime limit concern a running service.           *)
(***************************************************************************)
LEMMA LimitsSeen ==
  ASSUME NEW s, NEW x, Sound(s, x)
  PROVE  Early(x, check_runtime_limit(s, check_watchdog(s, x)))
<1> DEFINE w == [x EXCEPT !.watchdog_deadline = "none"]
           y == check_watchdog(s, x)
           c == [y EXCEPT !.runtime_deadline = "none"]
           rec == R!runtime_timed_out(c.rec)
           d == [c EXCEPT !.rec = rec]
           e == EndProcess(s, d)
<1>1. Typed(s, x)
  BY DEF Sound, Coherent
<1>2. Typed(s, w) /\ Agree(x, w)
  BY <1>1, FieldsAre DEF Typed, Agree, Around, Helpers, Deadlines, Deadline
<1>3. y = x \/ y = send_signal(s, w, "abort")
  BY DEF check_watchdog
<1> HIDE DEF w, y
<1>4. Typed(s, y) /\ Agree(x, y)
  <2>1. Typed(s, send_signal(s, w, "abort")) /\ Agree(x, send_signal(s, w, "abort"))
    BY <1>2, SignalStep DEF Agree, Around
  <2> QED BY <1>1, <1>3, <2>1 DEF Agree, Around
<1>5. Typed(s, c) /\ c.rec = y.rec
  BY <1>4, FieldsAre DEF Typed, Helpers, Deadlines, Deadline
<1>6. \/ check_runtime_limit(s, y) = y
      \/ check_runtime_limit(s, y) = e /\ y.rec.state = "Running"
  <2>1. [c EXCEPT !.rec = R!runtime_timed_out(@)] = d
    BY <1>5, FieldsAre DEF Typed
  <2> QED BY <2>1 DEF check_runtime_limit
<1> HIDE DEF c
<1>7. /\ rec \in R!ServiceRecord
      /\ rec.state \in {"Stopping", "Failed"}
  BY <1>5, FailTransitions DEF Typed
<1> HIDE DEF rec
<1>8. Typed(s, d) /\ d.rec = rec
  BY <1>5, <1>7, RecStep
<1> HIDE DEF d
<1>9. e.rec = d.rec
  BY <1>8, DeadlineSteps DEF Agree
<1> HIDE DEF e
<1>10. Early(x, y) /\ (y.rec.state = "Running" => Early(y, e))
  BY <1>4, <1>7, <1>8, <1>9, EarlyParts DEF Early
<1>11. Early(x, check_runtime_limit(s, y))
  BY <1>6, <1>10, EarlyParts
<1> QED BY <1>11 DEF y

(***************************************************************************)
(* ExecCondition has ended: the start goes on, is skipped or has failed.   *)
(***************************************************************************)
LEMMA ConditionSeen ==
  ASSUME NEW s, NEW f, NEW x, Sound(s, x), ~ x.err, x.exec_condition_helper # "none"
  PROVE  Early(x, handle_exec_condition_exit(s, f, x))
<1> DEFINE y == [x EXCEPT !.exec_condition_helper = "none"]
           z == [y EXCEPT !.exec_conditions_done = TRUE]
           p == spawn(s, f, z)
           ended == [y EXCEPT !.start_deadline = "none"]
           e == mark_spawn_failed(s, ended)
           ok == R!condition_skipped_ok(x.rec, x.rec.generation)
           rec == R!condition_skipped(x.rec)
           w == Commit(ended, ok, rec)
           c == cleanup_directories(w)
           r == handle_exec_condition_exit(s, f, x)
<1>1. /\ Typed(s, x) /\ x.rec \in R!ServiceRecord /\ x.rec.pid = NoPid
      /\ x.rec.state \notin {"Running", "Stopping"}
      /\ x.start_helper = "none" /\ x.child = "none"
  BY DEF Sound, Coherent, Typed, ProcessLinked, PhasesLinked
<1>2. \/ z.rec.state = "Starting" /\ r = p
      \/ z.rec.state # "Starting" /\ r = z
      \/ r \in {w, c, e}
  <2>1. Try(w, cleanup_directories) = IF w.err THEN w ELSE cleanup_directories(w)
    BY DEF Try, With
  <2> HIDE DEF w
  <2>2. r = CASE x.exec_condition_helper = "ok" -> (IF z.rec.state = "Starting" THEN p ELSE z)
              [] x.exec_condition_helper = "skip" ->
                   (IF w.err THEN w ELSE cleanup_directories(w))
              [] OTHER -> e
    BY <1>1, <2>1 DEF handle_exec_condition_exit, w
  <2> QED BY <2>2
<1> HIDE DEF r
<1>3. /\ Typed(s, y) /\ y.rec = x.rec /\ y.err = x.err /\ y.child = x.child /\ y.exit = x.exit
      /\ y.forking_pending = x.forking_pending
      /\ y.forking_parent_exited = x.forking_parent_exited
      /\ y.stop_command = x.stop_command /\ y.reload_command = x.reload_command
      /\ y.exec_condition_helper = "none" /\ y.start_helper = "none"
      /\ y.wants_running = x.wants_running /\ y.restart_after_stop = x.restart_after_stop
      /\ y.restart_at = x.restart_at
  BY <1>1, FieldsAre DEF Typed, Helpers, Deadlines, HelperValue
<1> HIDE DEF y
<1>4. /\ Typed(s, z) /\ z.rec = y.rec /\ z.err = y.err /\ z.child = y.child /\ z.exit = y.exit
      /\ z.forking_pending = y.forking_pending
      /\ z.forking_parent_exited = y.forking_parent_exited
      /\ z.stop_command = y.stop_command /\ z.reload_command = y.reload_command
      /\ z.exec_condition_helper = "none" /\ z.start_helper = "none"
      /\ z.wants_running = y.wants_running /\ z.restart_after_stop = y.restart_after_stop
      /\ z.restart_at = y.restart_at
  BY <1>3, FieldsAre DEF Typed, Helpers, Deadlines
<1> HIDE DEF z
<1>5. z.rec.state = "Starting" => p.rec.state \in BegunStates
  <2>1. z.rec.state = "Starting" => Launchable(s, z)
    BY <1>1, <1>3, <1>4 DEF Launchable, Sound, Coherent, ProcessLinked, PhasesLinked, RestartLinked
  <2> QED BY <2>1, SpawnSeen
<1>6. /\ Typed(s, ended) /\ ended.rec = x.rec /\ ended.err = x.err
      /\ ended.restart_at = x.restart_at /\ Wishes(x, ended)
  BY <1>3, FieldsAre DEF Typed, Helpers, Deadlines, Deadline, Wishes
<1> HIDE DEF ended
<1>7. /\ Wishes(ended, e)
      /\ x.rec.state # "Starting" => e.rec = x.rec /\ e.restart_at = x.restart_at
      /\ x.rec.state = "Starting" => e.rec.state \in {"Backoff", "Failed"}
  BY <1>6, SpawnFailedSeen
<1>8. rec \in R!ServiceRecord /\ rec.state = "Skipped" /\ (ok <=> x.rec.state = "Starting")
  <2>1. PICK pid \in Pids : TRUE
    BY ManagedAssumption
  <2>2. rec \in R!ServiceRecord /\ rec.state = "Skipped"
    BY <1>1, <2>1, StartTransitions
  <2>3. ok <=> x.rec.state = "Starting"
    BY DEF R!condition_skipped_ok, R!check_generation
  <2> QED BY <2>2, <2>3
<1> HIDE DEF rec, ok, e, p
<1>9. /\ Typed(s, w) /\ Around(ended, w)
      /\ x.rec.state = "Starting" => w.rec = rec
      /\ x.rec.state # "Starting" => w.rec = x.rec
  <2>1. CASE ok
    <3>1. w = [ended EXCEPT !.rec = rec]
      BY <2>1 DEF Commit
    <3> HIDE DEF w
    <3>2. Typed(s, w) /\ Around(ended, w) /\ w.rec = rec
      BY <1>6, <1>8, <3>1, RecStep
    <3> QED BY <1>8, <2>1, <3>2
  <2>2. CASE ~ ok
    <3>1. w = Err(ended)
      BY <2>2 DEF Commit
    <3> HIDE DEF w
    <3>2. Typed(s, w) /\ Agree(ended, w)
      BY <1>6, <3>1, ErrStep
    <3> QED BY <1>6, <1>8, <2>2, <3>2 DEF Agree
  <2> QED BY <2>1, <2>2
<1> HIDE DEF w
<1>10. Agree(w, c)
  BY <1>9, CleanupStep
<1> HIDE DEF c
<1>11. CASE x.rec.state = "Starting"
  BY <1>1, <1>2, <1>3, <1>4, <1>5, <1>7, <1>8, <1>9, <1>10, <1>11 DEF Early, Agree, BegunStates, r
<1>12. CASE x.rec.state # "Starting"
  <2>1. r \in {z, w, c, e}
    BY <1>2, <1>3, <1>4, <1>12
  <2>2. \A q \in {z, w, c, e} : q.rec = x.rec /\ q.restart_at = x.restart_at /\ Wishes(x, q)
    BY <1>3, <1>4, <1>6, <1>7, <1>9, <1>10, <1>12 DEF Agree, Around, Wishes
  <2> QED BY <1>1, <1>12, <2>1, <2>2 DEF Early, r
<1> QED BY <1>11, <1>12

(***************************************************************************)
(* ExecStartPre has ended: the start goes on, or has failed.               *)
(***************************************************************************)
LEMMA StartHelperSeen ==
  ASSUME NEW s, NEW f, NEW x, Sound(s, x), ~ x.err, x.start_helper # "none"
  PROVE  Early(x, handle_start_helper_exit(s, f, x))
<1> DEFINE y == [x EXCEPT !.start_helper = "none"]
           z == [y EXCEPT !.start_deadline = "none"]
           e == mark_spawn_failed(s, z)
           p == spawn_main(s, f, y)
<1>1. Typed(s, x) /\ x.rec.state = "Starting" /\ x.rec.pid = NoPid /\ Passed(s, x)
  BY DEF Sound, Coherent, PhasesLinked
<1>2. handle_start_helper_exit(s, f, x) \in {e, p}
  BY <1>1 DEF handle_start_helper_exit
<1>3. /\ Typed(s, y) /\ y.rec = x.rec /\ y.err = x.err /\ y.child = x.child /\ y.exit = x.exit
      /\ y.forking_pending = x.forking_pending
      /\ y.forking_parent_exited = x.forking_parent_exited
      /\ y.stop_command = x.stop_command /\ y.reload_command = x.reload_command
      /\ y.exec_condition_helper = x.exec_condition_helper /\ y.start_helper = "none"
      /\ y.exec_conditions_done = x.exec_conditions_done
  BY <1>1, FieldsAre DEF Typed, Helpers, Deadlines, HelperValue
<1> HIDE DEF y
<1>4. Launchable(s, y) /\ Passed(s, y)
  BY <1>1, <1>3 DEF Launchable, Sound, Coherent, ProcessLinked, PhasesLinked, Passed,
                    RestartLinked
<1>5. p.rec.state \in {"Starting", "Running", "Failed", "Backoff"}
  BY <1>4, SpawnMainSeen
<1>6. Typed(s, z) /\ z.rec = y.rec /\ ~ z.err
  BY <1>3, FieldsAre DEF Typed, Helpers, Deadlines, Deadline
<1> HIDE DEF z
<1>7. e.rec.state \in {"Backoff", "Failed"}
  BY <1>1, <1>3, <1>6, SpawnFailedSeen
<1> HIDE DEF e, p
<1> QED BY <1>1, <1>2, <1>5, <1>7 DEF Early

(***************************************************************************)
(* ExecStartPost has ended: beside a running service it may fail it.       *)
(***************************************************************************)
LEMMA StartPostExitSeen ==
  ASSUME NEW s, NEW x, Sound(s, x)
  PROVE  Early(x, handle_start_post_exit(s, x))
<1> DEFINE y == [x EXCEPT !.start_post_helper = "none"]
           rec == R!start_failed(y.rec)
           z == [y EXCEPT !.rec = rec]
           w == [z EXCEPT !.start_deadline = "none", !.stop_deadline = "none"]
           e == EndProcess(s, w)
<1>1. Typed(s, x)
  BY DEF Sound, Coherent
<1>2. Typed(s, y) /\ Agree(x, y) /\ y.rec = x.rec
  BY <1>1, FieldsAre DEF Typed, Agree, Around, Helpers, Deadlines, HelperValue
<1>3. \/ handle_start_post_exit(s, x) = y
      \/ handle_start_post_exit(s, x) = e /\ x.rec.state = "Running"
  <2>1. [y EXCEPT !.rec = R!start_failed(@)] = z
    BY <1>2, FieldsAre DEF Typed
  <2> QED BY <2>1 DEF handle_start_post_exit
<1> HIDE DEF y
<1>4. rec \in R!ServiceRecord /\ rec.state \in {"Stopping", "Failed"}
  BY <1>2, FailTransitions DEF Typed
<1> HIDE DEF rec
<1>5. Typed(s, z) /\ z.rec = rec
  BY <1>2, <1>4, RecStep
<1> HIDE DEF z
<1>6. Typed(s, w) /\ w.rec = rec
  BY <1>5, FieldsAre DEF Typed, Helpers, Deadlines, Deadline
<1> HIDE DEF w
<1>7. e.rec = rec
  BY <1>6, DeadlineSteps DEF Agree
<1> HIDE DEF e
<1>8. Early(x, y) /\ (x.rec.state = "Running" => Early(x, e))
  BY <1>2, <1>4, <1>7, EarlyParts DEF Early
<1> QED BY <1>3, <1>8

(***************************************************************************)
(* The later parts.  What is at rest stays so unless a start was           *)
(* postponed, and a start that was begun in this poll is left alone.       *)
(***************************************************************************)

Later(x, y) ==
  /\ y.wants_running => x.wants_running
  /\ y.restart_after_stop => x.restart_after_stop
  /\ x.rec.state \in {"Defined", "Skipped", "Failed", "Active"} => y.rec = x.rec
  /\ x.rec.state = "Backoff" => y.rec = x.rec /\ y.restart_at = x.restart_at
  /\ x.rec.state = "Exited" =>
       y.rec = x.rec \/ (x.wants_running /\ x.restart_after_stop /\ Fresh(y))
  /\ x.rec.state = "Stopping" =>
       \/ y.rec.state \in {"Stopping", "Exited", "Failed"}
       \/ y.rec.state = "Backoff" /\ (y.wants_running => y.restart_at = "armed")
       \/ x.wants_running /\ x.restart_after_stop /\ Fresh(y)
  /\ y.rec.state = "Defined" => x.rec.state = "Defined"
  /\ Fresh(x) => Fresh(y)

\* The fields that Later speaks of are the same.
Steady(x, y) ==
  /\ y.rec = x.rec /\ Wishes(x, y) /\ y.restart_at = x.restart_at
  /\ y.child = x.child /\ y.forking_pending = x.forking_pending
  /\ y.forking_parent_exited = x.forking_parent_exited
  /\ y.start_deadline = x.start_deadline

(***************************************************************************)
(* The later parts compose, and other fields do not matter.                *)
(***************************************************************************)
LEMMA LaterParts ==
  /\ \A x, y, z : Later(x, y) /\ Later(y, z) => Later(x, z)
  /\ \A x, y : Steady(x, y) => Later(x, y)
  /\ \A x, y : Agree(x, y) /\ y.start_deadline = x.start_deadline => Steady(x, y)
<1>1. ASSUME NEW x, NEW y, NEW z, Later(x, y), Later(y, z) PROVE Later(x, z)
  <2>1. CASE x.rec.state = "Stopping"
    BY <1>1, <2>1 DEF Later
  <2>2. CASE x.rec.state = "Exited"
    BY <1>1, <2>2 DEF Later
  <2>3. CASE x.rec.state \notin {"Stopping", "Exited"}
    BY <1>1, <2>3 DEF Later
  <2> QED BY <2>1, <2>2, <2>3
<1>2. ASSUME NEW x, NEW y, Steady(x, y) PROVE Later(x, y)
  BY <1>2 DEF Steady, Later, Wishes, Fresh
<1>3. ASSUME NEW x, NEW y, Agree(x, y), y.start_deadline = x.start_deadline PROVE Steady(x, y)
  BY <1>3 DEF Steady, Wishes, Agree, Around
<1> QED BY <1>1, <1>2, <1>3

(***************************************************************************)
(* A postponed start begins when the teardown is over, and at no other     *)
(* time.                                                                   *)
(***************************************************************************)
LEMMA TeardownSeen ==
  ASSUME NEW s, NEW f, NEW x, Sound(s, x), ~ x.err, s.start_limit_burst \in Nat
  PROVE  Later(x, maybe_start_after_teardown(s, f, x))
<1> DEFINE y == start(s, f, x)
<1>1. \/ maybe_start_after_teardown(s, f, x) = x
      \/ /\ maybe_start_after_teardown(s, f, x) = y
         /\ x.restart_after_stop /\ x.wants_running
         /\ x.rec.state = "Exited" /\ ~ Waits(x)
  BY DEF maybe_start_after_teardown, Waits
<1>2. Later(x, x)
  BY LaterParts DEF Steady, Wishes
<1>3. x.rec.state = "Exited" /\ ~ Waits(x) => Fresh(y) /\ ~ y.restart_after_stop
  BY StartBegins DEF Sound, Up
<1> HIDE DEF y
<1>4. x.restart_after_stop /\ x.wants_running /\ x.rec.state = "Exited" /\ ~ Waits(x)
        => Later(x, y)
  BY <1>3 DEF Later, Fresh, BegunStates
<1> QED BY <1>1, <1>2, <1>4

(***************************************************************************)
(* The stop command of an active service, and ExecStopPost, have ended.    *)
(***************************************************************************)
LEMMA TornDownSeen ==
  ASSUME NEW s, NEW f, NEW x, Sound(s, x), ~ x.err, s.start_limit_burst \in Nat
  PROVE  Later(x, AfterActiveStop(s, f, x)) /\ Later(x, handle_stop_post_exit(s, f, x))
<1>1. Typed(s, x)
  BY DEF Sound, Coherent
<1>2. Later(x, AfterActiveStop(s, f, x))
  <2> DEFINE a == [x EXCEPT !.active_stop_helper = "none", !.stop_deadline = "none"]
             b == spawn_stop_post(s, f, a)
             c == CleanUnless(b, "stop_post_helper")
  <2>1. Typed(s, a) /\ Agree(x, a) /\ ~ a.err /\ a.start_deadline = x.start_deadline
    BY <1>1, FieldsAre DEF Typed, Agree, Around, Helpers, Deadlines, Deadline, HelperValue
  <2> HIDE DEF a
  <2>2. Typed(s, b) /\ Agree(a, b) /\ ~ b.err
    BY <2>1, StopPostStep
  <2>3. b.start_deadline = a.start_deadline
    BY <2>1, FieldsAre DEF Typed, spawn_stop_post
  <2> HIDE DEF b
  <2>4. Typed(s, c) /\ Agree(b, c) /\ ~ c.err
    BY <2>2, StopPostStep
  <2>5. c.start_deadline = b.start_deadline
    BY <2>2, FieldsAre DEF Typed, CleanUnless, cleanup_directories
  <2> HIDE DEF c
  <2>6. Sound(s, c)
    BY <2>1, <2>2, <2>4, AgreeGoes DEF Goes
  <2>7. Agree(x, c) /\ c.start_deadline = x.start_deadline
    BY <2>1, <2>2, <2>3, <2>4, <2>5 DEF Agree, Around
  <2>8. Later(c, maybe_start_after_teardown(s, f, c))
    BY <2>4, <2>6, TeardownSeen
  <2>9. Later(x, maybe_start_after_teardown(s, f, c))
    BY <2>7, <2>8, LaterParts
  <2> QED BY <2>9 DEF AfterActiveStop, a, b, c
<1>3. Later(x, handle_stop_post_exit(s, f, x))
  <2> DEFINE a == [x EXCEPT !.stop_post_helper = "none", !.stop_deadline = "none"]
             c == cleanup_directories(a)
  <2>1. Typed(s, a) /\ Agree(x, a) /\ ~ a.err /\ a.start_deadline = x.start_deadline
    BY <1>1, FieldsAre DEF Typed, Agree, Around, Helpers, Deadlines, Deadline, HelperValue
  <2> HIDE DEF a
  <2>2. Typed(s, c) /\ Agree(a, c) /\ ~ c.err
    BY <2>1, CleanupStep
  <2>3. c.start_deadline = a.start_deadline
    BY <2>1, FieldsAre DEF Typed, cleanup_directories
  <2> HIDE DEF c
  <2>4. Sound(s, c)
    BY <2>1, <2>2, AgreeGoes DEF Goes
  <2>5. Agree(x, c) /\ c.start_deadline = x.start_deadline
    BY <2>1, <2>2, <2>3 DEF Agree, Around
  <2>6. Later(c, maybe_start_after_teardown(s, f, c))
    BY <2>2, <2>4, TeardownSeen
  <2>7. Later(x, maybe_start_after_teardown(s, f, c))
    BY <2>5, <2>6, LaterParts
  <2> QED BY <2>7 DEF handle_stop_post_exit, a, c
<1> QED BY <1>2, <1>3

(***************************************************************************)
(* The reload command and the stop command have ended.                     *)
(***************************************************************************)
LEMMA CommandsSeen ==
  ASSUME NEW s, NEW x, Sound(s, x)
  PROVE  Later(x, handle_reload_exit(x)) /\ Later(x, handle_stop_exit(s, x))
<1>1. Typed(s, x)
  BY DEF Sound, Coherent
<1>2. Steady(x, handle_reload_exit(x))
  BY <1>1, FieldsAre DEF Typed, handle_reload_exit, Steady, Wishes
<1>3. Steady(x, handle_stop_exit(s, x))
  <2> DEFINE y == [x EXCEPT !.stop_command = "none"]
             z == [y EXCEPT !.signal = "term"]
  <2>1. handle_stop_exit(s, x) \in {y, z}
    BY DEF handle_stop_exit, send_signal
  <2>2. Steady(x, y) /\ y = [field \in Fields |-> y[field]]
    BY <1>1, FieldsAre DEF Typed, Steady, Wishes
  <2> HIDE DEF y
  <2>3. Steady(y, z)
    BY <2>2, FieldsAre DEF Steady, Wishes
  <2> HIDE DEF z
  <2> QED BY <2>1, <2>2, <2>3 DEF Steady, Wishes
<1> QED BY <1>2, <1>3, LaterParts

(***************************************************************************)
(* What follows an exit: the next restart has its time, or a postponed     *)
(* start begins.                                                           *)
(***************************************************************************)
LEMMA RestartAfterExitSeen ==
  ASSUME NEW s, NEW f, NEW x, Coherent(s, x), ~ x.err, s.start_limit_burst \in Nat,
         x.rec.state \in {"Active", "Exited", "Failed", "Backoff"}, x.start_deadline = "none"
  PROVE  LET y == RestartAfterExit(s, f, x) IN
         \/ y.rec = x.rec /\ x.rec.state # "Backoff"
         \/ y.rec.state = "Failed"
         \/ y.rec.state = "Backoff" /\ (y.wants_running => y.restart_at = "armed")
         \/ x.wants_running /\ x.restart_after_stop /\ Fresh(y)
<1> DEFINE y == [x EXCEPT !.restart_after_stop = FALSE]
           l == enforce_start_limit(s, y)
           c == [l EXCEPT !.err = FALSE]
           b == [l EXCEPT !.rec = R!start(@)]
           e == [x EXCEPT !.restart_at = "armed"]
           q == RestartAfterExit(s, f, x)
<1>1. Typed(s, x) /\ x.rec.pid = NoPid /\ x.start_helper = "none"
  BY DEF Coherent, ProcessLinked, PhasesLinked
<1>2. q = IF x.rec.state = "Backoff" /\ x.wants_running THEN e
          ELSE IF ~ (x.restart_after_stop /\ x.wants_running) THEN x
          ELSE IF l.err THEN c ELSE IF R!start_ok(l.rec) THEN spawn(s, f, b) ELSE l
  <2> HIDE DEF l
  <2>1. UnlessLimited(s, y, LAMBDA z : IF R!start_ok(z.rec)
                                       THEN spawn(s, f, [z EXCEPT !.rec = R!start(@)]) ELSE z)
          = IF l.err THEN c ELSE IF R!start_ok(l.rec) THEN spawn(s, f, b) ELSE l
    <3>1. With(l, LAMBDA z : IF z.err THEN [z EXCEPT !.err = FALSE]
                             ELSE IF R!start_ok(z.rec)
                             THEN spawn(s, f, [z EXCEPT !.rec = R!start(@)]) ELSE z)
            = IF l.err THEN c ELSE IF R!start_ok(l.rec) THEN spawn(s, f, b) ELSE l
      BY DEF With
    <3> QED BY <3>1 DEF UnlessLimited, l
  <2>2. x.rec.state = "Backoff" => ArmRestart(x) = e
    BY DEF ArmRestart
  <2> HIDE DEF b, c, e
  <2> QED BY <2>1, <2>2 DEF RestartAfterExit
<1> HIDE DEF q
<1>3. /\ Typed(s, y) /\ y.rec = x.rec /\ y.err = x.err /\ y.child = x.child /\ y.exit = x.exit
      /\ y.forking_pending = x.forking_pending
      /\ y.forking_parent_exited = x.forking_parent_exited
      /\ y.stop_command = x.stop_command /\ y.reload_command = x.reload_command
      /\ y.exec_condition_helper = x.exec_condition_helper /\ y.start_helper = x.start_helper
      /\ y.exec_conditions_done = x.exec_conditions_done
      /\ y.wants_running = x.wants_running /\ ~ y.restart_after_stop
      /\ y.restart_at = x.restart_at
  BY <1>1, FieldsAre DEF Typed, Helpers, Deadlines
<1>4. y.start_deadline = "none"
  BY <1>1, FieldsAre DEF Typed
<1> HIDE DEF y
<1>5. Coherent(s, y)
  BY <1>3 DEF Coherent, ProcessLinked, PhasesLinked, Passed
<1>6. /\ Coherent(s, l)
      /\ ~ l.err => Agree(y, l)
      /\ l.err => \/ l.rec.state = "Failed"
                  \/ Agree(y, l) /\ y.rec.state \in {"Running", "Active", "Stopping"}
  BY <1>3, <1>5, LimitEffect
<1>7. ~ l.err => l.start_deadline = "none"
  <2> DEFINE z == [y EXCEPT !.start_attempts = @ + 1]
             c1 == cleanup_directories(y)
             c2 == [c1 EXCEPT !.rec = R!start_limit_hit(@), !.wants_running = FALSE,
                              !.restart_at = "none"]
  <2>1. l \in {y, z, Err(c2), Err(y)}
    BY DEF enforce_start_limit
  <2>2. c2 = [field \in Fields |-> c2[field]]
    <3>1. c1 = [field \in Fields |-> c1[field]]
      BY <1>3, CleanupStep DEF Typed
    <3> HIDE DEF c1
    <3> QED BY <3>1, FieldsAre
  <2> HIDE DEF c2
  <2>3. Err(c2).err /\ Err(y).err
    BY <1>3, <2>2, FieldsAre DEF Typed, Err
  <2>4. z.start_deadline = y.start_deadline
    BY <1>3, FieldsAre DEF Typed
  <2> HIDE DEF l, z
  <2> QED BY <1>4, <2>1, <2>3, <2>4
<1> HIDE DEF l
<1>8. CASE x.rec.state = "Backoff" /\ x.wants_running
  <2>1. e.rec = x.rec /\ e.restart_at = "armed"
    BY <1>1, RestartAtStep DEF Deadline
  <2> HIDE DEF e
  <2>2. q = e
    BY <1>2, <1>8
  <2> QED BY <1>8, <2>1, <2>2 DEF q
<1>9. CASE /\ ~ (x.rec.state = "Backoff" /\ x.wants_running)
           /\ ~ (x.restart_after_stop /\ x.wants_running)
  BY <1>2, <1>9 DEF q
<1>10. CASE /\ ~ (x.rec.state = "Backoff" /\ x.wants_running)
            /\ x.restart_after_stop /\ x.wants_running
  <2>1. CASE l.err
    <3>1. c.rec = l.rec
      BY <1>6, ErrStep DEF Coherent, Agree
    <3> HIDE DEF c
    <3>2. q = c
      BY <1>2, <1>10, <2>1
    <3> QED BY <1>3, <1>6, <2>1, <3>1, <3>2 DEF Agree, q
  <2>2. CASE ~ l.err
    <3> DEFINE rec == R!start(l.rec)
    <3>1. b = [l EXCEPT !.rec = rec]
      BY <1>6, FieldsAre DEF Coherent, Typed
    <3>2. rec \in R!ServiceRecord /\ rec.state = "Starting" /\ rec.pid = NoPid
      <4>1. PICK pid \in Pids : TRUE
        BY ManagedAssumption
      <4> QED BY <1>6, <4>1, StartTransitions DEF Coherent, Typed
    <3> HIDE DEF rec, b
    <3>3. Typed(s, b) /\ Around(l, b) /\ b.rec = rec /\ ~ b.err
      BY <1>6, <2>2, <3>1, <3>2, RecStep DEF Coherent
    <3>4. b.start_deadline = l.start_deadline
      BY <1>6, <3>1, FieldsAre DEF Coherent, Typed
    <3>5. Launchable(s, b)
      BY <1>1, <1>3, <1>6, <2>2, <3>2, <3>3
         DEF Launchable, Sound, Coherent, Agree, Around, ProcessLinked, PhasesLinked,
             RestartLinked, Passed
    <3>6. b.wants_running /\ b.start_deadline = "none"
      BY <1>3, <1>6, <1>7, <1>10, <2>2, <3>3, <3>4 DEF Agree, Around
    <3>7. Fresh(spawn(s, f, b))
      BY <3>5, <3>6, SpawnSeen
    <3>8. l.rec = x.rec
      BY <1>3, <1>6, <2>2 DEF Agree
    <3>9. q = IF R!start_ok(l.rec) THEN spawn(s, f, b) ELSE l
      BY <1>2, <1>10, <2>2
    <3> QED BY <1>10, <3>7, <3>8, <3>9 DEF q
  <2> QED BY <2>1, <2>2
<1> QED BY <1>8, <1>9, <1>10

(***************************************************************************)
(* The main process of a service has ended.                                *)
(***************************************************************************)
LEMMA HandleExitSeen ==
  ASSUME NEW s, NEW f, NEW x, NEW exit \in R!ExitReason, Sound(s, x), ~ x.err,
         s.start_limit_burst \in Nat, x.rec.pid # NoPid, ~ Fresh(x)
  PROVE  Later(x, handle_exit(s, f, x, exit))
<1> DEFINE reason == IF s.main_ignore_failure THEN R!Exited(0) ELSE exit
           ok == R!exited_ok(x.rec, x.rec.pid, x.rec.generation)
           rec == R!exited(s, x.rec, reason)
           g == ProcessGone(x)
           y == Commit(g, ok, rec)
           p == spawn_stop_post(s, f, y)
           t == IF y.rec.state = "Active" THEN y ELSE CleanUnless(p, "stop_post_helper")
           q == RestartAfterExit(s, f, t)
<1>1. Typed(s, x) /\ x.rec \in R!ServiceRecord
  BY DEF Sound, Coherent, Typed
<1>2. handle_exit(s, f, x, exit) = IF y.err THEN y ELSE q
  <2> HIDE DEF y
  <2>1. Try(y, LAMBDA v : RestartAfterExit(s, f, IF v.rec.state = "Active" THEN v
                            ELSE CleanUnless(spawn_stop_post(s, f, v), "stop_post_helper")))
          = IF y.err THEN y ELSE q
    BY DEF Try, With
  <2> QED BY <2>1 DEF handle_exit, y
<1>3. reason \in R!ExitReason
  BY ExitedType
<1> HIDE DEF reason
<1>4. /\ rec \in R!ServiceRecord /\ rec.pid = NoPid
      /\ rec.state \in {"Active", "Exited", "Failed", "Backoff"}
      /\ x.rec.state = "Stopping" => rec.state # "Active"
  BY <1>1, <1>3, ExitTransition
<1>5. ok /\ x.rec.state \in {"Starting", "Running", "Stopping"}
  BY <1>1 DEF R!exited_ok, R!check_generation, Sound, Coherent, ProcessLinked
<1>6. /\ Typed(s, g) /\ g.rec = x.rec /\ g.err = x.err /\ g.child = "none"
      /\ ~ g.forking_pending /\ ~ g.forking_parent_exited
      /\ g.stop_command = "none" /\ g.reload_command = "none"
      /\ g.exec_condition_helper = x.exec_condition_helper
      /\ g.start_helper = x.start_helper
      /\ g.exec_conditions_done = x.exec_conditions_done
      /\ g.wants_running = x.wants_running /\ g.restart_after_stop = x.restart_after_stop
  BY <1>1, ProcessGoneStep
<1>7. g.start_deadline = "none"
  <2>1. Typed(s, kill(x, {"stop_command", "reload_command", "dbus_probe"}))
    BY <1>1, KillGoes DEF Helpers
  <2> QED BY <2>1, FieldsAre DEF Typed, ProcessGone
<1> HIDE DEF rec, g
<1>8. y = [g EXCEPT !.rec = rec]
  BY <1>5 DEF Commit
<1> HIDE DEF y
<1>9. Typed(s, y) /\ Around(g, y) /\ y.rec = rec /\ ~ y.err
  BY <1>4, <1>6, <1>8, RecStep
<1>10. y.start_deadline = "none"
  BY <1>6, <1>7, <1>8, FieldsAre DEF Typed
<1>11. x.start_helper = "none"
  BY DEF Sound, Coherent, PhasesLinked
<1>12. Coherent(s, y)
  BY <1>4, <1>6, <1>9, <1>11 DEF Sound, Coherent, Around, ProcessLinked, PhasesLinked, Passed
<1>13. Typed(s, p) /\ Agree(y, p) /\ ~ p.err
  BY <1>9, StopPostStep
<1>14. p.start_deadline = "none"
  BY <1>9, <1>10, FieldsAre DEF Typed, spawn_stop_post
<1> HIDE DEF p
<1>15. /\ Typed(s, CleanUnless(p, "stop_post_helper")) /\ Agree(p, CleanUnless(p, "stop_post_helper"))
       /\ ~ CleanUnless(p, "stop_post_helper").err
  BY <1>13, StopPostStep
<1>16. CleanUnless(p, "stop_post_helper").start_deadline = "none"
  BY <1>13, <1>14, FieldsAre DEF Typed, CleanUnless, cleanup_directories
<1>17. Typed(s, t) /\ Agree(y, t) /\ ~ t.err /\ t.start_deadline = "none"
  BY <1>9, <1>10, <1>13, <1>15, <1>16 DEF Agree, Around
<1> HIDE DEF t
<1>18. /\ Coherent(s, t) /\ t.rec = rec
       /\ t.wants_running = x.wants_running /\ t.restart_after_stop = x.restart_after_stop
  BY <1>6, <1>9, <1>12, <1>17, AgreeCoherent DEF Agree, Around
<1>19. \/ q.rec = t.rec /\ t.rec.state # "Backoff"
       \/ q.rec.state = "Failed"
       \/ q.rec.state = "Backoff" /\ (q.wants_running => q.restart_at = "armed")
       \/ t.wants_running /\ t.restart_after_stop /\ Fresh(q)
  BY <1>4, <1>17, <1>18, RestartAfterExitSeen
<1>20. handle_exit(s, f, x, exit) = q
  BY <1>2, <1>9
<1> HIDE DEF q
<1>21. Quiet(x, q)
  BY <1>20, ExitGoes DEF Goes
<1>22. /\ q.rec.state = "Defined" => x.rec.state = "Defined"
       /\ x.rec.state = "Stopping" =>
            \/ q.rec.state \in {"Stopping", "Exited", "Failed"}
            \/ q.rec.state = "Backoff" /\ (q.wants_running => q.restart_at = "armed")
            \/ x.wants_running /\ x.restart_after_stop /\ Fresh(q)
  BY <1>4, <1>18, <1>19 DEF Fresh, BegunStates
<1>23. Later(x, q)
  BY <1>5, <1>21, <1>22 DEF Later, Quiet
<1> QED BY <1>20, <1>23

(***************************************************************************)
(* The daemon of a forking launcher is adopted, waited for or given up.    *)
(***************************************************************************)
LEMMA AdoptSeen ==
  ASSUME NEW s, NEW f, NEW x, Sound(s, x), ~ x.err, s.start_limit_burst \in Nat,
         x.forking_pending, x.forking_parent_exited
  PROVE  Later(x, try_adopt_forking(s, f, x))
<1> DEFINE pid == CHOOSE p \in Pids : p # x.rec.pid
           ok == R!adopted_ok(x.rec, x.rec.generation)
           rec == R!adopted(x.rec, pid)
           y == Commit(x, ok, rec)
           a == [y EXCEPT !.daemon = FALSE]
           b == [y EXCEPT !.child = "alive", !.daemon = FALSE, !.adopted = TRUE,
                          !.forking_pending = FALSE, !.forking_parent_exited = FALSE,
                          !.start_deadline = "none"]
           c == arm_runtime_limit(s, b)
           r == try_adopt_forking(s, f, x)
<1>1. Typed(s, x) /\ x.rec \in R!ServiceRecord /\ ~ Fresh(x) /\ x.rec.pid # NoPid
  BY DEF Sound, Coherent, Typed, ProcessLinked, Fresh
<1>2. \/ r = handle_exit(s, f, x, R!Exited(1))
      \/ r = x
      \/ r = IF y.err THEN y ELSE IF f = "attach" THEN Err(a) ELSE spawn_start_post(s, f, c)
  <2> HIDE DEF y
  <2>1. Try(y, LAMBDA v : IF f = "attach" THEN Err([v EXCEPT !.daemon = FALSE])
                 ELSE spawn_start_post(s, f, arm_runtime_limit(s,
                        [v EXCEPT !.child = "alive", !.daemon = FALSE, !.adopted = TRUE,
                                  !.forking_pending = FALSE, !.forking_parent_exited = FALSE,
                                  !.start_deadline = "none"])))
          = IF y.err THEN y ELSE IF f = "attach" THEN Err(a) ELSE spawn_start_post(s, f, c)
    BY DEF Try, With
  <2> HIDE DEF a, b, c
  <2> QED BY <2>1 DEF try_adopt_forking, y
<1>3. Later(x, handle_exit(s, f, x, R!Exited(1)))
  BY <1>1, HandleExitSeen, ExitedType
<1>4. Later(x, x)
  BY LaterParts DEF Steady, Wishes
<1>5. Quiet(x, r)
  BY AdoptGoes DEF Goes
<1> HIDE DEF r
<1>6. CASE ~ ok
  <2>1. y = Err(x)
    BY <1>6 DEF Commit
  <2> HIDE DEF y, a, c
  <2>2. y.err /\ Steady(x, y)
    BY <1>1, <2>1, FieldsAre DEF Typed, Err, Steady, Wishes
  <2> QED BY <1>2, <1>3, <1>4, <2>2, LaterParts DEF r
<1>7. CASE ok
  <2>1. x.rec.state = "Running"
    BY <1>7 DEF R!adopted_ok
  <2>2. pid \in Pids
    BY ManagedAssumption
  <2> HIDE DEF pid
  <2>3. rec \in R!ServiceRecord /\ rec.state = "Running"
    BY <1>1, <2>1, <2>2, StartTransitions
  <2> HIDE DEF rec
  <2>4. y = [x EXCEPT !.rec = rec]
    BY <1>7 DEF Commit
  <2> HIDE DEF y
  <2>5. Typed(s, y) /\ y.rec = rec
    BY <1>1, <2>3, <2>4, RecStep
  <2>6. Typed(s, a) /\ a.rec = rec
    BY <2>5, FieldsAre DEF Typed, Helpers, Deadlines
  <2> HIDE DEF a
  <2>7. Err(a).rec = rec
    BY <2>6, ErrStep DEF Agree
  <2>8. Typed(s, b) /\ b.rec = rec
    <3>1. b = [field \in Fields |-> b[field]]
      BY <2>5, FieldsAre DEF Typed
    <3>2. /\ \A helper \in Helpers : b[helper] = y[helper]
          /\ \A deadline \in Deadlines : b[deadline] \in {y[deadline], "none"}
      BY <2>5, FieldsAre DEF Typed, Helpers, Deadlines
    <3>3. /\ b.rec = y.rec /\ b.child = "alive"
          /\ b.exit = y.exit /\ b.signal = y.signal /\ b.notify = y.notify
          /\ b.start_attempts = y.start_attempts
      BY <2>5, FieldsAre DEF Typed
    <3> HIDE DEF b
    <3> QED BY <2>5, <3>1, <3>2, <3>3 DEF Typed, Deadline
  <2> HIDE DEF b
  <2>9. Typed(s, c) /\ c.rec = rec
    BY <2>8, DeadlineSteps DEF Agree
  <2> HIDE DEF c
  <2>10. spawn_start_post(s, f, c).rec = rec
    BY <2>9, StartPostSeen DEF Agree
  <2>11. \/ r = handle_exit(s, f, x, R!Exited(1)) \/ r = x \/ r.rec = rec
    BY <1>2, <2>5, <2>7, <2>10
  <2>12. r.rec = rec => Later(x, r)
    BY <1>1, <1>5, <2>1, <2>3 DEF Later, Quiet
  <2> QED BY <1>3, <1>4, <2>11, <2>12 DEF r
<1> QED BY <1>6, <1>7

(***************************************************************************)
(* The exit of the main process is seen.                                   *)
(***************************************************************************)
LEMMA ObserveExitSeen ==
  ASSUME NEW s, NEW f, NEW x, Sound(s, x), ~ x.err, s.start_limit_burst \in Nat
  PROVE  Later(x, observe_exit(s, f, x))
<1> DEFINE exit == IF x.adopted THEN R!Exited(1) ELSE x.exit
           y == [x EXCEPT !.child = "none", !.exit = NoExit, !.forking_parent_exited = TRUE]
<1>1. Typed(s, x)
  BY DEF Sound, Coherent
<1>2. \/ observe_exit(s, f, x) = x
      \/ /\ observe_exit(s, f, x) = try_adopt_forking(s, f, y)
         /\ x.forking_pending /\ x.child = "ended"
      \/ /\ observe_exit(s, f, x) = handle_exit(s, f, x, exit)
         /\ x.child = "ended"
  BY DEF observe_exit
<1>3. x.child = "ended" => exit \in R!ExitReason /\ ~ Fresh(x) /\ x.rec.pid # NoPid
  BY ExitedType, ManagedAssumption DEF Sound, Coherent, ProcessLinked, Fresh
<1> HIDE DEF exit
<1>4. x.child = "ended" => Later(x, handle_exit(s, f, x, exit))
  BY <1>3, HandleExitSeen
<1>5. ASSUME x.forking_pending, x.child = "ended" PROVE Later(x, try_adopt_forking(s, f, y))
  <2>1. /\ Typed(s, y) /\ y.rec = x.rec /\ ~ y.err /\ y.child = "none"
        /\ y.forking_pending = x.forking_pending /\ y.forking_parent_exited
        /\ y.stop_command = x.stop_command /\ y.reload_command = x.reload_command
        /\ y.exec_condition_helper = x.exec_condition_helper /\ y.start_helper = x.start_helper
        /\ y.exec_conditions_done = x.exec_conditions_done
        /\ y.wants_running = x.wants_running /\ y.restart_after_stop = x.restart_after_stop
        /\ y.restart_at = x.restart_at
    BY <1>1, FieldsAre DEF Typed, Helpers, Deadlines
  <2> HIDE DEF y
  <2>2. Sound(s, y)
    BY <1>5, <2>1 DEF Sound, Coherent, ProcessLinked, PhasesLinked, Passed, RestartLinked
  <2>3. Later(y, try_adopt_forking(s, f, y))
    BY <1>5, <2>1, <2>2, AdoptSeen
  <2>4. Later(x, y)
    BY <1>3, <1>5, <2>1 DEF Later
  <2> QED BY <2>3, <2>4, LaterParts
<1>6. Later(x, x)
  BY LaterParts DEF Steady, Wishes
<1> QED BY <1>2, <1>4, <1>5, <1>6

(***************************************************************************)
(* The deadline of a stop.                                                 *)
(***************************************************************************)
LEMMA StopDeadlineSeen ==
  ASSUME NEW s, NEW f, NEW x, Sound(s, x), ~ x.err, s.start_limit_burst \in Nat
  PROVE  Later(x, check_active_stop_deadline(s, f, check_stop_deadline(s, x)))
<1> DEFINE y == check_stop_deadline(s, x)
           rec == R!stop_timed_out(x.rec)
           a == [x EXCEPT !.rec = rec]
           b == [a EXCEPT !.stop_deadline = "none"]
           c == SignalIf(R!stop_timed_out_signals(x.rec), s, b, "kill")
           helpers == {"start_helper", "exec_condition_helper", "start_post_helper",
                       "dbus_probe", "stop_command"}
           k == kill(c, helpers)
<1>1. Typed(s, x) /\ x.rec \in R!ServiceRecord
  BY DEF Sound, Coherent, Typed
<1>2. y = x \/ (y = k /\ x.rec.state = "Stopping")
  <2>1. [x EXCEPT !.rec = R!stop_timed_out(@), !.stop_deadline = "none"] = b
    BY <1>1, FieldsAre DEF Typed
  <2> QED BY <2>1 DEF check_stop_deadline
<1>3. x.rec.state = "Stopping" => rec = x.rec
  BY DEF R!stop_timed_out, Sound, Coherent, ProcessLinked
<1>4. rec \in R!ServiceRecord
  BY <1>1, StopTransitions
<1> HIDE DEF rec, y
<1>5. Typed(s, a) /\ Around(x, a) /\ a.rec = rec /\ a.err = x.err
  BY <1>1, <1>4, RecStep
<1> HIDE DEF a
<1>6. Typed(s, b) /\ Agree(a, b) /\ b.err = a.err
  BY <1>5, FieldsAre DEF Typed, Agree, Around, Helpers, Deadlines, Deadline
<1> HIDE DEF b
<1>7. Typed(s, c) /\ Agree(b, c) /\ c.err = b.err
  <2>1. c = b \/ c = send_signal(s, b, "kill")
    BY DEF SignalIf
  <2> HIDE DEF c
  <2> QED BY <1>6, <2>1, SignalStep DEF Agree, Around
<1> HIDE DEF c
<1>8. k.rec = c.rec /\ k.err = c.err /\ Wishes(c, k)
  BY <1>7, KillGoes, FieldsAre DEF Helpers, Wishes
<1>9. x.rec.state = "Stopping" => Goes(s, x, k)
  <2> SUFFICES ASSUME x.rec.state = "Stopping" PROVE Goes(s, x, k)
    OBVIOUS
  <2>1. Agree(x, c)
    BY <1>3, <1>5, <1>6, <1>7 DEF Agree, Around
  <2>2. Goes(s, x, c)
    BY <1>7, <2>1, AgreeGoes
  <2>3. Goes(s, c, k)
    BY <1>7, <2>2, KillGoes DEF Goes, Helpers
  <2> QED BY <2>2, <2>3, GoesOn
<1> HIDE DEF k
<1>10. /\ Later(x, y) /\ Sound(s, y) /\ ~ y.err
  <2>1. CASE y = x
    BY <2>1, LaterParts DEF Steady, Wishes
  <2>2. CASE y = k /\ x.rec.state = "Stopping"
    <3>1. y.rec = x.rec /\ Wishes(x, y) /\ ~ y.err
      BY <1>3, <1>5, <1>6, <1>7, <1>8, <2>2 DEF Agree, Around, Wishes
    <3>2. Later(x, y)
      BY <2>2, <3>1 DEF Later, Wishes, Fresh, BegunStates
    <3> QED BY <1>9, <2>2, <3>1, <3>2 DEF Goes
  <2> QED BY <1>2, <2>1, <2>2
<1>11. \/ check_active_stop_deadline(s, f, y) = y
       \/ check_active_stop_deadline(s, f, y) = AfterActiveStop(s, f, y)
  BY DEF check_active_stop_deadline
<1>12. Later(x, AfterActiveStop(s, f, y))
  BY <1>10, TornDownSeen, LaterParts
<1>13. Later(x, check_active_stop_deadline(s, f, y))
  BY <1>10, <1>11, <1>12
<1> QED BY <1>13 DEF y

(***************************************************************************)
(* The deadline of a start.                                                *)
(***************************************************************************)
LEMMA StartDeadlineSeen ==
  ASSUME NEW s, NEW x, Sound(s, x)
  PROVE  Later(x, check_start_deadline(s, x))
<1> DEFINE rec == R!start_timed_out(x.rec)
           a == [x EXCEPT !.rec = rec]
           b == [a EXCEPT !.start_deadline = "none"]
           k == kill(b, {"start_helper", "start_post_helper", "dbus_probe"})
           e == EndProcess(s, k)
<1>1. Typed(s, x) /\ x.rec \in R!ServiceRecord
  BY DEF Sound, Coherent, Typed
<1>2. \/ check_start_deadline(s, x) = x
      \/ /\ check_start_deadline(s, x) = e
         /\ x.rec.state = "Starting" /\ x.start_deadline = "due"
  <2>1. [x EXCEPT !.rec = R!start_timed_out(@), !.start_deadline = "none"] = b
    BY <1>1, FieldsAre DEF Typed
  <2> QED BY <2>1 DEF check_start_deadline
<1>3. rec \in R!ServiceRecord /\ rec.state \in {"Stopping", "Failed"}
  BY <1>1, FailTransitions
<1> HIDE DEF rec
<1>4. Typed(s, a) /\ Around(x, a) /\ a.rec = rec
  BY <1>1, <1>3, RecStep
<1> HIDE DEF a
<1>5. Typed(s, b) /\ Agree(a, b)
  BY <1>4, FieldsAre DEF Typed, Agree, Around, Helpers, Deadlines, Deadline
<1> HIDE DEF b
<1>6. Typed(s, k) /\ k.rec = b.rec /\ Wishes(b, k)
  BY <1>5, KillGoes, FieldsAre DEF Helpers, Wishes
<1> HIDE DEF k
<1>7. Agree(k, e)
  BY <1>6, DeadlineSteps
<1> HIDE DEF e
<1>8. e.rec = rec /\ Wishes(x, e)
  BY <1>4, <1>5, <1>6, <1>7 DEF Agree, Around, Wishes
<1>9. x.rec.state = "Starting" /\ x.start_deadline = "due" => Later(x, e)
  BY <1>3, <1>8 DEF Later, Wishes, Fresh
<1>10. Later(x, x)
  BY LaterParts DEF Steady, Wishes
<1> QED BY <1>2, <1>9, <1>10

(***************************************************************************)
(* The time of a restart has come: only a service that waits for it and is *)
(* still wanted is started.                                                *)
(***************************************************************************)
LEMMA RestartDueSeen ==
  ASSUME NEW s, NEW f, NEW x, Sound(s, x), ~ x.err, s.start_limit_burst \in Nat
  PROVE  LET y == check_restart_due(s, f, x) IN
         \/ y = x
         \/ /\ x.wants_running /\ x.rec.state = "Backoff" /\ x.restart_at = "due"
            /\ y.rec.state \in BegunStates /\ (y.wants_running \/ y.rec.state = "Failed")
<1> DEFINE y == [x EXCEPT !.restart_at = "none"]
           l == enforce_start_limit(s, y)
           c == [l EXCEPT !.err = FALSE]
           b == [l EXCEPT !.rec = R!restart_due(@)]
           r == check_restart_due(s, f, x)
<1>1. Typed(s, x)
  BY DEF Sound, Coherent
<1>2. \/ r = x
      \/ /\ r = IF l.err THEN c ELSE spawn(s, f, b)
         /\ x.wants_running /\ x.rec.state = "Backoff" /\ x.restart_at = "due"
  <2> HIDE DEF l
  <2>1. With(l, LAMBDA z : IF z.err THEN [z EXCEPT !.err = FALSE]
                           ELSE spawn(s, f, [z EXCEPT !.rec = R!restart_due(@)]))
          = IF l.err THEN c ELSE spawn(s, f, b)
    BY DEF With
  <2>2. UnlessLimited(s, y, LAMBDA z : spawn(s, f, [z EXCEPT !.rec = R!restart_due(@)]))
          = IF l.err THEN c ELSE spawn(s, f, b)
    BY <2>1 DEF UnlessLimited, l
  <2> HIDE DEF b, c
  <2> QED BY <2>2 DEF check_restart_due
<1> HIDE DEF r
<1>3. CASE x.wants_running /\ x.rec.state = "Backoff"
  <2>1. Coherent(s, y) /\ y.rec = x.rec /\ ~ y.err /\ y.wants_running = x.wants_running
    BY <1>1, RestartAtStep DEF Deadline, Sound
  <2> HIDE DEF y
  <2>2. /\ Coherent(s, l)
        /\ ~ l.err => Agree(y, l)
        /\ l.err => l.rec.state = "Failed"
    BY <1>3, <2>1, LimitEffect
  <2> HIDE DEF l
  <2>3. CASE l.err
    <3>1. c.rec = l.rec
      BY <2>2, ErrStep DEF Coherent, Agree
    <3> HIDE DEF c
    <3> QED BY <1>2, <2>2, <2>3, <3>1 DEF BegunStates, r
  <2>4. CASE ~ l.err
    <3> DEFINE rec == R!restart_due(l.rec)
    <3>1. b = [l EXCEPT !.rec = rec]
      BY <2>2, FieldsAre DEF Coherent, Typed
    <3>2. l.wants_running /\ l.rec.pid = NoPid /\ l.start_helper = "none"
      BY <1>3, <2>1, <2>2, <2>4 DEF Agree, Around, Coherent, ProcessLinked, PhasesLinked
    <3>3. rec \in R!ServiceRecord /\ rec.state = "Starting" /\ rec.pid = NoPid
      <4>1. PICK pid \in Pids : TRUE
        BY ManagedAssumption
      <4> QED BY <2>2, <3>2, <4>1, StartTransitions DEF Coherent, Typed
    <3> HIDE DEF b, rec
    <3>4. Typed(s, b) /\ Around(l, b) /\ b.rec = rec /\ ~ b.err
      BY <2>2, <2>4, <3>1, <3>3, RecStep DEF Coherent
    <3>5. Launchable(s, b) /\ b.wants_running
      BY <2>2, <2>4, <3>2, <3>3, <3>4
         DEF Launchable, Sound, Coherent, Around, ProcessLinked, PhasesLinked, RestartLinked,
             Passed
    <3>6. Wishes(b, spawn(s, f, b)) /\ spawn(s, f, b).rec.state \in BegunStates
      BY <3>5, SpawnSeen
    <3> QED BY <1>2, <2>4, <3>5, <3>6 DEF Wishes, r
  <2> QED BY <2>3, <2>4
<1>4. CASE ~ (x.wants_running /\ x.rec.state = "Backoff")
  BY <1>2, <1>4 DEF r
<1> QED BY <1>3, <1>4

(***************************************************************************)
(* A poll finds nothing to do for a service that is stopped in every       *)
(* respect.                                                                *)
(***************************************************************************)
LEMMA PollKeepsStopped ==
  ASSUME NEW s, NEW f, NEW x, Typed(s, x), ~ x.err, is_stopped(x)
  PROVE  is_stopped(poll(s, f, x))
<1> DEFINE a == observe_notify(s, f, x)
           b == Try(a, LAMBDA v : observe_dbus(s, f, v))
           c == Try(b, LAMBDA v : check_oom(s, f, v))
           d == Try(c, LAMBDA v : check_runtime_limit(s, check_watchdog(s, v)))
           e == WhenEnded(d, "exec_condition_helper", LAMBDA v : handle_exec_condition_exit(s, f, v))
           g == WhenEnded(e, "start_helper", LAMBDA v : handle_start_helper_exit(s, f, v))
           h == WhenEnded(g, "start_post_helper", LAMBDA v : handle_start_post_exit(s, v))
           i == WhenEnded(h, "active_stop_helper", LAMBDA v : AfterActiveStop(s, f, v))
           j == WhenEnded(i, "stop_post_helper", LAMBDA v : handle_stop_post_exit(s, f, v))
           k == WhenEnded(j, "reload_command", handle_reload_exit)
           l == WhenEnded(k, "stop_command", LAMBDA v : handle_stop_exit(s, v))
           n == Try(l, LAMBDA v : observe_exit(s, f, v))
           o == Try(n, LAMBDA v : IF v.forking_pending /\ v.forking_parent_exited
                                  THEN try_adopt_forking(s, f, v) ELSE v)
           p == Try(o, LAMBDA v : check_active_stop_deadline(s, f, check_stop_deadline(s, v)))
           q == Try(p, LAMBDA v : check_start_deadline(s, v))
           r == Try(q, LAMBDA v : check_restart_due(s, f, v))
<1>1. poll(s, f, x) = r
  BY DEF poll
<1>2. is_stopped(a) /\ ~ a.err /\ a = [field \in Fields |-> a[field]]
  <2> DEFINE y == [x EXCEPT !.notify = IF @ = "closed" THEN @ ELSE "open"]
  <2>1. x.notify = "closed"
    BY DEF is_stopped
  <2>2. a = y
    BY <2>1 DEF observe_notify
  <2>3. y = x
    BY <2>1, FieldsAre DEF Typed
  <2> QED BY <2>2, <2>3 DEF Typed
<1> HIDE DEF a
<1>3. b = a
  <2>1. b = IF a.err THEN a ELSE observe_dbus(s, f, a)
    BY DEF Try, With
  <2> HIDE DEF b
  <2> QED BY <1>2, <2>1 DEF is_stopped, observe_dbus
<1> HIDE DEF b
<1>4. is_stopped(c) /\ ~ c.err
  <2> DEFINE y == [a EXCEPT !.oom = FALSE]
  <2>1. c = IF b.err THEN b ELSE check_oom(s, f, b)
    BY DEF Try, With
  <2>2. c = y
    BY <1>2, <1>3, <2>1 DEF is_stopped, check_oom
  <2>3. \A field \in Fields \ {"oom"} : y[field] = a[field]
    BY <1>2
  <2> HIDE DEF c, y
  <2>4. is_stopped(y)
    BY <1>2, <2>3, FieldsAre DEF is_stopped, Helpers
  <2>5. ~ y.err
    BY <1>2, <2>3, FieldsAre
  <2> QED BY <2>2, <2>4, <2>5
<1> HIDE DEF c
<1>5. d = c
  <2>1. d = IF c.err THEN c ELSE check_runtime_limit(s, check_watchdog(s, c))
    BY DEF Try, With
  <2> HIDE DEF d
  <2>2. check_watchdog(s, c) = c /\ check_runtime_limit(s, c) = c
    BY <1>4 DEF is_stopped, check_watchdog, check_runtime_limit
  <2> QED BY <2>1, <2>2
<1> HIDE DEF d
<1>6. \A helper \in Helpers : c[helper] = "none"
  BY <1>4 DEF is_stopped
<1>7. e = c
  BY <1>5, <1>6 DEF WhenEnded, Try, With, Helpers
<1> HIDE DEF e
<1>8. g = c
  BY <1>6, <1>7 DEF WhenEnded, Try, With, Helpers
<1> HIDE DEF g
<1>9. h = c
  BY <1>6, <1>8 DEF WhenEnded, Try, With, Helpers
<1> HIDE DEF h
<1>10. i = c
  BY <1>6, <1>9 DEF WhenEnded, Try, With, Helpers
<1> HIDE DEF i
<1>11. j = c
  BY <1>6, <1>10 DEF WhenEnded, Try, With, Helpers
<1> HIDE DEF j
<1>12. k = c
  BY <1>6, <1>11 DEF WhenEnded, Try, With, Helpers
<1> HIDE DEF k
<1>13. l = c
  BY <1>6, <1>12 DEF WhenEnded, Try, With, Helpers
<1> HIDE DEF l
<1>14. n = c
  <2>1. n = IF l.err THEN l ELSE observe_exit(s, f, l)
    BY DEF Try, With
  <2> HIDE DEF n
  <2>2. observe_exit(s, f, c) = c
    BY <1>4 DEF is_stopped, observe_exit
  <2> QED BY <1>13, <2>1, <2>2
<1> HIDE DEF n
<1>15. o = c
  <2>1. o = IF n.err THEN n ELSE (IF n.forking_pending /\ n.forking_parent_exited
                                  THEN try_adopt_forking(s, f, n) ELSE n)
    BY DEF Try, With
  <2> HIDE DEF o
  <2> QED BY <1>4, <1>14, <2>1 DEF is_stopped
<1> HIDE DEF o
<1>16. p = c
  <2>1. p = IF o.err THEN o ELSE check_active_stop_deadline(s, f, check_stop_deadline(s, o))
    BY DEF Try, With
  <2> HIDE DEF p
  <2>2. check_stop_deadline(s, c) = c
    BY <1>4 DEF is_stopped, check_stop_deadline
  <2>3. check_active_stop_deadline(s, f, c) = c
    BY <1>6 DEF check_active_stop_deadline, Helpers
  <2> QED BY <1>15, <2>1, <2>2, <2>3
<1> HIDE DEF p
<1>17. q = c
  <2>1. q = IF p.err THEN p ELSE check_start_deadline(s, p)
    BY DEF Try, With
  <2> HIDE DEF q
  <2>2. check_start_deadline(s, c) = c
    BY <1>4 DEF is_stopped, check_start_deadline
  <2> QED BY <1>16, <2>1, <2>2
<1> HIDE DEF q
<1>18. r = c
  <2>1. r = IF q.err THEN q ELSE check_restart_due(s, f, q)
    BY DEF Try, With
  <2> HIDE DEF r
  <2>2. check_restart_due(s, f, c) = c
    BY <1>4 DEF is_stopped, check_restart_due
  <2> QED BY <1>17, <2>1, <2>2
<1> HIDE DEF r
<1> QED BY <1>1, <1>4, <1>18

(***************************************************************************)
(* The parts of a poll together: what starts or runs is dealt with first,  *)
(* then what ends, then the restarts that are due.                         *)
(***************************************************************************)
LEMMA PollSeen ==
  ASSUME NEW s, NEW f, NEW x, Sound(s, x), ~ x.err, s.start_limit_burst \in Nat
  PROVE  C!may_poll(Seen(s, x), Seen(s, poll(s, f, x)))
<1> DEFINE a == observe_notify(s, f, x)
           b == Try(a, LAMBDA v : observe_dbus(s, f, v))
           c == Try(b, LAMBDA v : check_oom(s, f, v))
           d == Try(c, LAMBDA v : check_runtime_limit(s, check_watchdog(s, v)))
           e == WhenEnded(d, "exec_condition_helper", LAMBDA v : handle_exec_condition_exit(s, f, v))
           g == WhenEnded(e, "start_helper", LAMBDA v : handle_start_helper_exit(s, f, v))
           h == WhenEnded(g, "start_post_helper", LAMBDA v : handle_start_post_exit(s, v))
           i == WhenEnded(h, "active_stop_helper", LAMBDA v : AfterActiveStop(s, f, v))
           j == WhenEnded(i, "stop_post_helper", LAMBDA v : handle_stop_post_exit(s, f, v))
           k == WhenEnded(j, "reload_command", handle_reload_exit)
           l == WhenEnded(k, "stop_command", LAMBDA v : handle_stop_exit(s, v))
           n == Try(l, LAMBDA v : observe_exit(s, f, v))
           o == Try(n, LAMBDA v : IF v.forking_pending /\ v.forking_parent_exited
                                  THEN try_adopt_forking(s, f, v) ELSE v)
           p == Try(o, LAMBDA v : check_active_stop_deadline(s, f, check_stop_deadline(s, v)))
           q == Try(p, LAMBDA v : check_start_deadline(s, v))
           r == Try(q, LAMBDA v : check_restart_due(s, f, v))
<1>1. Sound(s, a) /\ Early(x, a)
  BY NotifyGoes, NotifySeen DEF Goes
<1>2. poll(s, f, x) = r
  BY DEF poll
<1> HIDE DEF a
<1>3. Sound(s, b) /\ Early(x, b)
  <2>1. b = IF a.err THEN a ELSE observe_dbus(s, f, a)
    BY DEF Try, With
  <2> HIDE DEF b
  <2> QED BY <1>1, <2>1, DbusGoes, DbusSeen, EarlyParts DEF Goes
<1> HIDE DEF b
<1>4. Sound(s, c) /\ Early(x, c)
  <2>1. c = IF b.err THEN b ELSE check_oom(s, f, b)
    BY DEF Try, With
  <2> HIDE DEF c
  <2> QED BY <1>3, <2>1, OomGoes, OomSeen, EarlyParts DEF Goes
<1> HIDE DEF c
<1>5. Sound(s, d) /\ Early(x, d)
  <2>1. d = IF c.err THEN c ELSE check_runtime_limit(s, check_watchdog(s, c))
    BY DEF Try, With
  <2> HIDE DEF d
  <2> QED BY <1>4, <2>1, LimitsGo, LimitsSeen, EarlyParts DEF Goes
<1> HIDE DEF d
<1>6. Sound(s, e) /\ Early(x, e)
  <2>1. e = IF d.err \/ d.exec_condition_helper \in {"none", "running"}
            THEN d ELSE handle_exec_condition_exit(s, f, d)
    BY DEF WhenEnded, Try, With
  <2> HIDE DEF e
  <2> QED BY <1>5, <2>1, ConditionGoes, ConditionSeen, EarlyParts DEF Goes
<1> HIDE DEF e
<1>7. Sound(s, g) /\ Early(x, g)
  <2>1. g = IF e.err \/ e.start_helper \in {"none", "running"}
            THEN e ELSE handle_start_helper_exit(s, f, e)
    BY DEF WhenEnded, Try, With
  <2> HIDE DEF g
  <2> QED BY <1>6, <2>1, StartHelperGoes, StartHelperSeen, EarlyParts DEF Goes
<1> HIDE DEF g
<1>8. Sound(s, h) /\ Early(x, h)
  <2>1. h = IF g.err \/ g.start_post_helper \in {"none", "running"}
            THEN g ELSE handle_start_post_exit(s, g)
    BY DEF WhenEnded, Try, With
  <2> HIDE DEF h
  <2> QED BY <1>7, <2>1, StartPostExitGoes, StartPostExitSeen, EarlyParts DEF Goes
<1> HIDE DEF h
<1>9. Sound(s, i) /\ Later(h, i)
  <2>1. i = IF h.err \/ h.active_stop_helper \in {"none", "running"}
            THEN h ELSE AfterActiveStop(s, f, h)
    BY DEF WhenEnded, Try, With
  <2> HIDE DEF i
  <2>2. Later(h, h)
    BY LaterParts DEF Steady, Wishes
  <2> QED BY <1>8, <2>1, <2>2, TornDownGoes, TornDownSeen DEF Goes
<1> HIDE DEF i
<1>10. Sound(s, j) /\ Later(h, j)
  <2>1. j = IF i.err \/ i.stop_post_helper \in {"none", "running"}
            THEN i ELSE handle_stop_post_exit(s, f, i)
    BY DEF WhenEnded, Try, With
  <2> HIDE DEF j
  <2> QED BY <1>9, <2>1, TornDownGoes, TornDownSeen, LaterParts DEF Goes
<1> HIDE DEF j
<1>11. Sound(s, k) /\ Later(h, k)
  <2>1. k = IF j.err \/ j.reload_command \in {"none", "running"} THEN j ELSE handle_reload_exit(j)
    BY DEF WhenEnded, Try, With
  <2> HIDE DEF k
  <2> QED BY <1>10, <2>1, CommandsGo, CommandsSeen, LaterParts DEF Goes
<1> HIDE DEF k
<1>12. Sound(s, l) /\ Later(h, l)
  <2>1. l = IF k.err \/ k.stop_command \in {"none", "running"} THEN k ELSE handle_stop_exit(s, k)
    BY DEF WhenEnded, Try, With
  <2> HIDE DEF l
  <2> QED BY <1>11, <2>1, CommandsGo, CommandsSeen, LaterParts DEF Goes
<1> HIDE DEF l
<1>13. Sound(s, n) /\ Later(h, n)
  <2>1. n = IF l.err THEN l ELSE observe_exit(s, f, l)
    BY DEF Try, With
  <2> HIDE DEF n
  <2> QED BY <1>12, <2>1, ObserveExitGoes, ObserveExitSeen, LaterParts DEF Goes
<1> HIDE DEF n
<1>14. Sound(s, o) /\ Later(h, o)
  <2>1. o = IF n.err THEN n ELSE (IF n.forking_pending /\ n.forking_parent_exited
                                  THEN try_adopt_forking(s, f, n) ELSE n)
    BY DEF Try, With
  <2> HIDE DEF o
  <2> QED BY <1>13, <2>1, AdoptGoes, AdoptSeen, LaterParts DEF Goes
<1> HIDE DEF o
<1>15. Sound(s, p) /\ Later(h, p)
  <2>1. p = IF o.err THEN o ELSE check_active_stop_deadline(s, f, check_stop_deadline(s, o))
    BY DEF Try, With
  <2> HIDE DEF p
  <2> QED BY <1>14, <2>1, StopDeadlineGoes, StopDeadlineSeen, LaterParts DEF Goes
<1> HIDE DEF p
<1>16. Sound(s, q) /\ Later(h, q)
  <2>1. q = IF p.err THEN p ELSE check_start_deadline(s, p)
    BY DEF Try, With
  <2> HIDE DEF q
  <2> QED BY <1>15, <2>1, StartDeadlineGoes, StartDeadlineSeen, LaterParts DEF Goes
<1> HIDE DEF q
<1>17. \/ r = q
       \/ /\ q.wants_running /\ q.rec.state = "Backoff" /\ q.restart_at = "due"
          /\ r.rec.state \in BegunStates /\ (r.wants_running \/ r.rec.state = "Failed")
  <2>1. r = IF q.err THEN q ELSE check_restart_due(s, f, q)
    BY DEF Try, With
  <2> HIDE DEF r
  <2> QED BY <1>16, <2>1, RestartDueSeen
<1>18. Quiet(x, r)
  BY <1>2, PollGoes DEF Goes
<1>19. is_stopped(x) => is_stopped(r)
  BY <1>2, PollKeepsStopped DEF Sound, Coherent
<1> HIDE DEF r
<1> DEFINE v == Seen(s, x)
           w == Seen(s, r)
<1>20. /\ v.state = x.rec.state /\ v.wants = x.wants_running /\ v.again = x.restart_after_stop
       /\ w.state = r.rec.state /\ w.wants = r.wants_running /\ w.again = r.restart_after_stop
  BY SeenFields
<1>21. /\ r.rec = x.rec /\ x.rec.state # "Running" => C!SameState(v, w)
       /\ Fresh(r) => C!Begun(w)
       /\ r.rec.state \in BegunStates /\ (r.wants_running \/ r.rec.state = "Failed") => C!Begun(w)
  BY <1>19, <1>20, SameSeen, FreshIsBegun DEF C!Begun, BegunStates
<1>22. x.rec.state \in R!ServiceState
  BY DEF Sound, Coherent, Typed, R!ServiceRecord
<1> HIDE DEF v, w
<1>23. (w.wants => v.wants) /\ (w.again => v.again)
  BY <1>18, <1>20 DEF Quiet
<1>24. CASE x.rec.state \in {"Defined", "Skipped", "Failed", "Active"}
  <2>1. r.rec = x.rec
    BY <1>8, <1>16, <1>17, <1>24 DEF Early, Later
  <2> QED BY <1>2, <1>20, <1>21, <1>23, <1>24, <2>1 DEF C!may_poll, v, w
<1>25. CASE x.rec.state = "Exited"
  <2>1. h.rec = x.rec /\ Wishes(x, h)
    BY <1>8, <1>25 DEF Early
  <2>2. q.rec = x.rec \/ (x.wants_running /\ x.restart_after_stop /\ Fresh(q))
    BY <1>16, <1>25, <2>1 DEF Later, Wishes
  <2>3. C!SameState(v, w) \/ (v.wants /\ v.again /\ C!Begun(w))
    BY <1>17, <1>20, <1>21, <1>25, <2>2
  <2> QED BY <1>2, <1>20, <1>23, <1>25, <2>3 DEF C!may_poll, v, w
<1>26. CASE x.rec.state = "Backoff"
  <2>1. h.rec = x.rec /\ Wishes(x, h)
    BY <1>8, <1>26 DEF Early
  <2>2. q.rec = x.rec /\ (q.wants_running => x.wants_running)
    BY <1>16, <1>26, <2>1 DEF Later, Wishes
  <2>3. C!SameState(v, w) \/ (v.wants /\ C!Begun(w))
    BY <1>17, <1>20, <1>21, <1>26, <2>2
  <2> QED BY <1>2, <1>20, <1>23, <1>26, <2>3 DEF C!may_poll, v, w
<1>27. CASE x.rec.state = "Stopping"
  <2>1. h.rec = x.rec /\ Wishes(x, h)
    BY <1>8, <1>27 DEF Early
  <2>2. \/ q.rec.state \in {"Stopping", "Exited", "Failed"}
        \/ q.rec.state = "Backoff" /\ (q.wants_running => q.restart_at = "armed")
        \/ x.wants_running /\ x.restart_after_stop /\ Fresh(q)
    BY <1>16, <1>27, <2>1 DEF Later, Wishes
  <2>3. \/ w.state \in {"Stopping", "Exited", "Failed", "Backoff"}
        \/ v.wants /\ v.again /\ C!Begun(w)
    BY <1>17, <1>20, <1>21, <2>2
  <2> QED BY <1>2, <1>20, <1>23, <1>27, <2>3 DEF C!may_poll, v, w
<1>28. CASE x.rec.state \in {"Starting", "Running"}
  <2>1. r.rec.state # "Defined"
    BY <1>8, <1>16, <1>17, <1>28 DEF Early, Later, BegunStates
  <2> QED BY <1>2, <1>20, <1>23, <1>28, <2>1 DEF C!may_poll, v, w
<1> QED BY <1>22, <1>24, <1>25, <1>26, <1>27, <1>28 DEF R!ServiceState

(***************************************************************************)
(* A lost mount point or device is seen just before the poll.              *)
(***************************************************************************)
LEMMA LostPollSeen ==
  ASSUME NEW s, NEW f, NEW x, Sound(s, x), ~ x.err, s.start_limit_burst \in Nat
  PROVE  C!may_poll(Seen(s, x), Seen(s, poll(s, f, refresh_lost_mount(s, x))))
<1> DEFINE y == refresh_lost_mount(s, x)
           z == poll(s, f, y)
           c == cleanup_directories(x)
           e == [c EXCEPT !.wants_running = FALSE, !.rec = R!stop(@)]
<1>1. Typed(s, x) /\ x.rec \in R!ServiceRecord
  BY DEF Sound, Coherent, Typed
<1>2. y = x \/ (y = e /\ x.rec.state = "Active")
  BY DEF refresh_lost_mount
<1>3. Typed(s, c) /\ Agree(x, c)
  BY <1>1, CleanupStep
<1> HIDE DEF c
<1>4. e.rec = R!stop(c.rec) /\ e.wants_running = FALSE /\ e.restart_after_stop = c.restart_after_stop
  BY <1>3, FieldsAre DEF Typed
<1>5. x.rec.state = "Active" =>
        e.rec.state = "Exited" /\ ~ e.wants_running /\ e.restart_after_stop = x.restart_after_stop
  <2> HIDE DEF e
  <2> QED BY <1>1, <1>3, <1>4, StopTransitions DEF Agree, Around
<1> HIDE DEF e
<1>6. Sound(s, y) /\ ~ y.err
  BY LostMountGoes DEF Goes
<1> HIDE DEF y
<1>7. C!may_poll(Seen(s, y), Seen(s, z))
  BY <1>6, PollSeen
<1> HIDE DEF z
<1>8. CASE y = x
  BY <1>7, <1>8 DEF y, z
<1>9. CASE y = e /\ x.rec.state = "Active"
  <2> DEFINE v == Seen(s, x)
             m1 == Seen(s, y)
             w == Seen(s, z)
  <2>1. /\ v.state = "Active" /\ v.again = x.restart_after_stop
        /\ m1.state = "Exited" /\ ~ m1.wants /\ m1.again = x.restart_after_stop
    BY <1>5, <1>9, SeenFields
  <2> HIDE DEF v, m1, w
  <2>2. w.state = "Exited" /\ ~ w.wants /\ (w.again => v.again)
    BY <1>7, <2>1 DEF C!may_poll, C!SameState, m1, w
  <2>3. C!may_poll(v, w)
    BY <2>1, <2>2 DEF C!may_poll
  <2> QED BY <2>3 DEF v, w, y, z
<1> QED BY <1>2, <1>8, <1>9

-----------------------------------------------------------------------------
(***************************************************************************)
(* The refinement.                                                         *)
(***************************************************************************)

\* Structures that the supervisor cannot tell apart.
Alike(x, y) ==
  /\ y.rec = x.rec /\ Wishes(x, y)
  /\ y.forking_pending = x.forking_pending
  /\ y.forking_parent_exited = x.forking_parent_exited
  /\ y.adopted = x.adopted /\ y.prepared = x.prepared /\ y.dbus_ready = x.dbus_ready
  /\ \A field \in Helpers \cup Deadlines \cup {"child"} : y[field] = "none" <=> x[field] = "none"
  /\ y.notify = "closed" <=> x.notify = "closed"

(***************************************************************************)
(* They have the same view.                                                *)
(***************************************************************************)
LEMMA AlikeSeen ==
  ASSUME NEW s, NEW x, NEW y, Alike(x, y)
  PROVE  Seen(s, y) = Seen(s, x)
<1>1. ready_for_dependency(s, y) = ready_for_dependency(s, x)
  BY DEF Alike, ready_for_dependency, Helpers
<1>2. is_stopped(y) = is_stopped(x)
  BY DEF Alike, is_stopped, Helpers, Deadlines
<1> QED BY <1>1, <1>2 DEF Seen, Alike, Wishes

(***************************************************************************)
(* What happens between requests and polls is not seen.                    *)
(***************************************************************************)
LEMMA EnvironmentSeen ==
  ASSUME ManagedIInv, Environment
  PROVE  Seen(u, m') = Seen(u, m) /\ u' = u /\ stop_asked' = stop_asked
<1>1. Typed(u, m)
  BY DEF ManagedIInv, Sound, Coherent
<1>2. m = [field \in Fields |-> m[field]]
  BY <1>1 DEF Typed
<1>3. ASSUME NEW x, World(x), Alike(m, x)
      PROVE  Seen(u, m') = Seen(u, m) /\ u' = u /\ stop_asked' = stop_asked
  BY <1>3, AlikeSeen DEF World
<1>4. ASSUME NEW reason \in MainExits, MainEnds(reason)
      PROVE  Seen(u, m') = Seen(u, m) /\ u' = u /\ stop_asked' = stop_asked
  <2> DEFINE y == [m EXCEPT !.child = "ended", !.exit = reason]
  <2>1. World(y) /\ m.child = "alive"
    BY <1>4 DEF MainEnds
  <2>2. y.child = "ended" /\ \A field \in Fields \ {"child", "exit"} : y[field] = m[field]
    BY <1>2, FieldsAre
  <2> HIDE DEF y
  <2>3. Alike(m, y)
    BY <2>1, <2>2, FieldsAre DEF Alike, Wishes, Helpers, Deadlines
  <2> QED BY <1>3, <2>1, <2>3
<1>5. ASSUME NEW helper \in Helpers, NEW outcome \in HelperOutcomes, HelperEnds(helper, outcome)
      PROVE  Seen(u, m') = Seen(u, m) /\ u' = u /\ stop_asked' = stop_asked
  <2> DEFINE y == [m EXCEPT ![helper] = outcome]
  <2>1. World(y) /\ m[helper] = "running" /\ outcome # "none"
    BY <1>5 DEF HelperEnds, HelperOutcomes
  <2>2. \A field \in Fields : y[field] = IF field = helper THEN outcome ELSE m[field]
    BY <1>2
  <2> HIDE DEF y
  <2>3. /\ \A field \in Fields \ Helpers : y[field] = m[field]
        /\ \A field \in Helpers : y[field] = "none" <=> m[field] = "none"
    BY <2>1, <2>2, FieldsAre DEF Helpers
  <2>4. Alike(m, y)
    BY <2>3, FieldsAre DEF Alike, Wishes, Helpers, Deadlines
  <2> QED BY <1>3, <2>1, <2>4
<1>6. ASSUME NEW deadline \in Deadlines, Expires(deadline)
      PROVE  Seen(u, m') = Seen(u, m) /\ u' = u /\ stop_asked' = stop_asked
  <2> DEFINE y == [m EXCEPT ![deadline] = "due"]
  <2>1. World(y) /\ m[deadline] = "armed"
    BY <1>6 DEF Expires
  <2>2. \A field \in Fields : y[field] = IF field = deadline THEN "due" ELSE m[field]
    BY <1>2
  <2> HIDE DEF y
  <2>3. /\ \A field \in Fields \ Deadlines : y[field] = m[field]
        /\ \A field \in Deadlines : y[field] = "none" <=> m[field] = "none"
    BY <2>1, <2>2, FieldsAre DEF Deadlines
  <2>4. Alike(m, y)
    BY <2>3, FieldsAre DEF Alike, Wishes, Helpers, Deadlines
  <2> QED BY <1>3, <2>1, <2>4
<1>7. ASSUME NEW message \in {"READY=1", "WATCHDOG=1"}, Notified(message)
      PROVE  Seen(u, m') = Seen(u, m) /\ u' = u /\ stop_asked' = stop_asked
  <2> DEFINE y == [m EXCEPT !.notify = message]
  <2>1. World(y) /\ m.notify = "open"
    BY <1>7 DEF Notified
  <2>2. y.notify = message /\ \A field \in Fields \ {"notify"} : y[field] = m[field]
    BY <1>2, FieldsAre
  <2> HIDE DEF y
  <2>3. Alike(m, y)
    BY <2>1, <2>2, FieldsAre DEF Alike, Wishes, Helpers, Deadlines
  <2> QED BY <1>3, <2>1, <2>3
<1>8. ASSUME NEW field \in {"oom", "lost", "start_attempts", "daemon"}, NEW value,
             World([m EXCEPT ![field] = value])
      PROVE  Seen(u, m') = Seen(u, m) /\ u' = u /\ stop_asked' = stop_asked
  <2> DEFINE y == [m EXCEPT ![field] = value]
  <2>1. \A other \in Fields \ {field} : y[other] = m[other]
    BY <1>2
  <2>2. World(y)
    BY <1>8
  <2> HIDE DEF y
  <2>3. Alike(m, y)
    BY <2>1, FieldsAre DEF Alike, Wishes, Helpers, Deadlines
  <2> QED BY <1>3, <2>2, <2>3
<1>9. ASSUME OutOfMemory \/ TargetChanges \/ AttemptAges \/ DaemonForked \/ DaemonEnds
      PROVE  Seen(u, m') = Seen(u, m) /\ u' = u /\ stop_asked' = stop_asked
  <2>1. \/ World([m EXCEPT !["oom"] = TRUE])
        \/ World([m EXCEPT !["lost"] = ~ m.lost])
        \/ World([m EXCEPT !["start_attempts"] = m.start_attempts - 1])
        \/ World([m EXCEPT !["daemon"] = TRUE])
        \/ World([m EXCEPT !["daemon"] = FALSE])
    BY <1>9 DEF OutOfMemory, TargetChanges, AttemptAges, DaemonForked, DaemonEnds
  <2> QED BY <1>8, <2>1
<1> QED BY <1>4, <1>5, <1>6, <1>7, <1>9 DEF Environment

(***************************************************************************)
(* A managed service implements the contract that the supervisor counts    *)
(* on: every request and every poll, with all that can happen between      *)
(* them, changes its view as ServiceView allows, and after a stop nothing  *)
(* but a request brings it up.                                             *)
(***************************************************************************)
THEOREM ServiceKeepsContract == Spec => Contract
<1>1. view = Seen(u, m)
  BY DEF view, Seen
<1>2. Init => C!Init
  <2> SUFFICES ASSUME Init PROVE C!Init
    OBVIOUS
  <2>1. m = new /\ stop_asked = FALSE
    BY DEF Init
  <2>2. /\ m.rec.state = "Defined" /\ ~ m.wants_running /\ ~ m.restart_after_stop
        /\ m.rec.last_exit = NoExit
    BY <2>1 DEF new, R!NewRecord
  <2>3. ready_for_dependency(u, m) = FALSE
    BY <2>2 DEF ready_for_dependency
  <2>4. is_stopped(m) = TRUE
    BY <2>1 DEF new, R!NewRecord, is_stopped, Helpers
  <2>5. ExitSeen(m.rec) = "none"
    BY <2>2 DEF ExitSeen
  <2>6. m.wants_running = FALSE /\ m.restart_after_stop = FALSE
    BY <2>1 DEF new
  <2>7. view = C!NewView
    BY <2>2, <2>3, <2>4, <2>5, <2>6 DEF view, C!NewView
  <2> QED BY <2>1, <2>7 DEF C!Init
<1>3. ManagedIInv /\ ManagedIInv' /\ [Next]_vars => [C!Next]_<<view, stop_asked>>
  <2> SUFFICES ASSUME ManagedIInv, ManagedIInv', [Next]_vars
               PROVE  C!Next \/ (view' = view /\ stop_asked' = stop_asked)
    OBVIOUS
  <2>1. /\ u \in Services /\ u.start_limit_burst \in Nat
        /\ Sound(u, m) /\ Coherent(u, m) /\ ~ m.err
    BY ManagedAssumption DEF ManagedIInv, Sound
  <2>2. u' = u => view' = Seen(u, m')
    BY DEF view, Seen
  <2>3. C!WellFormed(Seen(u, m'))
    BY DEF Seen, C!WellFormed, C!Resting, ready_for_dependency, is_stopped, ExitSeen
  <2>4. ASSUME NEW x, Sound(u, x), m' = [x EXCEPT !.err = FALSE], u' = u
        PROVE  view' = Seen(u, x) /\ C!WellFormed(Seen(u, x))
    <3>1. Seen(u, m') = Seen(u, x)
      BY <2>4, ErrSeen DEF Sound, Coherent
    <3> QED BY <2>2, <2>3, <2>4, <3>1
  <2>5. ASSUME NEW f \in Outcomes, StartRequested(f) PROVE C!Next
    <3> DEFINE x == start(u, f, m)
    <3>1. Sound(u, x) /\ C!may_start(Seen(u, m), Seen(u, x))
      BY <2>1, StartSound, StartSeen
    <3>2. m' = [x EXCEPT !.err = FALSE] /\ u' = u /\ stop_asked' = FALSE
      BY <2>5 DEF StartRequested, Answer
    <3> HIDE DEF x
    <3> QED BY <1>1, <2>4, <3>1, <3>2 DEF C!Next, C!Step, C!Start
  <2>6. ASSUME NEW f \in Outcomes, StopRequested(f) PROVE C!Next
    <3> DEFINE x == stop_with_signal(u, f, m)
    <3>1. Sound(u, x) /\ C!may_stop(Seen(u, m), Seen(u, x))
      BY <2>1, StopHolds, StopSeen
    <3>2. m' = [x EXCEPT !.err = FALSE] /\ u' = u /\ stop_asked' = TRUE
      BY <2>6 DEF StopRequested, Answer
    <3> HIDE DEF x
    <3> QED BY <1>1, <2>4, <3>1, <3>2 DEF C!Next, C!Step, C!Stop
  <2>7. ASSUME NEW f \in Outcomes, RestartRequested(f) PROVE C!Next
    <3> DEFINE x == restart(u, f, m)
    <3>1. Sound(u, x) /\ C!may_restart(Seen(u, m), Seen(u, x))
      BY <2>1, RestartSound, RestartSeen
    <3>2. m' = [x EXCEPT !.err = FALSE] /\ u' = u /\ stop_asked' = FALSE
      BY <2>7 DEF RestartRequested, Answer
    <3> HIDE DEF x
    <3> QED BY <1>1, <2>4, <3>1, <3>2 DEF C!Next, C!Step, C!Restart
  <2>8. ASSUME NEW f \in Outcomes, ReloadRequested(f)
        PROVE  view' = view /\ stop_asked' = stop_asked
    <3> DEFINE x == reload(u, f, m)
    <3>1. Sound(u, x) /\ Seen(u, x) = Seen(u, m)
      BY <2>1, ReloadGoes, ReloadSeen DEF Goes
    <3>2. m' = [x EXCEPT !.err = FALSE] /\ u' = u /\ stop_asked' = stop_asked
      BY <2>8 DEF ReloadRequested, Answer
    <3> HIDE DEF x
    <3> QED BY <1>1, <2>4, <3>1, <3>2
  <2>9. ASSUME ResetRequested PROVE C!Next
    <3> DEFINE x == reset_failed(m)
    <3>1. Sound(u, x) /\ C!may_reset(Seen(u, m), Seen(u, x))
      BY <2>1, ResetGoes, ResetSeen DEF Goes
    <3>2. m' = [x EXCEPT !.err = FALSE] /\ u' = u /\ stop_asked' = stop_asked
      BY <2>9 DEF ResetRequested, Answer
    <3> HIDE DEF x
    <3> QED BY <1>1, <2>4, <3>1, <3>2 DEF C!Next, C!Step, C!Reset
  <2>10. ASSUME JobTimedOut PROVE C!Next
    <3> DEFINE x == mark_job_timeout(u, m)
    <3>1. Sound(u, x) /\ C!may_time_out(Seen(u, m), Seen(u, x))
      BY <2>1, JobTimeoutGoes, JobTimeoutSeen DEF Goes
    <3>2. m' = [x EXCEPT !.err = FALSE] /\ u' = u /\ stop_asked' = stop_asked
      BY <2>10 DEF JobTimedOut, Answer
    <3> HIDE DEF x
    <3> QED BY <1>1, <2>4, <3>1, <3>2 DEF C!Next, C!Step, C!TimeOut
  <2>11. ASSUME NEW f \in Outcomes, Poll(f) PROVE C!Next
    <3> DEFINE x == poll(u, f, refresh_lost_mount(u, m))
    <3>1. Sound(u, x) /\ C!may_poll(Seen(u, m), Seen(u, x))
      BY <2>1, LostMountGoes, PollGoes, LostPollSeen DEF Goes
    <3>2. m' = [x EXCEPT !.err = FALSE] /\ u' = u /\ stop_asked' = stop_asked
      BY <2>11 DEF Poll
    <3> HIDE DEF x
    <3>3. view' = Seen(u, x) /\ C!WellFormed(Seen(u, x)) /\ view' = Seen(u, m')
      BY <2>2, <2>4, <3>1, <3>2
    <3>4. stop_asked => ~ C!service_was_up(view')
      BY <3>2, <3>3 DEF ManagedIInv, Held, Up, Seen, C!service_was_up
    <3> QED BY <1>1, <3>1, <3>2, <3>3, <3>4 DEF C!Next, C!Step, C!Poll
  <2>12. CASE ClientsLeave \/ Unsupervised \/ UNCHANGED vars
    BY <2>12 DEF ClientsLeave, Unsupervised, vars, view
  <2>13. Environment => view' = view /\ stop_asked' = stop_asked
    BY <1>1, <2>2, EnvironmentSeen
  <2> QED BY <2>5, <2>6, <2>7, <2>8, <2>9, <2>10, <2>11, <2>12, <2>13 DEF Next, Request
<1> QED BY <1>2, <1>3, ManagedInductive, PTL DEF Spec, Contract, C!Spec
=============================================================================
