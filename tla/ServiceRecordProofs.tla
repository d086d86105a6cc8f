------------------------- MODULE ServiceRecordProofs -------------------------
(***************************************************************************)
(* Proofs about ServiceRecord: the type invariant and the safety           *)
(* properties, for every set of descriptors, of process identifiers and of *)
(* statuses, and for every number of generations.                          *)
(***************************************************************************)
EXTENDS ServiceRecord, TLAPS

(***************************************************************************)
(* advance_generation stays within the generations, wrapping past zero.    *)
(***************************************************************************)
LEMMA AdvanceType ==
  ASSUME NEW g \in Generations
  PROVE  advance_generation(g) \in Generations /\ advance_generation(g) # g
BY GenerationAssumption DEF advance_generation, Generations

(***************************************************************************)
(* The synthetic exit statuses are exit reasons.                           *)
(***************************************************************************)
LEMMA ExitedType == \A c \in {0, 1, 124, 127} : Exited(c) \in ExitReason
BY StatusAssumption DEF Exited, ExitReason

(***************************************************************************)
(* A record with a restart scheduled is a record.                          *)
(***************************************************************************)
LEMMA ScheduleRestartType ==
  ASSUME NEW r \in ServiceRecord
  PROVE  /\ ScheduleRestart(r) \in ServiceRecord
         /\ ScheduleRestart(r).state = "Backoff"
         /\ ScheduleRestart(r).restart_count = r.restart_count + 1
         /\ ScheduleRestart(r).pid = r.pid
         /\ ScheduleRestart(r).generation = r.generation
         /\ ScheduleRestart(r).start_failed = r.start_failed
         /\ ScheduleRestart(r).runtime_failed = r.runtime_failed
<1>1. r.restart_count + 1 \in Nat
  BY DEF ServiceRecord
<1> QED BY <1>1 DEF ScheduleRestart, ServiceRecord, ServiceState

(***************************************************************************)
(* A record that has come to rest with its budget restored is a record.    *)
(***************************************************************************)
LEMMA AtRestType ==
  ASSUME NEW r \in ServiceRecord, NEW state \in ServiceState
  PROVE  LET s == AtRest(r, state) IN
         /\ s \in ServiceRecord
         /\ s.state = state /\ s.restart_count = 0
         /\ s.pid = r.pid /\ s.generation = r.generation
         /\ s.start_failed = r.start_failed /\ s.runtime_failed = r.runtime_failed
BY DEF AtRest, ServiceRecord

(***************************************************************************)
(* What the answer SpawnFailed leaves: a charged restart within the        *)
(* budget, or Failed.                                                      *)
(***************************************************************************)
LEMMA SpawnFailedEffect ==
  ASSUME NEW u \in ServiceSpec, NEW r \in ServiceRecord
  PROVE  LET s == spawn_failed(u, r) IN
         /\ s \in ServiceRecord
         /\ s.pid = r.pid /\ s.generation = r.generation
         /\ s.start_failed = r.start_failed /\ s.runtime_failed = r.runtime_failed
         /\ \/ s.state = "Failed" /\ s.restart_count = r.restart_count
            \/ /\ s.state = "Backoff"
               /\ s.restart_count = r.restart_count + 1
               /\ r.restart_count < u.restart_limit
<1> DEFINE f == [r EXCEPT !.last_exit = Exited(127)]
<1>1. f \in ServiceRecord /\ f.state = r.state /\ f.pid = r.pid
      /\ f.generation = r.generation /\ f.restart_count = r.restart_count
      /\ f.start_failed = r.start_failed /\ f.runtime_failed = r.runtime_failed
  BY ExitedType DEF ServiceRecord
<1>2. \/ spawn_failed(u, r) = ScheduleRestart(f) /\ BudgetLeft(u, r)
      \/ spawn_failed(u, r) = [f EXCEPT !.state = "Failed"]
  BY DEF spawn_failed
<1> HIDE DEF f
<1>3. CASE spawn_failed(u, r) = ScheduleRestart(f) /\ BudgetLeft(u, r)
  BY <1>1, <1>3, ScheduleRestartType DEF BudgetLeft
<1>4. CASE spawn_failed(u, r) = [f EXCEPT !.state = "Failed"]
  BY <1>1, <1>4 DEF ServiceRecord, ServiceState
<1> QED BY <1>2, <1>3, <1>4

(***************************************************************************)
(* What an accepted exit leaves.  A requested stop ends in Exited; a       *)
(* failure that was being stopped ends in Backoff or Failed; Backoff is    *)
(* reached only with budget left and charges it.                           *)
(***************************************************************************)
LEMMA ExitedEffect ==
  ASSUME NEW u \in ServiceSpec, NEW r \in ServiceRecord, NEW reason \in ExitReason
  PROVE  LET s == exited(u, r, reason) IN
         /\ s \in ServiceRecord
         /\ s.pid = NoPid /\ s.generation = r.generation
         /\ ~ s.start_failed /\ ~ s.runtime_failed
         /\ \/ s.state \in {"Active", "Exited"} /\ s.restart_count = 0
            \/ s.state = "Failed" /\ s.restart_count = r.restart_count
            \/ /\ s.state = "Backoff"
               /\ s.restart_count = r.restart_count + 1
               /\ r.restart_count < u.restart_limit
         /\ r.state = "Stopping" =>
              s.state \in (IF r.start_failed \/ r.runtime_failed
                           THEN {"Backoff", "Failed"} ELSE {"Exited"})
<1> DEFINE gone == [r EXCEPT !.pid = NoPid, !.last_exit = reason,
                             !.start_failed = FALSE, !.runtime_failed = FALSE]
<1>1. gone \in ServiceRecord /\ gone.pid = NoPid /\ gone.generation = r.generation
      /\ gone.restart_count = r.restart_count
      /\ gone.start_failed = FALSE /\ gone.runtime_failed = FALSE
  BY DEF ServiceRecord
<1>2. exited(u, r, reason) = IF r.state = "Stopping" THEN exited_stopping(u, r, gone)
                             ELSE exited_running(u, r, gone, reason)
  BY DEF exited
<1> HIDE DEF gone
<1>3. CASE r.state = "Stopping"
  <2>1. exited(u, r, reason) = exited_stopping(u, r, gone)
    BY <1>2, <1>3
  <2>2. CASE ~ (r.start_failed \/ r.runtime_failed)
    <3>1. exited(u, r, reason) = AtRest(gone, "Exited")
      BY <2>1, <2>2 DEF exited_stopping
    <3> QED BY <3>1, <2>2, <1>1, <1>3, AtRestType DEF ServiceState
  <2>3. CASE r.start_failed \/ r.runtime_failed
    <3>1. \/ exited(u, r, reason) = ScheduleRestart(gone) /\ BudgetLeft(u, r)
          \/ exited(u, r, reason) = [gone EXCEPT !.state = "Failed"]
      BY <2>1, <2>3 DEF exited_stopping
    <3>2. CASE exited(u, r, reason) = ScheduleRestart(gone) /\ BudgetLeft(u, r)
      BY <3>2, <2>3, <1>1, ScheduleRestartType DEF BudgetLeft
    <3>3. CASE exited(u, r, reason) = [gone EXCEPT !.state = "Failed"]
      BY <3>3, <2>3, <1>1 DEF ServiceRecord, ServiceState
    <3> QED BY <3>1, <3>2, <3>3
  <2> QED BY <2>2, <2>3
<1>4. CASE r.state # "Stopping"
  <2>1. \/ exited(u, r, reason) = AtRest(gone, "Active")
        \/ exited(u, r, reason) = ScheduleRestart(gone) /\ BudgetLeft(u, r)
        \/ exited(u, r, reason) = AtRest(gone, "Exited")
        \/ exited(u, r, reason) = [gone EXCEPT !.state = "Failed"]
    BY <1>2, <1>4 DEF exited_running
  <2>2. CASE exited(u, r, reason) = ScheduleRestart(gone) /\ BudgetLeft(u, r)
    BY <2>2, <1>4, <1>1, ScheduleRestartType DEF BudgetLeft
  <2>3. CASE exited(u, r, reason) = AtRest(gone, "Active")
    BY <2>3, <1>4, <1>1, AtRestType DEF ServiceState
  <2>4. CASE exited(u, r, reason) = AtRest(gone, "Exited")
    BY <2>4, <1>4, <1>1, AtRestType DEF ServiceState
  <2>5. CASE exited(u, r, reason) = [gone EXCEPT !.state = "Failed"]
    BY <2>5, <1>4, <1>1 DEF ServiceRecord, ServiceState
  <2> QED BY <2>1, <2>2, <2>3, <2>4, <2>5
<1> QED BY <1>3, <1>4

-----------------------------------------------------------------------------
(***************************************************************************)
(* The invariant is preserved, action by action.  ProcessInv is the part   *)
(* that ties the record to the processes, MemoryInv the part about what    *)
(* the record remembers of failures, stops and restarts.                   *)
(***************************************************************************)
LEMMA Preserved ==
  ASSUME IInv, [Next]_vars
  PROVE  IInv'
<1> USE PidAssumption, SpecsAssumption
<1> USE DEF IInv, ProcessInv, MemoryInv, TypeOK, ServiceRecord, ServiceState, ServiceSpec
<1>1. ASSUME NEW g \in spawning, NEW pid \in Pids, Spawned(g, pid) PROVE IInv'
  <2>1. TypeOK'
    <3>1. rec' \in ServiceRecord
      BY <1>1 DEF Spawned, spawned
    <3>2. procs' \subseteq Process /\ spawning' \subseteq Generations
      BY <1>1 DEF Spawned, Process
    <3>3. told' \in BOOLEAN
      BY <1>1 DEF Spawned, spawned_signals
    <3> QED BY <1>1, <3>1, <3>2, <3>3 DEF Spawned
  <2>2. ProcessInv'
    <3> DEFINE new == [pid |-> pid, generation |-> g]
    <3>1. rec.pid = NoPid /\ procs = {} /\ notices = {}
      BY <1>1 DEF Spawned, spawned_ok, check_generation, Process, Notice,
         PidIsCurrent, NoOrphan, SpawnUnanswered, NoticeIsCurrent
    <3>2. rec'.pid = pid /\ rec'.generation = g
          /\ rec'.state \in {"Starting", "Running", "Stopping"}
      BY <1>1 DEF Spawned, spawned_ok, spawned, check_generation
    <3>3. procs' = {new} /\ notices' = {} /\ spawning' = spawning \ {g}
      BY <1>1, <3>1 DEF Spawned
    <3>4. new \in procs' \cup notices' /\ new.pid = pid /\ new.generation = g
      BY <3>3
    <3>5. PidIsCurrent'
      BY <3>2, <3>4 DEF PidIsCurrent
    <3> QED BY <3>2, <3>3, <3>4, <3>5 DEF NoOrphan, SpawnUnanswered, NoticeIsCurrent
  <2>3. MemoryInv'
    BY <1>1 DEF Spawned, spawned_ok, spawned, spawned_signals, check_generation, History, PidIsCurrent,
       FlagsMeanFailing, RestartBudget, RestartsCharged, StopIsFinal, StoppingIsTold
  <2> QED BY <2>1, <2>2, <2>3
<1>2. ASSUME NEW g \in spawning, AnswerRefused(g) PROVE IInv'
  <2>1. TypeOK'
    BY <1>2 DEF AnswerRefused, spawned_ok, World, History, Process, Notice
  <2>2. ProcessInv'
    BY <1>2 DEF AnswerRefused, spawned_ok, World, Process, Notice,
       PidIsCurrent, NoOrphan, SpawnUnanswered, NoticeIsCurrent
  <2>3. MemoryInv'
    BY <1>2 DEF AnswerRefused, spawned_ok, History, PidIsCurrent,
       FlagsMeanFailing, RestartBudget, RestartsCharged, StopIsFinal, StoppingIsTold
  <2> QED BY <2>1, <2>2, <2>3
<1>3. ASSUME NEW g \in spawning, SpawnFailed(g) PROVE IInv'
  <2>1. TypeOK'
    BY <1>3, SpawnFailedEffect DEF SpawnFailed, spawn_failed_ok, check_generation, World, History, Process, Notice
  <2>2. ProcessInv'
    BY <1>3, SpawnFailedEffect DEF SpawnFailed, spawn_failed_ok, check_generation, World, Process, Notice,
       PidIsCurrent, NoOrphan, SpawnUnanswered, NoticeIsCurrent
  <2>3. MemoryInv'
    BY <1>3, SpawnFailedEffect DEF SpawnFailed, spawn_failed_ok, check_generation, History, PidIsCurrent,
       FlagsMeanFailing, RestartBudget, RestartsCharged, StopIsFinal, StoppingIsTold
  <2> QED BY <2>1, <2>2, <2>3
<1>4. ASSUME NEW g \in spawning, Activated(g) PROVE IInv'
  <2>1. TypeOK'
    BY <1>4 DEF Activated, activated_ok, activated, check_generation, World, History, Process, Notice
  <2>2. ProcessInv'
    BY <1>4 DEF Activated, activated_ok, activated, check_generation, World, Process, Notice,
       PidIsCurrent, NoOrphan, SpawnUnanswered, NoticeIsCurrent
  <2>3. MemoryInv'
    BY <1>4 DEF Activated, activated_ok, activated, check_generation, History, PidIsCurrent,
       FlagsMeanFailing, RestartBudget, RestartsCharged, StopIsFinal, StoppingIsTold
  <2> QED BY <2>1, <2>2, <2>3
<1>5. ASSUME NEW g \in spawning, ConditionSkipped(g) PROVE IInv'
  <2>1. TypeOK'
    BY <1>5 DEF ConditionSkipped, condition_skipped_ok, condition_skipped, check_generation, World, History, Process, Notice
  <2>2. ProcessInv'
    BY <1>5 DEF ConditionSkipped, condition_skipped_ok, condition_skipped, check_generation, World, Process, Notice,
       PidIsCurrent, NoOrphan, SpawnUnanswered, NoticeIsCurrent
  <2>3. MemoryInv'
    BY <1>5 DEF ConditionSkipped, condition_skipped_ok, condition_skipped, check_generation, History, PidIsCurrent,
       FlagsMeanFailing, RestartBudget, RestartsCharged, StopIsFinal, StoppingIsTold
  <2> QED BY <2>1, <2>2, <2>3
<1>6. ASSUME NEW g \in spawning, AssertionFailed(g) PROVE IInv'
  <2>1. TypeOK'
    BY <1>6, AdvanceType DEF AssertionFailed, start_failed_ok, start_failed, check_generation, World, History, Process, Notice
  <2>2. ProcessInv'
    BY <1>6, AdvanceType DEF AssertionFailed, start_failed_ok, start_failed, check_generation, World, NextGenerationUnused, Process, Notice,
       PidIsCurrent, NoOrphan, SpawnUnanswered, NoticeIsCurrent
  <2>3. MemoryInv'
    <3>1. rec.pid = NoPid
      BY <1>6 DEF AssertionFailed, start_failed_ok, check_generation, PidIsCurrent, SpawnUnanswered
    <3> QED BY <1>6, <3>1 DEF AssertionFailed, start_failed_ok, start_failed,
       FlagsMeanFailing, RestartBudget, RestartsCharged, StopIsFinal, StoppingIsTold
  <2> QED BY <2>1, <2>2, <2>3
<1>7. ASSUME NEW p \in procs, Ready(p) PROVE IInv'
  <2>1. TypeOK'
    BY <1>7 DEF Ready, ready_ok, ready, check_generation, World, History, Process, Notice
  <2>2. ProcessInv'
    BY <1>7 DEF Ready, ready_ok, ready, check_generation, World, Process, Notice,
       PidIsCurrent, NoOrphan, SpawnUnanswered, NoticeIsCurrent
  <2>3. MemoryInv'
    BY <1>7 DEF Ready, ready_ok, ready, check_generation, History, PidIsCurrent,
       FlagsMeanFailing, RestartBudget, RestartsCharged, StopIsFinal, StoppingIsTold
  <2> QED BY <2>1, <2>2, <2>3
<1>8. ASSUME NEW p \in procs, NEW pid \in Pids, Adopted(p, pid) PROVE IInv'
  <2>1. TypeOK'
    BY <1>8 DEF Adopted, adopted_ok, adopted, check_generation, World, History, Process, Notice
  <2>2. ProcessInv'
    <3> DEFINE new == [p EXCEPT !.pid = pid]
    <3>1. procs = {p} /\ notices = {}
      BY <1>8 DEF Process, NoOrphan, NoticeIsCurrent
    <3>2. rec'.pid = pid /\ rec'.generation = p.generation /\ rec'.state = "Running"
      BY <1>8 DEF Adopted, adopted_ok, adopted, check_generation
    <3>3. procs' = {new} /\ notices' = {} /\ spawning' = spawning
      BY <1>8, <3>1 DEF Adopted, World
    <3>4. new \in procs' \cup notices' /\ new.pid = pid /\ new.generation = p.generation
      BY <3>3 DEF Process
    <3>5. PidIsCurrent'
      BY <3>2, <3>4 DEF PidIsCurrent
    <3>6. SpawnUnanswered'
      BY <3>3, <3>4 DEF SpawnUnanswered
    <3> QED BY <3>2, <3>3, <3>4, <3>5, <3>6 DEF NoOrphan, NoticeIsCurrent
  <2>3. MemoryInv'
    BY <1>8 DEF Adopted, adopted_ok, adopted, check_generation, History, PidIsCurrent,
       FlagsMeanFailing, RestartBudget, RestartsCharged, StopIsFinal, StoppingIsTold
  <2> QED BY <2>1, <2>2, <2>3
<1>9. ASSUME NEW p \in procs, NEW reason \in ExitReason, ProcessEnds(p, reason) PROVE IInv'
  <2>1. TypeOK'
    BY <1>9 DEF ProcessEnds, World, History, Process, Notice
  <2>2. ProcessInv'
    <3> DEFINE note == [pid |-> p.pid, generation |-> p.generation, reason |-> reason]
    <3>1. procs = {p} /\ notices = {} /\ p.pid = rec.pid /\ p.generation = rec.generation
      BY <1>9 DEF Process, NoOrphan, NoticeIsCurrent
    <3>2. procs' = {} /\ notices' = {note} /\ rec' = rec /\ spawning' = spawning
      BY <1>9, <3>1 DEF ProcessEnds
    <3>3. note \in procs' \cup notices' /\ note.pid = rec.pid /\ note.generation = rec.generation
      BY <3>1, <3>2
    <3>4. PidIsCurrent'
      BY <3>2, <3>3 DEF PidIsCurrent
    <3>5. SpawnUnanswered'
      BY <3>1, <3>2, <3>3 DEF SpawnUnanswered
    <3> QED BY <3>2, <3>3, <3>4, <3>5 DEF NoOrphan, NoticeIsCurrent
  <2>3. MemoryInv'
    BY <1>9 DEF ProcessEnds, History, PidIsCurrent,
       FlagsMeanFailing, RestartBudget, RestartsCharged, StopIsFinal, StoppingIsTold
  <2> QED BY <2>1, <2>2, <2>3
<1>10. ASSUME NEW n \in notices, ExitReported(n) PROVE IInv'
  <2>1. TypeOK'
    BY <1>10, ExitedEffect DEF ExitReported, exited_ok, check_generation, World, History, Process, Notice
  <2>2. ProcessInv'
    BY <1>10, ExitedEffect DEF ExitReported, exited_ok, check_generation, World, Process, Notice,
       PidIsCurrent, NoOrphan, SpawnUnanswered, NoticeIsCurrent
  <2>3. MemoryInv'
    <3>1. CASE ~ exited_ok(rec, n.pid, n.generation)
      BY <1>10, <3>1 DEF ExitReported, PidIsCurrent,
         FlagsMeanFailing, RestartBudget, RestartsCharged, StopIsFinal, StoppingIsTold
    <3>2. CASE exited_ok(rec, n.pid, n.generation)
      <4> DEFINE s == exited(spec, rec, n.reason)
      <4>1. /\ rec' = s /\ UNCHANGED <<spec, stop_wanted, auto_restarts>>
            /\ n.reason \in ExitReason
        BY <1>10, <3>2 DEF ExitReported, Notice
      <4>2. /\ s \in ServiceRecord /\ s.pid = NoPid /\ ~ s.start_failed /\ ~ s.runtime_failed
            /\ \/ s.state \in {"Active", "Exited"} /\ s.restart_count = 0
               \/ s.state = "Failed" /\ s.restart_count = rec.restart_count
               \/ /\ s.state = "Backoff"
                  /\ s.restart_count = rec.restart_count + 1
                  /\ rec.restart_count < spec.restart_limit
            /\ rec.state = "Stopping" =>
                 s.state \in (IF rec.start_failed \/ rec.runtime_failed
                              THEN {"Backoff", "Failed"} ELSE {"Exited"})
        BY <4>1, ExitedEffect
      <4>3. rec.state \in {"Starting", "Running", "Stopping"}
        BY <3>2 DEF exited_ok
      <4> HIDE DEF s
      <4>4. FlagsMeanFailing' /\ StoppingIsTold'
        BY <4>1, <4>2 DEF FlagsMeanFailing, StoppingIsTold
      <4>5. RestartBudget' /\ RestartsCharged'
        BY <4>1, <4>2, <4>3 DEF RestartBudget, RestartsCharged
      <4>6. StopIsFinal'
        BY <4>1, <4>2, <4>3 DEF StopIsFinal, FlagsMeanFailing
      <4> QED BY <4>4, <4>5, <4>6
    <3> QED BY <3>1, <3>2
  <2> QED BY <2>1, <2>2, <2>3
<1>11. ASSUME NEW g \in Generations, StartPostFailed(g) PROVE IInv'
  <2>1. TypeOK'
    BY <1>11, AdvanceType DEF StartPostFailed, start_failed_ok, start_failed, check_generation, World, History, Process, Notice
  <2>2. ProcessInv'
    BY <1>11, AdvanceType DEF StartPostFailed, start_failed_ok, start_failed, check_generation, World, NextGenerationUnused, Process, Notice,
       PidIsCurrent, NoOrphan, SpawnUnanswered, NoticeIsCurrent
  <2>3. MemoryInv'
    BY <1>11 DEF StartPostFailed, start_failed_ok, start_failed, check_generation, History, PidIsCurrent,
       FlagsMeanFailing, RestartBudget, RestartsCharged, StopIsFinal, StoppingIsTold
  <2> QED BY <2>1, <2>2, <2>3
<1>12. ASSUME NEW g \in Generations, StartTimedOut(g) PROVE IInv'
  <2>1. TypeOK'
    BY <1>12, AdvanceType DEF StartTimedOut, start_timed_out_ok, start_timed_out, check_generation, World, History, Process, Notice
  <2>2. ProcessInv'
    BY <1>12, AdvanceType DEF StartTimedOut, start_timed_out_ok, start_timed_out, check_generation, World, NextGenerationUnused, Process, Notice,
       PidIsCurrent, NoOrphan, SpawnUnanswered, NoticeIsCurrent
  <2>3. MemoryInv'
    BY <1>12 DEF StartTimedOut, start_timed_out_ok, start_timed_out, check_generation, History, PidIsCurrent,
       FlagsMeanFailing, RestartBudget, RestartsCharged, StopIsFinal, StoppingIsTold
  <2> QED BY <2>1, <2>2, <2>3
<1>13. ASSUME NEW g \in Generations, RuntimeTimedOut(g) PROVE IInv'
  <2>1. TypeOK'
    BY <1>13, AdvanceType DEF RuntimeTimedOut, runtime_timed_out_ok, runtime_timed_out, check_generation, World, History, Process, Notice
  <2>2. ProcessInv'
    BY <1>13, AdvanceType DEF RuntimeTimedOut, runtime_timed_out_ok, runtime_timed_out, check_generation, World, NextGenerationUnused, Process, Notice,
       PidIsCurrent, NoOrphan, SpawnUnanswered, NoticeIsCurrent
  <2>3. MemoryInv'
    BY <1>13 DEF RuntimeTimedOut, runtime_timed_out_ok, runtime_timed_out, check_generation, History, PidIsCurrent,
       FlagsMeanFailing, RestartBudget, RestartsCharged, StopIsFinal, StoppingIsTold
  <2> QED BY <2>1, <2>2, <2>3
<1>14. ASSUME NEW g \in Generations, StopTimedOut(g) PROVE IInv'
  <2>1. TypeOK'
    BY <1>14, AdvanceType DEF StopTimedOut, stop_timed_out_ok, stop_timed_out, stop_timed_out_signals, check_generation, World, History, Process, Notice
  <2>2. ProcessInv'
    BY <1>14, AdvanceType DEF StopTimedOut, stop_timed_out_ok, stop_timed_out, stop_timed_out_signals, check_generation, World, NextGenerationUnused, Process, Notice,
       PidIsCurrent, NoOrphan, SpawnUnanswered, NoticeIsCurrent
  <2>3. MemoryInv'
    BY <1>14 DEF StopTimedOut, stop_timed_out_ok, stop_timed_out, stop_timed_out_signals, check_generation, History, PidIsCurrent,
       FlagsMeanFailing, RestartBudget, RestartsCharged, StopIsFinal, StoppingIsTold
  <2> QED BY <2>1, <2>2, <2>3
<1>15. ASSUME NEW g \in Generations, StartLimitHit(g) PROVE IInv'
  <2>1. TypeOK'
    BY <1>15, AdvanceType, ExitedType DEF StartLimitHit, start_limit_hit_ok, start_limit_hit, check_generation, World, History, Process, Notice
  <2>2. ProcessInv'
    BY <1>15, AdvanceType DEF StartLimitHit, start_limit_hit_ok, start_limit_hit, check_generation, World, NextGenerationUnused, Process, Notice,
       PidIsCurrent, NoOrphan, SpawnUnanswered, NoticeIsCurrent
  <2>3. MemoryInv'
    BY <1>15 DEF StartLimitHit, start_limit_hit_ok, start_limit_hit, check_generation, History, PidIsCurrent,
       FlagsMeanFailing, RestartBudget, RestartsCharged, StopIsFinal, StoppingIsTold
  <2> QED BY <2>1, <2>2, <2>3
<1>16. ASSUME NEW g \in Generations, RestartDue(g) PROVE IInv'
  <2>1. TypeOK'
    <3>1. advance_generation(rec.generation) \in Generations
      BY AdvanceType
    <3>2. rec' \in ServiceRecord /\ rec'.generation \in Generations
      BY <1>16, <3>1 DEF RestartDue, restart_due
    <3>3. auto_restarts' \in Nat
      BY <1>16 DEF RestartDue
    <3> QED BY <1>16, <3>2, <3>3 DEF RestartDue
  <2>2. ProcessInv'
    BY <1>16, AdvanceType DEF RestartDue, restart_due_ok, restart_due, check_generation, World, NextGenerationUnused, Process, Notice,
       PidIsCurrent, NoOrphan, SpawnUnanswered, NoticeIsCurrent
  <2>3. MemoryInv'
    BY <1>16 DEF RestartDue, restart_due_ok, restart_due, check_generation, History, PidIsCurrent,
       FlagsMeanFailing, RestartBudget, RestartsCharged, StopIsFinal, StoppingIsTold
  <2> QED BY <2>1, <2>2, <2>3
<1>17. ASSUME StartRequested PROVE IInv'
  <2>1. TypeOK'
    BY <1>17, AdvanceType DEF StartRequested, start_ok, start, World, History, Process, Notice
  <2>2. ProcessInv'
    BY <1>17, AdvanceType DEF StartRequested, start_ok, start, World, NextGenerationUnused, Process, Notice,
       PidIsCurrent, NoOrphan, SpawnUnanswered, NoticeIsCurrent
  <2>3. MemoryInv'
    BY <1>17 DEF StartRequested, start_ok, start, History, PidIsCurrent,
       FlagsMeanFailing, RestartBudget, RestartsCharged, StopIsFinal, StoppingIsTold
  <2> QED BY <2>1, <2>2, <2>3
<1>18. ASSUME StopRequested PROVE IInv'
  <2>1. TypeOK'
    BY <1>18 DEF StopRequested, stop, stop_signals, AtRest, World, History, Process, Notice
  <2>2. ProcessInv'
    BY <1>18 DEF StopRequested, stop, stop_signals, AtRest, World, Process, Notice,
       PidIsCurrent, NoOrphan, SpawnUnanswered, NoticeIsCurrent
  <2>3. MemoryInv'
    <3>1. CASE rec.state \in {"Starting", "Running"}
      <4>1. rec'.state = "Stopping" /\ ~ rec'.start_failed /\ ~ rec'.runtime_failed
            /\ rec'.pid = rec.pid /\ rec'.restart_count = rec.restart_count
        BY <1>18, <3>1 DEF StopRequested, stop
      <4>2. rec.pid # NoPid => told'
        BY <1>18, <3>1, <4>1 DEF StopRequested, stop_signals
      <4> QED BY <1>18, <3>1, <4>1, <4>2 DEF StopRequested,
         FlagsMeanFailing, RestartBudget, RestartsCharged, StopIsFinal, StoppingIsTold
    <3>2. CASE rec.state \in {"Active", "Backoff"}
      <4>1. rec'.state = "Exited" /\ rec'.restart_count = 0
            /\ rec'.start_failed = rec.start_failed /\ rec'.runtime_failed = rec.runtime_failed
        BY <1>18, <3>2 DEF StopRequested, stop, AtRest
      <4> QED BY <1>18, <3>2, <4>1 DEF StopRequested,
         FlagsMeanFailing, RestartBudget, RestartsCharged, StopIsFinal, StoppingIsTold
    <3> QED BY <1>18, <3>1, <3>2 DEF StopRequested, stop
  <2> QED BY <2>1, <2>2, <2>3
<1>19. ASSUME StopCompleted PROVE IInv'
  <2>1. TypeOK'
    BY <1>19 DEF StopCompleted, stop_completed_ok, stop_completed, World, History, Process, Notice
  <2>2. ProcessInv'
    BY <1>19 DEF StopCompleted, stop_completed_ok, stop_completed, World, Process, Notice,
       PidIsCurrent, NoOrphan, SpawnUnanswered, NoticeIsCurrent
  <2>3. MemoryInv'
    BY <1>19 DEF StopCompleted, stop_completed_ok, stop_completed, History, PidIsCurrent,
       FlagsMeanFailing, RestartBudget, RestartsCharged, StopIsFinal, StoppingIsTold
  <2> QED BY <2>1, <2>2, <2>3
<1>20. ASSUME JobTimedOut PROVE IInv'
  <2>1. TypeOK'
    BY <1>20, AdvanceType, ExitedType DEF JobTimedOut, job_timed_out_ok, job_timed_out, World, History, Process, Notice
  <2>2. ProcessInv'
    BY <1>20, AdvanceType DEF JobTimedOut, job_timed_out_ok, job_timed_out, World, NextGenerationUnused, Process, Notice,
       PidIsCurrent, NoOrphan, SpawnUnanswered, NoticeIsCurrent
  <2>3. MemoryInv'
    BY <1>20 DEF JobTimedOut, job_timed_out_ok, job_timed_out, History, PidIsCurrent,
       FlagsMeanFailing, RestartBudget, RestartsCharged, StopIsFinal, StoppingIsTold
  <2> QED BY <2>1, <2>2, <2>3
<1>21. ASSUME Reset PROVE IInv'
  <2>1. TypeOK'
    BY <1>21 DEF Reset, reset_ok, reset, NewRecord, World, History, Process, Notice
  <2>2. ProcessInv'
    BY <1>21 DEF Reset, reset_ok, reset, NewRecord, World, Process, Notice,
       PidIsCurrent, NoOrphan, SpawnUnanswered, NoticeIsCurrent
  <2>3. MemoryInv'
    BY <1>21 DEF Reset, reset_ok, reset, NewRecord, History, PidIsCurrent,
       FlagsMeanFailing, RestartBudget, RestartsCharged, StopIsFinal, StoppingIsTold
  <2> QED BY <2>1, <2>2, <2>3
<1>22. CASE UNCHANGED vars
  BY <1>22 DEF vars, PidIsCurrent, NoOrphan, SpawnUnanswered, NoticeIsCurrent,
       FlagsMeanFailing, RestartBudget, RestartsCharged, StopIsFinal, StoppingIsTold
<1> QED
  BY <1>1, <1>2, <1>3, <1>4, <1>5, <1>6, <1>7, <1>8, <1>9, <1>10, <1>11, <1>12, <1>13, <1>14, <1>15, <1>16, <1>17, <1>18, <1>19, <1>20, <1>21, <1>22 DEF Next, Answer, ProcessStep, Report, Timer, Request

(***************************************************************************)
(* A new record satisfies the invariant.                                   *)
(***************************************************************************)
LEMMA Initially == Init => IInv
<1> SUFFICES ASSUME Init PROVE IInv
  OBVIOUS
<1>1. TypeOK
  <2>1. 0 \in Generations
    BY GenerationAssumption DEF Generations
  <2>2. rec \in ServiceRecord
    BY <2>1 DEF Init, NewRecord, ServiceRecord, ServiceState
  <2> QED BY <2>2 DEF Init, TypeOK
<1>2. spec.restart_limit \in Nat
  BY SpecsAssumption DEF Init, ServiceSpec
<1>3. ProcessInv
  BY DEF Init, NewRecord, ProcessInv, PidIsCurrent, NoOrphan, SpawnUnanswered, NoticeIsCurrent
<1>4. MemoryInv
  BY <1>2 DEF Init, NewRecord, MemoryInv, FlagsMeanFailing, RestartBudget,
     RestartsCharged, StopIsFinal, StoppingIsTold
<1> QED BY <1>1, <1>3, <1>4 DEF IInv

(***************************************************************************)
(* The inductive invariant holds throughout.                               *)
(***************************************************************************)
THEOREM Invariance == Spec => []IInv
<1>1. IInv /\ [Next]_vars => IInv'
  BY Preserved
<1> QED BY Initially, <1>1, PTL DEF Spec

(***************************************************************************)
(* The record, the processes and the history keep their types: in          *)
(* particular the generation stays a u64 and the pid an Option<u32>.       *)
(***************************************************************************)
THEOREM TypeCorrect == Spec => []TypeOK
<1>1. IInv => TypeOK
  BY DEF IInv
<1> QED BY Invariance, <1>1, PTL

(***************************************************************************)
(* A recorded pid is that of the current run, whatever the order of        *)
(* spawns, exits, timeouts and requests.                                   *)
(***************************************************************************)
THEOREM PidAlwaysCurrent == Spec => []PidIsCurrent
<1>1. IInv => PidIsCurrent
  BY DEF IInv, ProcessInv
<1> QED BY Invariance, <1>1, PTL

(***************************************************************************)
(* The record never forgets a live process.                                *)
(***************************************************************************)
THEOREM NoProcessOrphaned == Spec => []NoOrphan
<1>1. IInv => NoOrphan
  BY DEF IInv, ProcessInv
<1> QED BY Invariance, <1>1, PTL

(***************************************************************************)
(* The restart budget bounds the automatic restarts of every descriptor.   *)
(***************************************************************************)
THEOREM BudgetRespected == Spec => []RestartBudget
<1>1. IInv => RestartBudget
  BY DEF IInv, MemoryInv
<1> QED BY Invariance, <1>1, PTL

(***************************************************************************)
(* After a stop nothing but a requested start brings the service back.     *)
(***************************************************************************)
THEOREM StopsAreFinal == Spec => []StopIsFinal
<1>1. IInv => StopIsFinal
  BY DEF IInv, MemoryInv
<1> QED BY Invariance, <1>1, PTL

(***************************************************************************)
(* A process of a stopping record has been told to end.                    *)
(***************************************************************************)
THEOREM StoppingToldAlways == Spec => []StoppingIsTold
<1>1. IInv => StoppingIsTold
  BY DEF IInv, MemoryInv
<1> QED BY Invariance, <1>1, PTL

(***************************************************************************)
(* No step turns a failure that is being cleaned up into a clean stop.     *)
(* Only an exit leaves Stopping while a pid is recorded, and the invariant *)
(* says a recorded failure has one.                                        *)
(***************************************************************************)
THEOREM FailuresNotMasked == Spec => FailureNotMasked
<1> DEFINE Masks == /\ rec.state = "Stopping"
                    /\ rec.start_failed \/ rec.runtime_failed
                    /\ rec'.state # "Stopping"
                    => rec'.state \in {"Backoff", "Failed"}
<1>1. ASSUME IInv, Next PROVE Masks
  <2> SUFFICES ASSUME rec.state = "Stopping", rec.start_failed \/ rec.runtime_failed,
                      rec'.state # "Stopping"
               PROVE  rec'.state \in {"Backoff", "Failed"}
    OBVIOUS
  <2>1. rec.pid # NoPid /\ rec.generation \notin spawning
    BY <1>1 DEF IInv, ProcessInv, MemoryInv, FlagsMeanFailing, PidIsCurrent, SpawnUnanswered
  <2>2. rec \in ServiceRecord /\ spec \in ServiceSpec /\ notices \subseteq Notice
    BY <1>1, SpecsAssumption DEF IInv, TypeOK
  <2>3. CASE Report
    <3>1. PICK n \in notices : ExitReported(n)
      BY <2>3 DEF Report
    <3>2. rec' = exited(spec, rec, n.reason) /\ n.reason \in ExitReason
      BY <2>2, <3>1 DEF ExitReported, Notice
    <3> QED BY <2>2, <3>2, ExitedEffect
  <2>4. CASE Answer
    BY <2>1, <2>2, <2>4
    DEF Answer, Spawned, AnswerRefused, SpawnFailed, Activated, ConditionSkipped,
        AssertionFailed, spawned_ok, spawn_failed_ok, activated_ok, condition_skipped_ok,
        start_failed_ok, check_generation
  <2>5. CASE ProcessStep
    BY <2>5 DEF ProcessStep, Ready, Adopted, ProcessEnds, ready_ok, adopted_ok
  <2>6. CASE Timer
    BY <2>1, <2>6
    DEF Timer, StartPostFailed, StartTimedOut, RuntimeTimedOut, StopTimedOut, StartLimitHit,
        RestartDue, start_timed_out_ok, runtime_timed_out_ok, stop_timed_out,
        start_limit_hit_ok, restart_due_ok
  <2>7. CASE Request
    BY <2>1, <2>7
    DEF Request, StartRequested, StopRequested, StopCompleted, JobTimedOut, Reset,
        start_ok, stop, stop_completed_ok, job_timed_out_ok, reset_ok
  <2> QED BY <1>1, <2>3, <2>4, <2>5, <2>6, <2>7 DEF Next
<1>2. IInv /\ [Next]_vars => [Masks]_vars
  BY <1>1
<1> QED BY Invariance, <1>2, PTL DEF Spec, FailureNotMasked

=============================================================================
