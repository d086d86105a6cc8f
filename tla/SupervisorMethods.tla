--------------------------- MODULE SupervisorMethods ---------------------------
(***************************************************************************)
(* The methods of crates/fractald-supervisor, Supervisor: transactions     *)
(* that start a service with what it depends on, and the propagation of    *)
(* what happens to one service to the others.                              *)
(*                                                                         *)
(* A method is an operator from the structure x to the structure it leaves *)
(* behind; x.err says that it returned Err.  e.g is the registry, e.luck   *)
(* the one service call of the step that does not go as usual.  Services   *)
(* are the views of ServiceView, names are canonical, and the descriptors  *)
(* handed over by sockets are left out.                                    *)
(***************************************************************************)
EXTENDS Dependencies, SequencesExt, ServiceView

ASSUME OrderAssumption == Names = 1 .. Cardinality(Names)

\* What the supervisor reads of the descriptors.  Actions are their priorities:
\* 0 none, 1 exit, 2 halt, 3 reboot, 4 poweroff.
Registry ==
  [loaded : SUBSET Names,
   requires : Relation, binds_to : Relation, mounts : Relation,
   wants : Relation, wanted_mounts : Relation,
   after : Relation, before : Relation, requisite : Relation,
   conflicts : Relation, part_of : Relation,
   on_failure : Relation, on_success : Relation, activates : Relation,
   kind : [Names -> {"Simple", "Notify", "Oneshot", "Socket", "Accept", "Trigger"}],
   refuse_manual_start : SUBSET Names, refuse_manual_stop : SUBSET Names,
   stop_when_unneeded : SUBSET Names, mounted : SUBSET Names,
   allow_isolate : SUBSET Names, ignore_on_isolate : SUBSET Names,
   job_timeout : SUBSET Names, job_timeout_action : [Names -> 0 .. 4],
   failure_action : [Names -> 0 .. 4], success_action : [Names -> 0 .. 4]]

StartJob == [root : Names, selected : SUBSET Names, required : SUBSET Names,
             conflicts : SUBSET Names, attempted : SUBSET Names, started : SUBSET Names,
             deadline : {"none", "armed", "due"}]

\* asked is a history: the names selected by the jobs begun in this step.
NewSupervisor(g) ==
  [services |-> [n \in g.loaded |-> NewView], start_jobs |-> <<>>, action |-> 0,
   waiting |-> {}, activating |-> FALSE, err |-> FALSE, asked |-> {}]

Err(x) == [x EXCEPT !.err = TRUE]

Forgive(x) == [x EXCEPT !.err = FALSE]

InOrder(names) == SelectSeq([i \in 1 .. Cardinality(Names) |-> i], LAMBDA n : n \in names)

\* Do Op for each name in turn, up to the first error.
ForEach(x, names, Op(_, _)) ==
  FoldLeft(LAMBDA y, n : IF y.err THEN y ELSE Op(y, n), x, InOrder(names))

With(x, F(_)) == CHOOSE r \in {F(y) : y \in {x}} : TRUE

Try(x, F(_)) == With(x, LAMBDA y : IF y.err THEN y ELSE F(y))

-----------------------------------------------------------------------------
(***************************************************************************)
(* Calls of a service.                                                     *)
(***************************************************************************)

started(kind, v) ==
  [NewView EXCEPT !.wants = TRUE, !.stopped = FALSE,
     !.ready = (kind = "Simple"),
     !.state = CASE kind \in {"Simple", "Oneshot"} -> "Running"
                 [] kind = "Notify" -> "Starting"
                 [] OTHER -> "Active"]

usual_start(kind, v) ==
  IF service_was_up(v) THEN [v EXCEPT !.wants = TRUE, !.again = FALSE]
  ELSE IF v.state = "Stopping" \/ (v.state = "Exited" /\ ~ v.stopped)
  THEN [v EXCEPT !.wants = TRUE, !.again = TRUE]
  ELSE started(kind, v)

usual_stop(v) ==
  LET idle == [v EXCEPT !.wants = FALSE, !.again = FALSE, !.ready = FALSE]
  IN  CASE v.state \in {"Starting", "Running"} -> [idle EXCEPT !.state = "Stopping"]
        [] v.state \in {"Active", "Backoff"} ->
             [idle EXCEPT !.state = "Exited", !.stopped = TRUE,
                          !.exit = IF v.state = "Backoff" THEN "bad" ELSE @]
        [] OTHER -> idle

usual_restart(kind, v) ==
  IF v.state \in {"Starting", "Running", "Stopping"}
  THEN [v EXCEPT !.state = "Stopping", !.ready = FALSE, !.wants = TRUE, !.again = TRUE]
  ELSE IF v.state \in {"Active", "Backoff"} THEN started(kind, v)
  ELSE usual_start(kind, v)

usual_time_out(v) ==
  LET idle == [v EXCEPT !.wants = FALSE, !.again = FALSE]
  IN  CASE v.state \in {"Starting", "Running"} ->
             [idle EXCEPT !.state = "Stopping", !.ready = FALSE]
        [] v.state \in {"Stopping", "Active"} -> idle
        [] OTHER -> [idle EXCEPT !.state = "Failed", !.stopped = TRUE, !.exit = "none"]

usual(method, kind, v) ==
  CASE method = "start" -> usual_start(kind, v)
    [] method = "stop" -> usual_stop(v)
    [] method = "restart" -> usual_restart(kind, v)
    [] method = "mark_job_timeout" -> usual_time_out(v)
    [] method = "reset_failed" ->
         IF v.state = "Failed" THEN [NewView EXCEPT !.wants = v.wants] ELSE v
    [] OTHER -> v

may(method, v, w) ==
  CASE method = "start" -> may_start(v, w)
    [] method = "stop" -> may_stop(v, w)
    [] method = "restart" -> may_restart(v, w)
    [] method = "poll" -> may_poll(v, w)
    [] method = "refresh_lost_mount" -> may_refresh(v, w)
    [] OTHER -> FALSE

\* What comes of a call that does not go as usual; a poll gives up no wish.
Outcome(luck, v) ==
  IF luck.method = "poll" THEN [luck.view EXCEPT !.wants = @ /\ v.wants] ELSE luck.view

call(e, x, n, method) ==
  IF /\ e.luck.name = n /\ e.luck.method = method
     /\ may(method, x.services[n], Outcome(e.luck, x.services[n]))
  THEN [x EXCEPT !.services[n] = Outcome(e.luck, @), !.err = e.luck.err]
  ELSE [x EXCEPT !.services[n] = usual(method, e.g.kind[n], @)]

-----------------------------------------------------------------------------
(***************************************************************************)
(* Questions.                                                              *)
(***************************************************************************)

Known(e, names) == names \cap e.g.loaded

States(x) == [n \in DOMAIN x.services |-> x.services[n].state]

service_is_ready_without_start(x, n) ==
  x.services[n].state \in {"Active", "Exited", "Skipped"} \/ x.services[n].ready

\* Mutant: a service that has ended is not done with its start.
service_start_complete_not_ended(x, n) ==
  x.services[n].state \in {"Active", "Skipped", "Failed"} \/ x.services[n].ready

service_start_complete(x, n) ==
  x.services[n].state \in {"Active", "Exited", "Skipped", "Failed"} \/ x.services[n].ready

required_dependency_is_unavailable(e, x, n) ==
  \/ x.services[n].state = "Failed"
  \/ x.services[n].state = "Skipped" /\ n \notin e.g.mounted

required_dependency_failed(e, x, job) ==
  \E n \in job.required \cap job.attempted : required_dependency_is_unavailable(e, x, n)

check_requisites(e, x, n) ==
  /\ n \in e.g.loaded
  /\ \A r \in e.g.requisite[n] :
       /\ r \in e.g.loaded
       /\ x.services[r].state \in {"Active", "Exited"} \/ x.services[r].ready

\* Mutant: only services that are required hold a start back.
start_blockers_required(e, n, job) == required_dependencies(e.g, n) \cap job.selected

\* The members of the job that n has to wait for.
start_blockers(e, n, job) ==
  {d \in job.selected : \/ d \in required_dependencies(e.g, n)
                        \/ d \in e.g.after[n]
                        \/ n \in e.g.before[d]}

start_dependencies_ready(e, x, n, job) ==
  \A d \in start_blockers(e, n, job) :
    /\ ~ (/\ d \in required_dependencies(e.g, n)
          /\ required_dependency_is_unavailable(e, x, d))
    /\ \/ service_is_ready_without_start(x, d)
       \/ d \in job.attempted /\ service_start_complete(x, d)

\* In both directions: what the selected services conflict with, and what
\* conflicts with them.
conflicts_for(e, selected) ==
  {c \in e.g.loaded : \/ \E s \in selected : c \in e.g.conflicts[s]
                      \/ c \notin selected /\ e.g.conflicts[c] \cap selected # {}}

dependent_names(e, source, include_part_of) ==
  {n \in e.g.loaded \ {source} : \/ source \in e.g.binds_to[n]
                                 \/ include_part_of /\ source \in e.g.part_of[n]}

has_active_dependent(e, x, source) ==
  \E n \in e.g.loaded \ {source} :
    /\ service_was_up(x.services[n])
    /\ \/ source \in required_dependencies(e.g, n) \cup e.g.wants[n]
       \/ e.g.kind[n] \in {"Socket", "Accept"} /\ source \in e.g.activates[n]

request_manager_action(x, action) ==
  IF action > x.action THEN [x EXCEPT !.action = action] ELSE x

is_stopped(x) ==
  x.start_jobs = <<>> /\ \A n \in DOMAIN x.services : x.services[n].stopped

-----------------------------------------------------------------------------
(***************************************************************************)
(* Start jobs.                                                             *)
(***************************************************************************)

\* Errors of a rollback are ignored.
rollback_start_job(e, x, job) ==
  ForEach(x, job.started, LAMBDA y, n : Forgive(call(e, y, n, "stop")))

\* Mutant: only the jobs of the service itself are called off.
Concerns_root(job, n) == job.root = n

Concerns(job, n) == n = job.root \/ n \in job.selected

cancel_start_jobs(e, x, n) ==
  FoldLeft(LAMBDA y, job : rollback_start_job(e, y, job),
           [x EXCEPT !.start_jobs = SelectSeq(@, LAMBDA job : ~ Concerns(job, n))],
           SelectSeq(x.start_jobs, LAMBDA job : Concerns(job, n)))

stop_dependents(e, x, source, include_part_of) ==
  ForEach(x, dependent_names(e, source, include_part_of),
          LAMBDA y, n : call(e, cancel_start_jobs(e, y, n), n, "stop"))

\* A job in progress is [x, job, verdict]; "go" until it is decided whether it
\* is still pending.
Decide(p, verdict) == [p EXCEPT !.verdict = verdict]

\* Mutant: an aborted job leaves behind what it has started.
Abort_keeps(e, p) == Decide(p, "ended")

Abort(e, p) == [p EXCEPT !.x = rollback_start_job(e, @, p.job), !.verdict = "ended"]

\* The service was started; only an error of a required one ends the job.
AfterStart(e, p, n) ==
  LET tried == [p EXCEPT !.job.attempted = @ \cup {n}]
  IN  IF ~ p.x.err THEN [tried EXCEPT !.job.started = @ \cup {n}]
      ELSE IF n \notin p.job.required THEN [tried EXCEPT !.x = Forgive(@)]
      ELSE [Abort(e, [tried EXCEPT !.x = Forgive(@)]) EXCEPT !.x = Err(@)]

Attempt(e, p, n) ==
  IF p.verdict # "go" \/ n \in p.job.attempted THEN p
  ELSE IF n # p.job.root /\ service_is_ready_without_start(p.x, n)
  THEN [p EXCEPT !.job.attempted = @ \cup {n}]
  ELSE IF ~ start_dependencies_ready(e, p.x, n, p.job) THEN p
  ELSE AfterStart(e, [p EXCEPT !.x = call(e, @, n, "start")], n)

AbortIfFailed(e, p) ==
  IF p.verdict = "go" /\ required_dependency_failed(e, p.x, p.job) THEN Abort(e, p) ELSE p

Turns(n) == [i \in 1 .. n |-> i]

\* One turn of the loop over the members of the job.
AttemptAll(e, p) ==
  AbortIfFailed(e, FoldLeft(LAMBDA q, n : Attempt(e, q, n), p,
                            InOrder(p.job.selected)))

start_job_complete(x, job) ==
  \A n \in job.selected : n \in job.attempted /\ service_start_complete(x, n)

Conclude(p) ==
  IF p.verdict # "go" THEN p
  ELSE Decide(p, IF start_job_complete(p.x, p.job) THEN "ended" ELSE "pending")

timeout_start_job(e, x, job) ==
  request_manager_action(rollback_start_job(e, call(e, x, job.root, "mark_job_timeout"), job),
                         e.g.job_timeout_action[job.root])

\* Each turn attempts a member or is the last one, so that one turn for each
\* name and one more are enough.
progress_start_job(e, x, job) ==
  LET p == [x |-> x, job |-> job, verdict |-> "go"]
  IN  IF job.deadline = "due" /\ ~ start_job_complete(x, job)
      THEN [Decide(p, "ended") EXCEPT !.x = timeout_start_job(e, x, job)]
      ELSE IF \E c \in job.conflicts : ~ x.services[c].stopped THEN Decide(p, "pending")
      ELSE Conclude(FoldLeft(LAMBDA q, i : AttemptAll(e, q), p, Turns(Cardinality(Names) + 1)))

KeepPending(p) ==
  IF p.verdict = "pending"
  THEN [p.x EXCEPT !.start_jobs = Append(@, p.job)] ELSE p.x

\* The jobs are taken out before the first one is looked at: an error loses
\* all of them.
progress_jobs(e, x) ==
  With(FoldLeft(LAMBDA y, job : IF y.err THEN y ELSE KeepPending(progress_start_job(e, y, job)),
                [x EXCEPT !.start_jobs = <<>>], x.start_jobs),
       LAMBDA y : IF y.err THEN [y EXCEPT !.start_jobs = <<>>] ELSE y)

-----------------------------------------------------------------------------
(***************************************************************************)
(* Activation and propagation, which start further services.               *)
(***************************************************************************)

RECURSIVE start_with_origin(_, _, _, _)

\* Errors of a start that nobody waits for are only logged.
start_quietly(e, x, n) == Forgive(start_with_origin(e, x, n, FALSE))

Activatable(x, names) == {n \in names : x.services[n].state \in Resting}

ActiveOf(e, x, kinds) ==
  {n \in e.g.loaded : e.g.kind[n] \in kinds /\ x.services[n].state = "Active"}

Fails(e, n, method) == e.luck.name = n /\ e.luck.method = method /\ e.luck.err

\* Start a service for each connection: without one there is nothing to do.
accept_connection(e, x, socket) ==
  IF Fails(e, socket, "accept") THEN Err(x)
  ELSE IF socket \notin x.waiting THEN x
  ELSE ForEach([x EXCEPT !.waiting = @ \ {socket}], Known(e, e.g.activates[socket]),
               LAMBDA y, n : start_quietly(e, y, n))

\* A socket on the way through the loop: p.ordinary are the services that have
\* to be started as soon as their sockets listen, after the loop.
ActivateFor(e, p, socket) ==
  IF p.x.err \/ Activatable(p.x, Known(e, e.g.activates[socket])) = {} THEN p
  ELSE IF e.g.kind[socket] = "Accept"
  THEN [p EXCEPT !.x = accept_connection(e, @, socket)]
  ELSE [p EXCEPT !.ordinary = @ \cup Known(e, e.g.activates[socket])]

progress_socket_activation_inner(e, x) ==
  With(FoldLeft(LAMBDA p, s : ActivateFor(e, p, s), [x |-> x, ordinary |-> {}],
                InOrder(ActiveOf(e, x, {"Socket", "Accept"}))),
       LAMBDA p : ForEach(p.x, p.ordinary, LAMBDA y, n : start_quietly(e, y, n)))

progress_socket_activation(e, x) ==
  IF x.activating THEN x
  ELSE [progress_socket_activation_inner(e, [x EXCEPT !.activating = TRUE])
          EXCEPT !.activating = FALSE]

\* A trigger that is due is spent whether or not its service can be started.
progress_trigger_activation(e, x) ==
  LET due == ActiveOf(e, x, {"Trigger"}) \cap x.waiting
      fire(y, t) == ForEach(y, Known(e, e.g.activates[t]),
                            LAMBDA z, n : IF z.services[n].state \in Resting
                                          THEN start_quietly(e, z, n) ELSE z)
  IN  ForEach([x EXCEPT !.waiting = @ \ due], due, fire)

progress_start_jobs(e, x) ==
  Try(Try(progress_jobs(e, x), LAMBDA y : progress_socket_activation(e, y)),
      LAMBDA y : progress_trigger_activation(e, y))

\* Services that were up and are down now.
Lost(x, before) ==
  {n \in DOMAIN before : /\ before[n] \in {"Starting", "Running", "Active"}
                         /\ ~ service_was_up(x.services[n])}

\* Mutant: bindings are propagated only when the service was given up.
propagate_bindings_given_up(e, x, before) ==
  ForEach(x, {n \in Lost(x, before) : ~ x.services[n].wants},
          LAMBDA y, n : stop_dependents(e, y, n, TRUE))

\* The names, and whether each was given up, are collected first.
propagate_bindings(e, x, before) ==
  ForEach(x, Lost(x, before),
          LAMBDA y, n : stop_dependents(e, y, n, ~ x.services[n].wants))

Succeeded(x, before) ==
  {n \in DOMAIN before : /\ before[n] \notin {"Active", "Exited"}
                         /\ x.services[n].state \in {"Active", "Exited"}
                         /\ x.services[n].exit # "bad"}

propagate_successes(e, x, before) ==
  ForEach(x, Succeeded(x, before),
          LAMBDA y, n :
            ForEach(request_manager_action(y, IF x.services[n].exit = "ok"
                                              THEN e.g.success_action[n] ELSE 0),
                    Known(e, e.g.on_success[n]), LAMBDA z, s : start_quietly(e, z, s)))

Broken(x, before) ==
  {n \in DOMAIN before : before[n] # "Failed" /\ x.services[n].state = "Failed"}

propagate_failures(e, x, before) ==
  ForEach(x, Broken(x, before),
          LAMBDA y, n :
            ForEach(request_manager_action(y, e.g.failure_action[n]),
                    Known(e, e.g.on_failure[n]), LAMBDA z, s : start_quietly(e, z, s)))

Unneeded(e, x) ==
  {n \in e.g.stop_when_unneeded \cap e.g.loaded :
     service_was_up(x.services[n]) /\ ~ has_active_dependent(e, x, n)}

\* Each turn of the loop stops a service that is up.
reap_unneeded(e, x) ==
  IF x.start_jobs # <<>> THEN x
  ELSE FoldLeft(LAMBDA y, i : IF y.err THEN y
                              ELSE ForEach(y, Unneeded(e, y), LAMBDA z, n : call(e, z, n, "stop")),
                x, Turns(Cardinality(Names)))

\* What follows a step that has changed services.
propagate(e, x, before) ==
  Try(Try(Try(propagate_bindings(e, x, before),
              LAMBDA y : propagate_successes(e, y, before)),
          LAMBDA y : propagate_failures(e, y, before)),
      LAMBDA y : reap_unneeded(e, y))

\* Stop what conflicts with the transaction.
clear_conflicts(e, x, conflicts) ==
  ForEach(x, conflicts,
          LAMBDA y, c : Try(call(e, cancel_start_jobs(e, y, c), c, "stop"),
                            LAMBDA z : stop_dependents(e, z, c, TRUE)))

begin_start_job(e, x, n, selected) ==
  [x EXCEPT !.asked = @ \cup selected,
            !.start_jobs =
              Append(@, [root |-> n, selected |-> selected,
                         required |-> closure(e.g, n, "required_closure"),
                         conflicts |-> conflicts_for(e, selected),
                         attempted |-> {}, started |-> {},
                         deadline |-> IF n \in e.g.job_timeout THEN "armed" ELSE "none"])]

\* Start n with what it pulls in, of which nothing may conflict with the rest.
transact(e, x, n, selected) ==
  IF conflicts_for(e, selected) \cap selected # {} THEN Err(x)
  ELSE Try(Try(clear_conflicts(e, x, conflicts_for(e, selected)),
               LAMBDA y : progress_start_jobs(e, begin_start_job(e, y, n, selected))),
           LAMBDA y : propagate(e, y, States(x)))

start_with_origin(e, x, n, manual) ==
  IF n \notin e.g.loaded THEN Err(x)
  ELSE Try(call(e, x, n, "refresh_lost_mount"),
           LAMBDA y :
             IF \/ manual /\ n \in e.g.refuse_manual_start
                \/ ~ check_requisites(e, y, n)
                \/ missing(e.g, n, "plan_start")
                \/ cyclic(e.g, closure(e.g, n, "plan_start"))
             THEN Err(y)
             ELSE transact(e, y, n, closure(e.g, n, "plan_start")))

-----------------------------------------------------------------------------
(***************************************************************************)
(* Requests and the poll.                                                  *)
(***************************************************************************)

stop(e, x, n) ==
  IF n \notin e.g.loaded \/ n \in e.g.refuse_manual_stop THEN Err(x)
  ELSE Try(call(e, cancel_start_jobs(e, x, n), n, "stop"),
           LAMBDA y : stop_dependents(e, y, n, TRUE))

restart(e, x, n) ==
  IF n \notin e.g.loaded THEN Err(x)
  ELSE Try(call(e, x, n, "refresh_lost_mount"),
           LAMBDA y :
             IF n \in e.g.refuse_manual_start \cup e.g.refuse_manual_stop THEN Err(y)
             ELSE Try(Try(Try(Try(stop_dependents(e, cancel_start_jobs(e, y, n), n, TRUE),
                                  LAMBDA z : call(e, z, n, "restart")),
                              LAMBDA z : propagate_bindings(e, z, States(y))),
                          LAMBDA z : propagate_failures(e, z, States(y))),
                      LAMBDA z : reap_unneeded(e, z)))

\* The order of a shutdown, with cycles relaxed if there are any.
stop_order(e) == Reverse(start_order(e.g, e.g.loaded, cyclic(e.g, e.g.loaded)))

\* Mutant: pending start jobs survive a shutdown.
stop_all_keeps_jobs(e, x) ==
  FoldLeft(LAMBDA y, n : IF y.err THEN y ELSE call(e, y, n, "stop"), x, stop_order(e))

stop_all(e, x) ==
  FoldLeft(LAMBDA y, n : IF y.err THEN y
                         ELSE Try(call(e, y, n, "stop"),
                                  LAMBDA z : stop_dependents(e, z, n, TRUE)),
           [x EXCEPT !.start_jobs = <<>>], stop_order(e))

\* The services an isolation leaves alone.
kept(e, n) ==
  closure(e.g, n, "plan_start") \cup
    UNION {{i} \cup (IF missing(e.g, i, "plan_start") \/ cyclic(e.g, closure(e.g, i, "plan_start"))
                     THEN {} ELSE closure(e.g, i, "plan_start")) :
           i \in e.g.ignore_on_isolate \cap e.g.loaded}

cancel_isolation_jobs(e, x, keep) ==
  FoldLeft(LAMBDA y, job : rollback_start_job(e, y, job),
           [x EXCEPT !.start_jobs = SelectSeq(@, LAMBDA job : job.selected \subseteq keep)],
           SelectSeq(x.start_jobs, LAMBDA job : ~ (job.selected \subseteq keep)))

isolate(e, x, n) ==
  IF \/ n \notin e.g.loaded \/ n \notin e.g.allow_isolate
     \/ missing(e.g, n, "plan_start") \/ cyclic(e.g, closure(e.g, n, "plan_start"))
  THEN Err(x)
  ELSE Try(Try(start_with_origin(e, cancel_isolation_jobs(e, x, kept(e, n)), n, TRUE),
               LAMBDA y : ForEach(y, e.g.loaded \ kept(e, n),
                                  LAMBDA z, c : call(e, cancel_start_jobs(e, z, c), c, "stop"))),
           LAMBDA y : reap_unneeded(e, y))

poll_services(e, x) ==
  ForEach(x, e.g.loaded,
          LAMBDA y, n : Try(call(e, y, n, "refresh_lost_mount"),
                            LAMBDA z : call(e, z, n, "poll")))

poll(e, x) ==
  Try(Try(poll_services(e, x), LAMBDA y : progress_start_jobs(e, y)),
      LAMBDA y : propagate(e, y, States(x)))

=============================================================================
