------------------------------- MODULE Supervisor -------------------------------
(***************************************************************************)
(* The supervisor in the daemon's loop (crates/fractald, daemon_loop and   *)
(* wait_for_shutdown): poll, then serve at most one request, and so on     *)
(* until a shutdown drains the services.  The methods are those of         *)
(* SupervisorMethods; the services behave as ServiceView allows.  The      *)
(* daemon is PID 1.                                                        *)
(***************************************************************************)
EXTENDS SupervisorMethods

CONSTANTS Registries,    \* the registries to choose from
          Surprises,     \* calls that do not go as usual: [method, view, err]
          MaxRequests,   \* bound on the requests served
          MaxJobs        \* bound on the start jobs pending when a request is served

ASSUME SupervisorAssumption ==
  /\ \A r \in Registries : r \in Registry /\ MountsLoaded(r)
  /\ MaxRequests \in Nat /\ MaxJobs \in Nat

VARIABLES g,        \* the registry
          sup,      \* the Supervisor
          mode,     \* where the daemon is
          clients,  \* requests yet to come
          held      \* history: stopped on request, and not asked for since

vars == <<g, sup, mode, clients, held>>

Modes == {"poll",       \* about to poll
          "serve",      \* polled, about to serve a request
          "draining", "down",
          "gave_up"}    \* left by an error

\* At most one call of a step does not go as usual.
NoSurprise == [name |-> 0, method |-> "none", view |-> NewView, err |-> FALSE]

Surprise(n, s) == [name |-> n, method |-> s.method, view |-> s.view, err |-> s.err]

\* The surprises that may come to n in a step.
Timely(n, s) ==
  CASE s.method \in {"poll", "refresh_lost_mount"} ->
         may(s.method, sup.services[n], Outcome(s, sup.services[n]))
    [] s.method = "accept" -> g.kind[n] = "Accept"
    [] OTHER -> TRUE

Lucks(methods) ==
  {NoSurprise} \cup {Surprise(p[1], p[2]) :
     p \in {q \in g.loaded \X {s \in Surprises : s.method \in methods} : Timely(q[1], q[2])}}

Env(luck) == [g |-> g, luck |-> luck]

Up(n) == service_was_up(sup.services[n])

-----------------------------------------------------------------------------

Init ==
  /\ g \in Registries
  /\ sup = NewSupervisor(g)
  /\ mode = "poll" /\ clients = MaxRequests /\ held = {}

Fresh(x) == [x EXCEPT !.err = FALSE, !.asked = {}]

Settle(x) == sup' = Fresh(x) /\ g' = g

\* A request is answered, with an error or not; the daemon polls again.
Serve(x, stopped) ==
  /\ Settle(x)
  /\ mode' = "poll"
  /\ clients' = clients - 1
  /\ held' = (held \ x.asked) \cup stopped

Requested == mode = "serve" /\ clients > 0

StartService(n) ==
  /\ Requested /\ Len(sup.start_jobs) < MaxJobs
  /\ \E l \in Lucks({"start", "stop", "refresh_lost_mount"}) :
       Serve(start_with_origin(Env(l), sup, n, TRUE), {})

StopService(n) ==
  /\ Requested
  /\ \E l \in Lucks({"stop"}) :
       Serve(stop(Env(l), sup, n), {n} \ g.refuse_manual_stop)

RestartService(n) ==
  /\ Requested
  /\ \E l \in Lucks({"restart", "stop", "refresh_lost_mount"}) :
       LET x == restart(Env(l), sup, n)
       IN  Serve([x EXCEPT !.asked = @ \cup {n}], {})

IsolateService(n) ==
  /\ Requested /\ Len(sup.start_jobs) < MaxJobs
  /\ \E l \in Lucks({"start", "stop", "refresh_lost_mount"}) : Serve(isolate(Env(l), sup, n), {})

ResetFailed(n) ==
  /\ Requested
  /\ Serve(call(Env(NoSurprise), sup, n, "reset_failed"), {})

\* Shutdown by request or by a signal.  An error is answered to a client, and
\* ends the daemon when there is none.
Shutdown(x, answered) ==
  /\ Settle(x)
  /\ mode' = IF ~ x.err THEN "draining" ELSE IF answered THEN "poll" ELSE "gave_up"
  /\ clients' = IF answered THEN clients - 1 ELSE clients
  /\ held' = held \ x.asked

ShutdownRequest ==
  Requested /\ \E l \in Lucks({"stop"}) : Shutdown(stop_all(Env(l), sup), TRUE)

ShutdownSignal ==
  mode \in {"poll", "serve"} /\ \E l \in Lucks({"stop"}) : Shutdown(stop_all(Env(l), sup), FALSE)

PollMethods == {"poll", "start", "stop", "refresh_lost_mount", "accept"}

\* The end of a poll: a requested manager action shuts the daemon down.
Polled(x) ==
  /\ Settle(IF x.err \/ x.action = 0 THEN x
            ELSE stop_all(Env(NoSurprise), [x EXCEPT !.action = 0]))
  /\ mode' = IF x.err THEN "gave_up" ELSE IF x.action # 0 THEN "draining"
             ELSE IF clients > 0 THEN "serve" ELSE "poll"
  /\ held' = held \ x.asked
  /\ UNCHANGED clients

PollWith(l) == mode \in {"poll", "serve"} /\ Polled(poll(Env(l), sup))

Poll == \E l \in Lucks(PollMethods) : PollWith(l)

\* While draining, manager actions are dropped.
Drained(x) ==
  /\ Settle([x EXCEPT !.action = 0])
  /\ mode' = IF x.err THEN "gave_up" ELSE "draining"
  /\ held' = held \ x.asked
  /\ UNCHANGED clients

DrainWith(l) == mode = "draining" /\ ~ is_stopped(sup) /\ Drained(poll(Env(l), sup))

Drain == \E l \in Lucks(PollMethods) : DrainWith(l)

Down ==
  /\ mode = "draining" /\ is_stopped(sup) /\ mode' = "down"
  /\ UNCHANGED <<g, sup, clients, held>>

\* The services did not stop in time.
GiveUp ==
  /\ mode = "draining" /\ ~ is_stopped(sup) /\ mode' = "gave_up"
  /\ UNCHANGED <<g, sup, clients, held>>

Running == mode \in {"poll", "serve", "draining"}

\* The deadline of a start job passes.
JobExpires(i) ==
  /\ Running /\ sup.start_jobs[i].deadline = "armed"
  /\ sup' = [sup EXCEPT !.start_jobs[i].deadline = "due"]
  /\ UNCHANGED <<g, mode, clients, held>>

\* A client connects to a socket, or what a trigger watches for happens.
Connect(n) ==
  /\ Running /\ n \in ActiveOf(Env(NoSurprise), sup, {"Accept", "Trigger"}) \ sup.waiting
  /\ clients > 0 /\ clients' = clients - 1
  /\ sup' = [sup EXCEPT !.waiting = @ \cup {n}]
  /\ UNCHANGED <<g, mode, held>>

Ended == mode \in {"down", "gave_up"} /\ UNCHANGED vars

Next ==
  \/ \E n \in g.loaded : \/ StartService(n) \/ StopService(n) \/ RestartService(n)
                         \/ IsolateService(n) \/ ResetFailed(n) \/ Connect(n)
  \/ ShutdownRequest \/ ShutdownSignal \/ Poll \/ Drain \/ Down \/ GiveUp
  \/ \E i \in 1 .. Len(sup.start_jobs) : JobExpires(i)
  \/ Ended

Spec == Init /\ [][Next]_vars

-----------------------------------------------------------------------------

\* Services, jobs and the daemon have their types, every view is one that a
\* service can have, and between two steps no activation is in progress.
TypeOK ==
  /\ g \in Registries
  /\ DOMAIN sup.services = g.loaded
  /\ \A n \in g.loaded : sup.services[n] \in View /\ WellFormed(sup.services[n])
  /\ \A i \in 1 .. Len(sup.start_jobs) : sup.start_jobs[i] \in StartJob
  /\ sup.action \in 0 .. 4 /\ sup.waiting \subseteq g.loaded
  /\ ~ sup.activating /\ ~ sup.err /\ sup.asked = {}
  /\ mode \in Modes /\ clients \in 0 .. MaxRequests /\ held \subseteq g.loaded

Conflict(m, n) == m \in g.conflicts[n] \/ n \in g.conflicts[m]

\* Two services that conflict are never up together, whatever is started,
\* cancelled, timed out or lost meanwhile: a job waits until what it conflicts
\* with is stopped, and calls off the jobs that would bring it back.  (A restart
\* does not look at conflicts; services that refuse it are the ones in question.)
ConflictsExclusive ==
  \A m, n \in g.loaded :
    (Conflict(m, n) /\ {m, n} \subseteq g.refuse_manual_stop) => ~ (Up(m) /\ Up(n))

\* A service that was stopped on request is not up until it is asked for again:
\* by a request, a socket, a trigger or a handler that selects it, but never by
\* what was under way when it was stopped.
HeldStaysDown == \A n \in held : ~ Up(n)

\* What is up may be up: no two opponents, and nothing that was stopped on
\* request and is not asked for again.
SupervisorInv == TypeOK /\ ConflictsExclusive /\ HeldStaysDown

Started(x) == UNION {x.start_jobs[i].started : i \in 1 .. Len(x.start_jobs)}

Blocks(d, n) ==
  \/ d \in required_dependencies(g, n) \cup g.after[n]
  \/ n \in g.before[d]

\* A job starts a service only when what it comes after has been brought up, has
\* ended or has failed, and what it requires has not failed.
StartsInOrder ==
  [][\A i \in 1 .. Len(sup'.start_jobs) :
       \A n \in sup'.start_jobs[i].started \ Started(sup) :
         \A d \in sup'.start_jobs[i].selected :
           Blocks(d, n) => /\ service_start_complete(sup', d)
                           /\ d \in required_dependencies(g, n) => sup'.services[d].state # "Failed"]_vars

Pending(x, job) ==
  \E i \in 1 .. Len(x.start_jobs) :
    x.start_jobs[i].root = job.root /\ job.started \subseteq x.start_jobs[i].started

Broke(x, job) == \E n \in job.required \cap job.attempted : x.services[n].state = "Failed"

\* A job that a poll ends because something it requires has failed leaves nothing
\* up that it has started.  (A start request that fails drops all jobs as they
\* are.)
RolledBack ==
  [][\A i \in 1 .. Len(sup.start_jobs) :
       LET job == sup.start_jobs[i]
       IN  (/\ clients' = clients /\ mode' # "gave_up"
            /\ ~ Pending(sup', job) /\ Broke(sup', job)) =>
             \A n \in job.started : ~ service_was_up(sup'.services[n])]_vars

\* A bound service does not outlive, at the end of the step, the service it is
\* bound to when that one is lost by itself.
LossStopsBound ==
  [][\A a, b \in g.loaded :
       (b \in g.binds_to[a] /\ g.binds_to[b] \cup g.part_of[b] = {} /\ Up(b)) =>
         (service_was_up(sup'.services[b]) \/ ~ service_was_up(sup'.services[a]))]_vars

-----------------------------------------------------------------------------
(***************************************************************************)
(* Liveness.                                                               *)
(***************************************************************************)

\* A service on its way up or down.
Unsettled(n) ==
  \/ sup.services[n].state \in {"Starting", "Stopping"}
  \/ sup.services[n].state = "Running" /\ ~ sup.services[n].ready

Over == mode \in {"down", "gave_up"}

\* A poll without surprises, and whether it would leave all as it is.
Turn == PollWith(NoSurprise) \/ DrainWith(NoSurprise)

LeavesAlone(x) == Fresh(x) = sup /\ ~ x.err /\ x.action = 0

Idle == Over \/ (mode = "draining" /\ is_stopped(sup)) \/ LeavesAlone(poll(Env(NoSurprise), sup))

\* The daemon polls as long as there is something to do, time passes, and no
\* service is on its way for ever.
FairSpec ==
  /\ Spec
  /\ []<>Idle \/ []<><<Turn>>_vars
  /\ WF_vars(Down)
  /\ WF_vars(\E i \in 1 .. Len(sup.start_jobs) : JobExpires(i))
  /\ \A n \in Names : []<>(n \in g.loaded => (Over \/ ~ Unsettled(n)))

\* Once nobody asks for anything any more, the start jobs end: by success, by
\* failure or by their timeout.  (A job that only wants some service and has no
\* timeout may wait for ever.)
JobsEnd ==
  (clients = 0 /\ \E i \in 1 .. Len(sup.start_jobs) :
                    \/ sup.start_jobs[i].deadline # "none"
                    \/ sup.start_jobs[i].selected = sup.start_jobs[i].required)
    ~> (Over \/ \A i \in 1 .. Len(sup.start_jobs) :
                   /\ sup.start_jobs[i].deadline = "none"
                   /\ sup.start_jobs[i].selected # sup.start_jobs[i].required)

\* A shutdown comes to an end by itself: all services stop and none comes up again.
DrainEnds == (mode = "draining") ~> Over

\* n is up and nothing that is up requires, wants or activates it.
Idling(n) ==
  /\ n \in g.loaded /\ Up(n)
  /\ \A m \in g.loaded \ {n} :
       Up(m) => n \notin required_dependencies(g, m) \cup g.wants[m] \cup g.activates[m]

\* A service that is to be stopped when it is not needed is stopped when nobody
\* that is up needs it and nothing is being started.
UnneededStops ==
  \A n \in Names :
    (n \in g.stop_when_unneeded /\ Idling(n) /\ sup.start_jobs = <<>>)
      ~> (Over \/ ~ Idling(n) \/ sup.start_jobs # <<>>)

\* Nothing stays up that is to go down: all services in a shutdown, and the
\* ones nobody needs any more.
NothingLingers == DrainEnds /\ UnneededStops
=============================================================================
