# FractalD in TLA+

A verification project for FractalD, a process manager that runs as a user
daemon or as PID 1. It models what decides the fate of services: the record of
one service, the supervisor's handling of one service and its processes, the
planner, the supervisor that starts and stops services together, the timers and
path watches that start them, the files and control groups made for them, the
steps between fork and exec, the daemon with its registry, event log and
clients, and the tools beside it that change the state of the host (accounts,
package markers, kernels, storage services). TLC checks small instances of each.
TLAPS proves for every instance the safety properties of the service record, the
planner, the managed service (with its refinement of the contract the supervisor
relies on), timers and the calendar, the files and control groups of services,
process set-up, accounts, the package trigger, the machine id and the resolver.

Paths below are relative to `src/`.

## The system

| Part | Where | State | Operations | What is hard |
|---|---|---|---|---|
| Service record | `crates/fractald-core/src/lib.rs` (`ServiceRecord`) | state, pid, generation, restart count, failure flags | one `transition` per event | answers and exits of an older generation, stops racing starts, three places that charge the restart budget |
| Dependency planner | `crates/fractald-core/src/graph.rs` | the registry; worklists and degrees of a call | closures, start and stop orders, best-effort stop order | cycles, missing services, counts in `usize` |
| Managed service | `crates/fractald-supervisor/src/lib.rs` (`ManagedService`) | the record, main process, eight kinds of helper, five deadlines, prepared resources | start, stop, restart, reload, reset, job timeout, poll | everything between two polls: exits, messages, expiry, requests, failing calls |
| Supervisor | same file (`Supervisor`) | registry, services, start jobs, manager action | start with dependencies, stop, restart, reload, isolate, poll, propagation | a job waiting for dependencies that fail, rollback, conflicts, propagation order |
| Activation | same file | listeners, trigger limits, timers and their stamp files, path watches | `trigger_due`, activation by sockets, timers and paths | one instant polled many times, a daemon killed between stamp and start, changes before the first poll |
| Resources of a service | same file | credentials, directories, private /tmp, sockets, control groups | prepare, spawn, clean up, reconcile orphans | a dozen error paths, two services with the same directory, what a killed daemon leaves |
| Process set-up | same file, `crates/fractald-platform/src/platform.c` | credentials, capabilities, filters, namespaces and mounts of one process | some thirty steps between fork and exec | the order of the steps |
| Daemon | `crates/fractald/src/main.rs`, `crates/fractald-control` | registry, markers, transactions, subscriptions, event log | boot, control requests, reload, shutdown | kills, torn lines, clients that go away, reloads under running services |
| Control client | `crates/fractalctl` | none; markers on disk | one command is several requests | other users between the requests, a manager that is not there |
| Accounts | `crates/fractald-sysusers` | passwd, group, shadow, gshadow, a lock | apply directives, replace files | two runs at a time, a cut between two files |
| Package trigger | `crates/fractald-package-trigger` | enablement markers, `packages.index` | sync, verify | cuts, packages and profiles that change |
| Kernels, machine id | `crates/fractald-kernel-install`, `crates/fractald-machine-id` | the boot file system, `/etc/machine-id` | add, add-all, remove; ensure id | kills between files, tokens and layouts that change |
| Storage | `crates/fractald-storage`, `storage-prepare` in `crates/fractald` | generated services, open mappings | generate from fstab, scan, open, scan | an order spelt in names, stale directories, one failing mapping |
| Configuration | `crates/fractald-config` | none | parse descriptors | text |
| Resolver | `crates/fractald-resolved`, `crates/fractald-resolver`, `crates/fractald-resolvectl` | cache and upstreams behind a mutex; listen address, control socket, discovery file | resolve; control requests; resolvectl | a change of the servers while an answer is on its way, files of a killed instance, clients of a service that ends |
| RustyBox, other tools | `rustybox`, ... | files | run once | input and output |

The daemon is single threaded. Its loop polls the supervisor, which polls each
managed service and then propagates what changed; a control request is carried
out between two polls. Concurrency comes from outside: processes end, messages
arrive and time passes at any moment between two of these steps, and every
system call may fail. A managed service drives its record with events and
carries out the actions the record returns; the supervisor asks the planner for
an order before it starts or stops anything.

What makes each part correct:

- record: one main process at most, never one the record does not know; a
  budget of automatic restarts; a stop is final; a failure stays a failure;
- planner: least closures, complete orders that respect every edge, cycles
  reported only when there is one, and an answer for every registry;
- managed service: record and process agree, phases do not overlap, deadlines
  exist while something is waited for, resources are there for the process and
  released after it, starts and stops end, the manager survives;
- supervisor: order and requirements of a start are respected, a failed start
  is rolled back, conflicting services exclude each other, a stop is not undone
  by what was under way, losses reach those bound to the service, jobs and
  shutdowns end;
- activation: an instant is served once, nothing waited for is passed over;
- resources: what exists is held and what is held exists, what FractalD has not
  made is not removed, processes stay in their groups;
- process set-up: no step takes away what a later one needs, and what executes
  is confined as asked;
- daemon and clients: events are numbered and delivered once, the registry is
  sound, running services and records survive reloads, every command returns;
- host tools: nothing that is not theirs is lost, a reported success is one,
  the next boot finds what it needs.

## Modules

| Module | Models | Extends / uses |
|---|---|---|
| `ServiceTransitions` | the methods of `ServiceRecord` as operators: `m_ok` is when `transition` returns `Ok`, `m` the record it leaves, `m_signals` whether it asks for a signal | |
| `ServiceRecord` | one record with its processes, unanswered spawns and unread exits; one action per event | `ServiceTransitions` |
| `ServiceRecordProofs` | the theorems about it | `ServiceRecord`, TLAPS |
| `Dependencies` | what the descriptors say about each other, and what a plan is | |
| `DependencyGraph` | the planner; one action per turn of a loop | `Dependencies` |
| `DependencyGraphProofs` | the theorems about it | `DependencyGraph`, TLAPS |
| `ServiceMethods` | the methods of `ManagedService` as operators | `ServiceTransitions` (as `R`) |
| `ManagedService` | `ManagedService` with its helpers and deadlines; one action per request, one for `poll`, one for each thing that can happen outside | `ServiceMethods`, `ServiceContract` |
| `ManagedServiceProofs` | the theorems about its state, and that it implements `ServiceContract` | `ManagedService`, TLAPS |
| `ServiceView` | a managed service as the supervisor sees it, and what each method may do to this view | |
| `ServiceContract` | the abstract service: a view that changes only in those ways | `ServiceView` |
| `SupervisorMethods` | the methods of `Supervisor` as operators | `Dependencies`, `ServiceView` |
| `Supervisor` | the supervisor in the daemon's loop; one action per request, poll, and event outside | `SupervisorMethods` |
| `Calendar` | calendar expressions and dates as functions | |
| `Triggers` | a timer or path service, its target and its stamp file; one action per poll, start, stop, kill and event outside | `Calendar` |
| `TriggersProofs` | the theorems about timers and dates | `Triggers`, TLAPS |
| `CgroupTree` | the tree of control groups and what the supervisor does to it | |
| `ServiceFiles` | what is made for a service and taken back; one action per step of a start, so that each may fail or be the last before a kill | `CgroupTree` |
| `ServiceFilesProofs` | the theorems about both | `ServiceFiles`, TLAPS |
| `ProcessSetup` | the steps between fork and exec of the four functions that start a process | |
| `ProcessSetupProofs` | the theorems about it | `ProcessSetup`, TLAPS |
| `Walk` | a loop over a sequence, as a function of its position | |
| `Registry` | descriptors on disk, markers, the table of services, aliases and dynamic identities | `Walk` |
| `EventLog` | the lines of the event log, appending, compaction, reading back | `Walk` |
| `Wire` | requests and answers of the control protocol | |
| `Daemon` | boot, the loop, every request, reload, drain | `Registry`, `EventLog`, `Wire` |
| `Fractalctl` | the commands of the client, and the system they make with the daemon | `Daemon` |
| `DaemonProofs` | the theorems about that system | `Fractalctl`, TLAPS |
| `SysUsers`, `Packages`, `Kernels`, `Storage` | the tools, one module each | |
| `Resolver` | the local DNS service, its files and its client | |
| `HostTools` | the tools on one host | the five above |
| `HostToolsProofs` | the theorems about the five tools | `HostTools`, TLAPS |
| `MC...` | the instances for TLC | |

### ServiceRecord

`rec` is the record, `spec` the fields of the descriptor the transitions read.
`spawning` holds the generations whose `Action::Spawn` has not been answered,
`procs` the processes alive, `notices` the exits not yet reported. `told`,
`stop_wanted` and `auto_restarts` are history: whether the process was
signalled, whether the last stop was carried out on a healthy service, and how
often the record restarted itself since the last requested start. Pids may be
reused at once. Generations are numbers of bounded width that wrap to 1, as
`advance_generation` does with `checked_add(1).unwrap_or(1)` on a `u64`; a
generation is taken only when nothing of its earlier use is left
(`NextGenerationUnused`), which 2^64 starts justify.

### DependencyGraph

A name is its rank in the order of `BTreeSet`. The closure drains its queue as
a set (the order only decides which missing service is named). `Place` is the
body of the loop of `topological_order`, shared with the best-effort order;
`BreakCycle` is its branch for a set of names that all wait.

### ManagedService

The structure is the record `m`; each method is an operator from `m` to `m`
whose field `err` says that it returned `Err`, and `Try` is the `?` operator.
Every method takes `f`, the one call of this step that the operating system
fails. `poll` is the chain of the source in its order. An error of a request
goes back to the client; an error of a poll ends `daemon_loop`, which is
`manager = "down"`. Processes are abstracted to "none", "alive", "ended",
helpers to their outcome, deadlines to "none", "armed", "due", and the
directories, credentials, identities and private /tmp of a service to one bit,
`prepared`.

Seen from the supervisor a service is a `View`: its state, whether dependents
may start, whether it is wanted, whether a start is postponed until the previous
run is torn down, whether it is stopped, and how it ended. `ManagedService`
computes this view from its state, and `Contract` says that it implements
`ServiceContract` with it: every step, failing calls included, is one the
abstract service may take. The refinement is what allows `Supervisor` to use
views in place of services.

### Supervisor

`sup` is the `Supervisor` structure: the services as views, the start jobs, the
pending manager action, the sockets and triggers that have something to do.
Methods are operators from this structure to itself, as in `ManagedService`.
A service call goes as it usually does, or (`luck`, at most once per step) has
any other outcome of the set `Surprises` that the contract allows. So a poll in
which a service becomes ready, ends, fails or is lost is a poll with a surprise,
and a start that fails with an error is a start with one.

`mode` is where the daemon is: it polls, serves at most one request, polls
again; a signal, a request or a manager action makes it stop all services and
drain them (`wait_for_shutdown`); an error of a poll makes it leave. The daemon
is taken to be PID 1, so that every manager action is carried out. `held` is
history: the services stopped by request that no job has selected since.

The order of `BTreeMap` and `BTreeSet` iteration is kept: names are ranks, and
a loop over services goes through them in order. A rollback stops services in
reverse order in the code and in any order here, which makes no difference to
views since each call touches its own service only.

### Triggers

`t` is the part of `ManagedService` that belongs to a trigger. A poll is two
steps, `TriggerDue` and `Activate`: the stamp file of a persistent timer is
written in the first and the service started in the second, and the daemon may
be killed in between. An expression is abstracted to the meaning of its tokens
(`Calendar`); `civil_date` is translated with its divisions and compared with a
calendar that counts days (`NextDate`, `Leap`). The wall clock and the monotonic
clock are one and never set back.

### ServiceFiles and CgroupTree

`op` is the start the supervisor is in the middle of; every step of
`prepare_directories`, `spawn_main` and their error paths is an action, `Fail`
is the error path, `Crash` the end of the daemon at any point. `cred`, `dirs`,
`tmps`, `notes`, `sock` and `tree` are what is on disk and in the kernel, `held`
what the fields of the services say about it. When the daemon leaves, its
services are dropped one by one in any order. The next daemon reconciles the
groups in one step whose outcome is a set: a group can be removed only when what
was killed in it is gone. Rules of the kernel (no processes in inner groups,
controllers passed on level by level) are marked in `CgroupTree`.

### ProcessSetup

A step is the name of what is asked for; `setup_steps` is the order of the
closures, `todo` the places in it that are left and `IsNext` the least of them,
`Take` what Linux makes of a step, `Refuse` a step that is refused, by the kernel
or by `platform.c`. The descriptors are all sets of up to three settings, the
paths lie in one another. A process in a private user namespace has all
capabilities there and none over the host (`OfTheHost`), and no mappings, since
`enter_private_users` never writes them (see below). Whether a mount of the host
can be remounted from in there depends on the flags it was mounted with
(`MayRefuse`).

### Daemon and Fractalctl

`disk` has the service directories, markers, log and pid file, `reg` the
registry, `mgr` the process (`pc` is where it is in its loop), `cli` the clients,
each a command in progress. The supervisor is reduced to its interface: which
service is started or stopped, and that processes go on by themselves between
two polls; how it decides is `Supervisor` and `ManagedService`. `mix` chooses
what a behaviour may do, `left` how much of it is left. `sealed` is history: the
names whose mask command has succeeded. The loops over files, names, services and
lines are walks (`Walk`), whose state after every position can be spoken of.

### The host tools

Each tool is a sequence of file operations, every one of which may fail or be
the last. `SysUsers` has several runs at a time, with the lock file between
them; `Packages` and `Kernels` have one run and a world that changes between
runs (package transactions, administrators, a machine id or loader directory
that appears); `Storage` has the load of the daemon, with the generated
directory, and `storage-prepare`. A run of kernel-install goes through the stages
of the tables `AddStage` and `RemoveStage`. What a load has to write is a set
ordered by a key (`Earlier`), since only the later of two units with one
name counts.

`Resolver` has instances that share the listen address, the control path and the
discovery file (`stage` is how far each has come, `port`, `controlFile` and
`discovered` whose they are), `core`, the resolver of the instance with the
address and the query it works on, and `client`, one run of resolvectl. The control
thread waits while the mutex is held (`Locked`), from the look-up until the
upstreams have answered. `clears`, and the fields `era` and `dies` of an entry,
are history: how often the cache was cleared, before which clearing the entry was
asked for, and when its records end.

`HostTools` puts them side by side. Their files
are disjoint, so a behaviour follows the steps of one of them.

## Runs

| Run | Instance | Shows |
|---|---|---|
| `record` | 2 pids, generations 0..3, three descriptors | the seven properties below over every order of answers, exits, timeouts and requests |
| `graph` | 3 names; all sets of up to three `requires`/`wants`/`before` edges and up to two edges of any kind, one name possibly missing | closures, degrees, orders and cycles are right, every call returns, and its result is the plan defined in `Dependencies` that `Supervisor` uses |
| `managed` | 17 descriptors, one for each feature; every call may fail | record and process agree, phases do not overlap, restarts are scheduled, stops win; the service implements its contract |
| `managed_ends` | 7 descriptors all of whose phases are timed, no failing call | deadlines exist when needed, starts and stops end, a restart asked for during a stop happens |
| `manager_survives` | an `ExecCondition` | violation: a condition that outlives its start ends the manager |
| `supervisor` | three services in five registries: ordered, in conflict, bound, activated by connections and a timer, listening; three requests | the properties below for every order of requests, polls, failures and shutdowns |
| `supervisor_ends` | four of the registries, in which no service is started by the end of another | jobs end, shutdowns end, unneeded services are stopped |
| `triggers` | six timers and four path watches over days around the end of February and of the year; three ticks, two stops or kills | instants are served once, persistent timers catch up with what was missed and nothing else, paths are served |
| `resources` | five pairs of services that share slices and directories; two starts, two runs of the daemon, each step may fail | files and groups and the fields of the services agree, nothing foreign is removed |
| `confinement` | all sets of up to three settings, four functions, three paths | no setting starves another, what executes is confined |
| `daemon` | two services, two users, six ways to use a host (`MCMixes`): followers, transactions, reloads, masks, commands, PID 1 | the properties below under kills, restarts, edits and interrupted clients |
| `host` | two runs of sysusers at a time, four packages, two kernels, four fstabs, three mappings, two instances of the resolver | the tools take nothing, tell the truth, and leave a host that boots; the resolver is found and answers from current servers |

A run checks the following. Where a name stands for several parts, the module
defines each part with a comment of its own.

- `record`: `TypeOK`, `PidIsCurrent` and `NoOrphan` (the record knows the only
  process there is), `RestartBudget`, `StopIsFinal`, `StoppingIsTold` (a process
  of a stopping service has been signalled even when it was spawned after the
  stop), `FailureNotMasked`.
- `graph`: `PlannerInv` (`ClosureIsLeast`, `DegreesExact`), `AnswerIsRight`
  (`PlanRespectsOrder`, `CycleIsReal`, `PlanIsReference`), `PlanningEnds`.
- `managed`: `ServiceInv` (`ProcessMatchesRecord`, `OneStartPhase`,
  `CommandsHaveMain`, `BackoffIsScheduled`), `StopWins`, and the refinement
  `Contract`. `managed_ends`: `DeadlinesArmed` (`StopEscalates`, `StartIsTimed`),
  `PhasesEnd` (`StopEnds`, `StopSettles`, `StartEnds`, `AskedAgainComesBack`).
- `supervisor`: `SupervisorInv` (`ConflictsExclusive`, and `HeldStaysDown`: a
  stop is not undone by a job that was pending), `StartsInOrder`, `RolledBack`,
  `LossStopsBound`. `supervisor_ends`: `JobsEnd`, `NothingLingers` (`DrainEnds`,
  `UnneededStops`).
- `triggers`: `TriggerInv` (`CivilDateIsRight`), `FiresOnce` (`OncePerInstant`,
  `CatchUpIsOwed`), `TriggersServe` (`CaughtUp`, `PathIsServed`).
- `resources`: `FilesInv` (`NothingIsLost`, `ResourcesStay`), `GroupsInv`
  (`Contained`, `OrphansEnd`), `ForeignIsKept`.
- `confinement`: `NothingStarves`, `Confined` (`InForce`, `PathsAsListed`).
- `daemon`: `EventsDelivered` (`EventsInOrder`, `FollowersSeeAll`),
  `RegistrySound` (`OwnIdentities`, `AliasesSound`, `MaskHolds`), `RecordsKept`
  (`TransactionsAreHonest`, `RunningKeepsItsSpec`), `OrderlyEnd`
  (`OnlyLostAnswersEndIt`, `PowerAfterDrain`), `CommandsReturn`.
- `host`: `AccountsSound` (`IdsUnique`, `OwnGroup`), `MarkersFollow`
  (`MarkersFollowPackages`, `IndexCoversMarkers`), `BootIsPossible`
  (`EntriesBoot`, `FstabServed`, `MountOrder`, `StorageReady`), `ResolverSound`
  (`EndpointIsOwn`, `CacheIsCurrent`, `RepliesMatch`), `NothingIsTaken`
  (`AccountsStay`, `ForeignMarkersKept`, `MachineIdStays`), `SuccessIsTrue`
  (`RunsComplete`, `RemovedIsGone`).

### Bounds

- `MaxGeneration = 3`: a wrap-around, and a spawn answer that is two
  generations late, both happen. Two pids: one process and one that reuses or
  replaces it. `restart_limit` of 1 or 2: the budget is exhausted.
- Three names hold a cycle and a name that only waits for it; a self-edge is a
  cycle of one. Two edges of different kinds between the same names are
  counted once by `add_edge`, and the instance has them.
- Two pids (a process and the daemon it may leave behind) and generations 0..2
  for `ManagedService`: the record's own protection against stale answers is
  the subject of `record`; here the generation only separates the run before a
  restart from the one after it.
- One descriptor per feature rather than every combination: the features meet
  in the record and in the deadlines they share, and each descriptor exercises
  all requests, timeouts and faults against its feature.
- Three services for `Supervisor`: a job with a requirement and a wish that are
  ordered, a conflict with a service that something else requires, a service
  with one bound to it and one that is part of it. Three requests: one to bring
  a job under way, one to disturb it, one more. One surprise per step: two
  events in one poll are the two polls one after the other, except where both
  fall between the same two looks at the services.
- `Surprises` has one outcome of each kind the supervisor tells apart. In
  `supervisor_ends` no service goes to `Backoff`: a stop during the stop of a
  failed start leaves it there for ever (see below), and with it the shutdown.
- `Triggers`: the ticks of 1, 30 and 60 seconds and a day land on, before and
  after an instant; with two stops a timer is missed, caught up and stopped
  again. `ScanSeconds` stands for the 370 days of `calendar_missed_since`.
- `ServiceFiles`: two starts are one that fails and its retry, or two services
  next to each other; two runs are a crash and what the next daemon finds.
- `ProcessSetup`: two settings are what disturbs and what is disturbed, the third
  is what makes it matter (an identity, a namespace).
- `Daemon`: one record is a full table of transactions; three events make
  compaction happen; `MaxSequence` is where numbers saturate; two users are the
  one who masks and the one who disturbs. Each mix has as many commands, edits,
  kills and boots as its question needs.
- `HostTools`: three runs of sysusers are two at a time and one after a cut; four
  transactions install, remove and reinstall a package around a cut sync; three
  installs add, replace and remove a kernel; three loads change fstab twice. Four
  inputs of the resolver are a killed instance, two that follow it and one more, or
  a start, a query, a change of servers and a second query; at two seconds entries
  expire, the shorter lifetime before the cap. Instances are symmetric. Two attempts
  stand for the five of resolvectl.

### Fairness

`FairSpec` of the planner is weak fairness of `Next`: the loops run. That of
`ManagedService` assumes that the daemon polls (every turn of `daemon_loop`),
that armed deadlines pass, and that a process that received SIGKILL ends. A
process may ignore SIGTERM, a helper may hang and READY=1 may never come. The
liveness properties speak of the time after the last request (`~ clients`),
since every stop request gives the process its full time again.

`FairSpec` of `Supervisor` assumes that the daemon polls as long as a poll would
change something, that deadlines pass, and that no service stays for ever on
its way up or down, which is what `StartEnds`, `StopEnds` and `StopSettles` of
`managed_ends` show of a service whose phases are timed. The first of these is
the weak fairness of a poll without surprises, written with the state predicate
`Idle` in place of `ENABLED`. The ten seconds of the shutdown wait are not
assumed to pass: `DrainEnds` says that the services stop by themselves.

`FairSpec` of `Triggers` assumes that the daemon, while it runs, polls and
carries a poll through. That of `Fractalctl` assumes that the loop of a manager
that is up makes its steps, and that a client that has its answer goes on; a
client may be interrupted, a manager killed, and nothing makes either return.
`daemon_loop` waits at most two seconds for a request (main 1454) and half a
second for a new subscriber (1367), and writes events without blocking (1381);
that an answer fits into the buffer of its socket is assumed.

## Disagreements found

`manager_survives` shows that a condition which outlives its start timeout ends
the manager. TLC also found counterexamples to the following statements of the
repository; they are the reason why the properties above are stated the way they
are:

- "relaxing cycle edges for shutdown" (supervisor 591):
  `plan_all_stop_best_effort` frees the last name with a positive degree
  (`graph.rs:102`), which may only wait for a cycle, so edges on no cycle are
  given up too;
- "service_directories_are_created_and_exported_to_the_child" (supervisor
  11209, 11244): `handle_exit` releases directories, credentials and private
  /tmp (3105), and the automatic restart spawns without preparing them again;
- "explicit_stop_cancels_backoff" (core 1935): a stop while a failed start is
  being stopped is ignored, and the exit leads to `Backoff` without a restart
  time (core 1469);
- "stop_escalates_to_kill" (core 2059): `handle_stop_post_exit` clears
  `stop_deadline` also when it belongs to a later stop (2748), which is then
  never escalated;
- pending jobs (supervisor 883, 9755): `progress_start_jobs` takes all jobs out
  and returns at the first error (700), dropping every other pending job.

In a managed service, modelling showed the following; they follow from three
causes (a helper that outlives its phase, a deadline shared by several phases,
and a restart that skips the code a requested start runs):

- an automatic restart does not run `ExecCondition` again
  (`exec_conditions_done` stays set, supervisor 2304-2321);
- an automatic restart with `ExecStartPre` has no start deadline until its main
  process is spawned (3087, 4069);
- a job timeout of an `Exited` service makes it `Failed` while its stop command
  still runs; a start that follows does not wait for that command, whose end
  clears the deadline of the next stop (1939, 1846, 2765);
- a start that times out before its process exists does not release what was
  prepared (2277-2302), so the shutdown wait runs into its ten seconds;
- `restart_after_stop` set during the stop of a failing service survives the
  back-off and restarts the service after a later clean exit (3111-3133);
- `stop_with_signal` arms a deadline for `ExecStop` of an active service and
  its last branch clears it (2045, 2071): the branch of `poll` that would kill
  the helper (2263-2275) is never taken.

In the supervisor:

- a service bound to a service that is bound to a lost one stays up: the
  propagation goes one level, and the next poll compares with a snapshot in
  which the middle one is already stopping (1140-1203), while the planner says
  that a binding means "propagating later loss of the bound unit"
  (`crates/fractald-core/src/graph.rs:284`). The same holds for a service
  stopped by the rollback of a cancelled job in a stop request. `LossStopsBound`
  is therefore stated for services that are bound to nothing themselves;
- a wanted service whose requirement has failed is never attempted, and one
  that failed and is reset before its job has ended is never complete: such a
  job pends until its timeout, if it has one, and while it pends no unneeded
  service is stopped (1003-1057, 1245). `JobsEnd` leaves these jobs out;
- `restart` looks neither at conflicts nor at dependencies (555-582), hence the
  restriction in `ConflictsExclusive`;
- a required service that fails in a job advanced by `poll` ends the daemon,
  since the error of its start is that of the poll (929, main 1428-1430);
- `OnFailure` and `OnSuccess` services are started while a shutdown drains the
  others, and then keep it from ending (1205, 1306; `wait_for_shutdown` drops
  only the manager actions);
- the start of a lost mount takes its snapshot after the loss was noted, so that
  nothing bound to the mount is stopped (460, 472).

In activation:

- a plain number in `matches_component` matches every value from it on
  (7635-7663);
- `calendar_missed_since` looks at whole minutes only, so expressions with
  seconds are not caught up with;
- a changed or modified path that changes between the start of the watch and the
  first poll is not noticed; edges and instants while the target is busy are
  dropped;
- the stamp is written before the start: a run may be lost, never doubled. A
  timer that is stopped and started within the second fires for it again;
- the accuracy delay is ignored for calendar timers without a random delay, but
  not for their catch-up: one that is put off comes on top of a calendar fire in
  the meantime, even when that fire was for the second in which the timer was
  started. `CatchUpIsOwed` is about a timer that has not fired since its start.

In the resources of a service:

- a delegated domain controller makes the attachment of the process fail;
- `reconcile_orphans` passes over groups made only for a device policy,
  delegation or an OOM policy, and over processes in inner delegated groups;
- the device filter is detached while survivors remain, and the empty group
  stays when they have ended; an error with the pidfd kills the main process only;
- a daemon killed between the credential directory and its marker leaves a
  directory every later start refuses; private /tmp directories of a killed
  daemon are never removed; an existing FIFO is taken over and removed.

In process set-up:

- setting the identity clears the parent death signal that was set first;
- `ProtectProc=ptraceable` passes a mode `platform.c` rejects;
- `fractald_enter_private_users` writes no mappings: `result` holds the length
  `snprintf` returned when `result == 0` is asked (platform.c 1881, 1917, 1923), so
  uid_map and gid_map stay empty and it reports success. What follows finds the
  effective user 65534: `User=` and `Group=` are refused (except for a user with
  that number, who passes for the current one), and so are the device nodes of
  `PrivateDevices`, `ProtectProc`, a negative nice value or OOM adjustment;
  remounts of the host's mounts are refused if these have flags that are locked;
- a limit of ten descriptors or fewer refuses socket activation;
- the remount read-only is not recursive.

In the daemon and its client:

- a reload compares descriptors with specs in which a dynamic user was filled
  in, so it restarts every running service with `DynamicUser` (main 609);
- a reload that fails part-way leaves services stopped; dependents it stopped are
  not started again; start jobs survive the removal of their service;
- a masked name cannot be stopped or queried either; masking an alias masks
  nothing; one symlink or unparsable file, even masked, refuses the whole boot
  or reload; the boot profile does not look at masks set during the boot;
- `add` strips ".svc" from aliases, `collect_aliases` does not;
- a start transaction of a service that is still `Exited` is done at once;
  cancelled transactions stay pending and are never pruned;
- a torn line "seq=1" of "seq=12" reads as event 1; compaction by size does not
  shrink a log of long lines; `docs/ARCHITECTURE.md:69-71` says "Updates are
  written atomically" of files written with `fs::write`;
- a client that goes away before its answer ends the manager (main 1667); PID 1
  whose services take more than ten seconds to drain returns an error;
- `fractalctl start` kills a manager that is not ready after its attempts, and
  clients have no read timeout.

In the host tools:

- sysusers: a cut between passwd and group leaves a user whose group is never
  made, and since `used_ids` ignores the gids of passwd, another group may take
  its number (`OwnGroup` excludes runs after a cut); the lock of a killed run blocks all
  later ones; the lock is not that of the shadow tools;
- packages: the marker of a sync cut before its index outlives a package removed
  before the next sync; a descriptor that two packages list is refused as declared
  twice, though it is one file; a service that is packaged, outside the profile and
  enabled by hand is disabled by the next sync;
- kernels: a generated initrd is copied onto itself, which empties it;
  reinstalling truncates a kernel its entry still names; a token or layout that
  has changed since leaves files behind; `--make-entry-directory=no` leaves the
  kernel; initrds of the flat layout are shared by all versions and never removed; the
  removal of a kernel deletes the module index before plugins that may fail;
- machine id: a torn file is an error for ever; two runs at a time may print
  different ids;
- storage: removing fstab leaves the services of the old one; targets with ".."
  collide; `x-fractald.after=` and `x-fractald.before=` may close a circle, and
  `x-fractald.requires=` may name what does not exist, without an error; the
  `x-fractald.before=` of a swap is passed over; a cryptsetup that cannot be run
  ends storage-prepare for a nofail mapping too; bind mounts, loop and swap files are not ordered after the mount that
  holds them; UUID= and LABEL= sources have no device service;
- resolver: `DiscoveryLease::update` is never called, so the discovery file keeps
  the servers of the start after `resolvectl dns`; cached answers keep their
  original lifetimes; the lifetime field of an EDNS record counts (it holds flags,
  mostly 0), so answers with one are mostly not cached; a shutdown is noticed only
  when a receive times out or is interrupted, so a busy service does not stop; a
  control client that never closes its side blocks the control thread; `resolvectl
  status` reports success when the service ends before it answers; instances with
  different listen addresses and the same control path may remove each other's
  socket (`EndpointIsOwn` is about one address).

## Proofs

Each theorem is about `Spec` (`HostSpec` for the tools) and all values of the
constants that satisfy the named assumptions; TLC evaluates the same assumptions
on its instances. None of the properties is inductive. Each proof states an
inductive invariant, shows one action at a time that it is kept, and derives the
property from it; PTL combines the steps.

| Theorem | States | Assumes |
|---|---|---|
| `TypeCorrect`, `PidAlwaysCurrent`, `NoProcessOrphaned`, `BudgetRespected`, `StopsAreFinal`, `StoppingToldAlways`, `FailuresNotMasked` | every property of run `record` | `PidAssumption`, `StatusAssumption`, `GenerationAssumption`, `SpecsAssumption` |
| `PlannerIsExact`, `PlannerIsRight` | `PlannerInv`, `AnswerIsRight` | `NamesAssumption` (names are finitely many ranks), `GraphsAssumption` (a mount a registry orders after is loaded) |
| `ServiceAlwaysSound`, `StopAlwaysWins` | `ServiceInv`, `StopWins` | `ManagedAssumption` (two pids, the statuses the code makes up, a limit that is a number) |
| `StopsEscalate`, `StartsAreTimed`, `DeadlinesAlwaysArmed` | the parts of `DeadlinesArmed` and the whole, of descriptors that qualify (below) | the same |
| `ServiceKeepsContract` | `Contract`, the refinement of `ServiceContract` | the same |
| `CivilDateCounts` | day 0 is 1970-01-01, and day n+1 has the date after that of day n, for every n: `civil_date` is the calendar | none |
| `CalendarIsRight`, `InstantsAreServedOnce` | `TriggerInv`, `FiresOnce` | `TriggersAssumption` (well-formed descriptors, ticks of at most a day) |
| `FilesAreHeld`, `GroupsHoldTheirs`, `ForeignStays` | `FilesInv`, `GroupsInv`, `ForeignIsKept`: every property of run `resources` | `PlansAssumption` (descriptors are of their type; no service has the name of a slice a service is in) |
| `SetupNeverStarves`, `ProcessesAreConfined` | `NothingStarves`, `Confined` | `SetupAssumption`, `DescriptorsAssumption` (settings are those there are) |
| `EndsInOrder`, `RecordsAreKept`, `RegistryIsSound`, `LogInOrder`, `EventsAreDelivered` | every safety property of run `daemon` (`LogInOrder` is `EventsInOrder`, a part of `EventsDelivered`) | `RegistryAssumption` (names are in an order, hashes and the identities in use are among the identities there are), `EventLogAssumption`, `WireAssumption`, `DaemonAssumption` (the log keeps at least a line, as `EventJournal::open` sees to), `MixesAssumption` (`Names` are all the names anybody uses; a log that is there at first was left by a manager that ended by itself) |
| `AccountsAreSound` | `AccountsSound` | `SysUsersAssumption`, `EtcAssumption` (the files at first share no numbers) |
| `RunsAreComplete`, `RemovedIsReallyGone`, `SuccessIsAlwaysTrue` | `SuccessIsTrue` and its parts | the same, `KernelsAssumption`, `KernelNamesAssumption` (no version is "all" and no token "flat", two names the model makes up) |
| `EntriesAlwaysBoot`, `StorageIsReady`, `FstabIsServed`, `MountsCanFollow`, `BootIsProvided` | `BootIsPossible` and each of its four parts, for every fstab and its options | those of `Kernels`, `StorageAssumption` (each volume has a tool that scans for it) |
| `MarkersAlwaysFollow` | `MarkersFollow` | `PackagesAssumption` (services are in the order of services) |
| `NothingIsEverTaken` | `NothingIsTaken`: accounts, foreign markers and the machine id stay | those of the tools, `KernelsAssumption` |
| `ResolverIsSound` | `ResolverSound` | `ResolverAssumption` |

### ServiceRecordProofs

`IInv == TypeOK /\ ProcessInv /\ MemoryInv`:

- `ProcessInv` adds `SpawnUnanswered` (an unanswered spawn belongs to no
  process) and `NoticeIsCurrent` (an unread exit is that of the recorded
  process, and the only one): without them a late answer could overwrite the
  pid of a process, and a stale exit could free it;
- `MemoryInv` adds `FlagsMeanFailing` (a failure is remembered only while its
  process is being stopped or for good, and then no healthy stop was carried
  out) and `RestartsCharged` (each automatic restart was charged before it
  happened): without them `StopIsFinal` and `RestartBudget` do not survive an
  exit.

The two halves are shown preserved separately, with one step per action, and
combined in `Invariance`. What an exit does is summarised once in a lemma and
used for both.

### DependencyGraphProofs

`PlannerIInv` says what the worklists are between two turns of a loop:
`ClosureInv` (what is taken or pending is within every closed set, and what the
taken names pull in is taken or pending), `PlacedInv` (no name is placed twice,
and what is placed is a prefix of what `start_order` of `Dependencies` grows),
`EdgesInv` (edges and degrees are those among the names that are left) and
`AnswerInv` (a cycle is reported only when every name that is left waits for
one that is left). The degrees are cardinalities, so that removing a name and
decrementing its successors is a lemma about finite sets. `start_order` is a
recursive function; a fact about all its values is proved by looking at the
first number for which it fails. That the names left in a cycle contain a real
one (`CycleIsReal`) follows from their number being finite.

### ManagedServiceProofs

`ManagedIInv` is `Sound(u, m)`, and `Held(m)` after a stop request. `Sound` has
four parts: `Typed`; `ProcessLinked`, which ties the state of the record, its
pid, the process and the commands run beside it; `PhasesLinked`, which says how
far a start with a condition or start helpers has come; and `RestartLinked` (a
wanted service in back-off has a restart time). Every method of
`ServiceMethods` has a lemma that it keeps `Sound`, also when its call fails.
Inside a start the restart time is gone before the record leaves `Backoff`, so
the parts of a start keep `Coherent`, which is `Sound` without it. What may
become wanted is carried along as `Quiet`: no step but a request makes a service
wanted, and what comes up was wanted. `StopWins` is then `Held` and `Quiet`.

`Armed` is the invariant about deadlines. Its lemmas run beside those about
`Sound`: most steps are `Same` (record, helpers and deadlines as before), a
record that comes to rest needs no deadline, and a start goes through `Begun`,
where its deadline may be missing, to its process, which has one. What is proved
is as much as the code keeps:

- a start is timed from its beginning when there is no `ExecCondition` and no
  `ExecStartPre` (`StartsBare`), otherwise from its process on, since an
  automatic restart skips `start`, which arms `start_deadline`;
- a stop escalates when no command runs without a main process (`StopsBare`: no
  `ExecStopPost`, and a service with `ExecStop` is never `Active`), since the
  end of such a command clears `stop_deadline` whosever it is.

`has_stop` alone is no exception: `ExecStop` beside a process has no deadline of
its own. Dropping either condition makes TLC find the behaviours that are listed
among the disagreements of a managed service.

The last part is the refinement. Its mapping is the view of `ServiceView`. Every lemma says which
relation of `ServiceView` a method establishes between the views before and
after. A poll is a chain of parts, and the contract allows it to do several
things at once: the proof goes along the chain with what the view has become so
far, and a start begun in this poll (`Fresh`) is left alone by the parts that
follow, which is why a poll never both starts a service and reports its end.
Steps of the environment leave the view as it is.

### TriggersProofs

`civil_date` computes the date of a day from four divisions. The proof
characterises each quotient by its two linear inequalities, shows that era,
year of the era, day of the year and month move on together at the ends of
months, of February in leap years and of eras, and concludes that the result for
day n+1 is `NextDate` of the result for day n.

`TriggersIInv` adds to types and clock: `InstantsInv` (an instant that is to be
fired after its delay is later than the last one fired, without which a delayed
instant could be fired twice), `ServedInv` (the stamp file, when every write of
it has succeeded, is no older than any instant served, which carries
`OncePerInstant` over a kill) and `OwedInv` (a catch-up that is to come was
missed by the file as it is, until the timer fires).

### ServiceFilesProofs

`FilesIInv` says where every step of a start leaves what it has made.

- `OpInv`, `HeldInv` and `NumbersInv`: the phase of the service that is being
  started, what its fields say in each phase, and that no two services hold the
  resources of the same start. Without the last, ending one service could
  remove the private /tmp of another.
- `CredInv`, `TmpsInv`, `NotesInv`, `SockInv`: what this run of the daemon has
  made is held by a field or named by the start in progress (`op`), at
  precisely the steps between making it and recording it.
- `DirsInv`: a directory that is to be removed, and is there, was made by
  FractalD; one that is held and gone is listed by another service too.
- `ProcsInv` and `TreeInv`: a process of the start in progress appears with the
  fork; the groups of two services are apart, so that the clean-up of one
  removes no group, filter or controller that another depends on (`GroupsApart`,
  `CleanupKeeps`); a group that has a process or a group below it stays.
- `OrphansEnd`: the group of a service without delegated controllers has no
  children (`OnlyChild`), so `reconcile_cgroup_tree` kills what is in it.

Every error path ends a service in the same way (`Ending`): the lemmas
`PreparingEnds`, `SpawningEnds`, `LimitsEnd` and `ServiceEnds` say that each of
them does, and `EndingKeeps` shows once that it keeps the invariant. `DownKeeps`
is the same for a kill and an orderly end.

### ProcessSetupProofs

The order of the steps is a table of places; `OrderInv` says that what is done
comes before what is to do, so a step finds every earlier one done and no later
one. `IdentityInv`, `CapsInv`, `FilterInv` and `MountInv` say which steps the
identity, the capability sets, the filters and the mounts depend on: for
instance the effective set is full until the identity or the bounding set of
the process is changed, and no filter in force blocks what a step that is left
uses. They hold until exec, which changes the capabilities once more;
`NothingStarves` and `Confined` are part of the invariant since they speak of
what is left behind. `IdentityInv` says with `keep` and `userns` what a private
user namespace takes away; that an identity is never set after one (it is
refused) is what keeps the ambient capabilities permitted. `RefusedOnly` derives
the exceptions of `NothingStarves` from the step that is refused.

### HostToolsProofs

Tools do not share files, so each invariant is untouched by the steps of the
other tools.

- `UsersIInv`: one run holds the lock (`LockInv`); what it has in memory extends
  what is on disk and differs only in the files it has still to write
  (`WorkInv`); the files are sound, and whole unless a run was cut between two of
  them or is between two of them (`EtcInv`). What one directive does is
  the relation `Grown`: entries are added, members join, numbers stay unique.
- `PackagesIInv`: `LoopsInv` says of a run in the middle of its three loops
  that a marker which is to go is still in front of the loop that removes it.
- `MachineIInv`: who is about to write has found no id.
- `KernelsIInv`: until an add has written its entry there is none that could be
  booted, or it is being written over, and every image of it is whole or still in
  front of the run (`Adding`); what a removal has behind it is gone
  (`Removing`); every file and entry is where an add has put it (`BootFiles`,
  `BootEntries`), from which `RemovedIsGone` follows: a version known under one
  layout and token has nothing anywhere else.
- `PrepareIInv`: the mappings storage-prepare has passed are open, and what the
  second round of scans has passed is up. The first round promises nothing.
- `LoadIInv`: what a load has written is of the fstab it has read, and what is
  missing it still has to write. Two names are equal only if their lines are, as
  duplicate targets are refused. `MountOrder` follows from the units one by one:
  each wait between two of them is one the lines demand (`Demanded`), so a circle
  of units would be a circle of lines, which `Followable` excludes. That an
  ordinary fstab is `Followable` is the lemma `NestingIsFollowable`: with plain
  targets, and no `x-fractald.after=` or `x-fractald.before=` among what is
  generated, the targets around a circle would get shorter and shorter.
- `ResolverIInv`: the listen address excludes two instances (`LifeInv`), the
  cache is bounded, numbered and of the current era, and nothing is cleared while
  upstreams are asked since the lock is held from the look-up to the answer
  (`CoreInv`), and what the client has been told is so (`ClientInv`).

### DaemonProofs

`DeliveryIInv` is the conjunction of what the five theorems need.

- `EndIInv`: the queue of the listener has each client once, the client that is
  being answered has asked for something other than the events, and is there or
  was interrupted. A lost answer is then that of an interrupted client.
- `NamedInv`: every name in a command or on the wire is one of `Names`.
- `TableInv` is `RegOK`: identities differ, aliases lead to services. `Follows`
  relates two tables: what is up in the first is in the second with its
  descriptor and identity, and no masked name is new. Loading a name, starting
  with what is needed, a poll and a boot follow, by induction along the walk
  (`Climb`); a reload follows since it keeps the entry of every service that is
  up, and what it loads is in the specs it has read.
- `TxsInv` and `RecordsStep`: numbers of transactions are below the next one, so
  a new record replaces none; pruning drops settled ones.
- `MaskInv`: a sealed name is masked on disk and not in the table. Between the
  marker and the answer RELOADED there are several steps of several actors:
  `HoldsInv` (who holds a mask finds the marker), `ServedInv` and `ToldInv` (while
  the reload a mask asked for is carried out, answered and read, the name is
  neither in the specs nor in the table) say what is so at each of them. A
  reload that began before the marker was set may still load the name; only then
  is nobody told.
- `LogInv`: the log is `Numbered`. From some line on, each line was written when
  the next number was some k: a whole line has that number, half a line has at
  most it, and only half a line with all its digits has used it up. What is in
  front of that line are halves. Appending, tearing, compacting and opening
  keep this, and `OpenSequence`, which takes the greatest number in the file,
  finds the next one (`NumberedOpen`), also where numbers saturate.
- `FeedInv`: between two turns every follower is `Fed`, that is, the number after
  its last event is the next one. Lines that are observed and not yet sent are in
  `fresh`, and a follower that is given them will be `Fed`. What a subscriber
  gets from the log, from any number on, leaves it `Fed` (`NumberedFeeds`):
  the log is read to the end by the step that makes it a follower.

### What the attempts showed

- `Satisfied` of sysusers was too strong: an existing user keeps its primary
  group, whatever the directive names.
- Accounts stay only where gshadow has no group that group lacks: the assumption
  on the first files says so.
- A catch-up under an accuracy delay is not always owed (see activation above).
- Two services with the same listener path replace each other's socket:
  `prepare_unix_socket_path` removes a socket that is in the way, whoever bound
  it. `NothingIsLost` and `ResourcesStay` speak of listeners that no other
  service has (`OwnListeners`).
- A service with the name of a slice directory would share its control group
  with the services of the slice, and clean-up and reconciliation of one would
  kill the others. Nothing in the code forbids the name; `PlansAssumption`
  excludes it, since no descriptor that comes with FractalD has it.
- The lines of an fstab may demand a circle by themselves (`x-fractald.after=` and
  `x-fractald.before=`, or two spellings of nested targets), and an option may
  require what has no service. `generate_services` passes both on unseen, so
  `MountOrder` says that it adds no circle (`Followable`) and no missing name of
  its own. A mount whose target has ".." in it goes by a name its children do not
  look for (`Spelled`). The run has an fstab of each kind.
- A transition that the record refuses ends the method before it clears
  `start_deadline`; the model had cleared it (`Activate`, `BecomeReady`,
  `CompleteStop`).
- A socket service that comes back after a back-off opens its listeners again
  and has no process (`SpawnStep`); the model had sent it through `spawn_main`.

### Only model-checked

- All liveness (`PlanningEnds`, `PhasesEnd`, `JobsEnd`, `NothingLingers`,
  `TriggersServe`, `CommandsReturn`): fairness and `ENABLED` are out of the
  prover's reach.
- `Supervisor`: `start_with_origin` is a recursive operator, since an activation
  starts further services, and tlapm has no SMT backend in a module that reaches
  one.
- `DeadlinesArmed` of services with `ExecCondition`, `ExecStartPre`,
  `ExecStopPost` or a stop command after the main process: it is false of some,
  as said above.

## Not modelled

- Configuration: parsing and validation of descriptors, the table of system call
  groups. Text handling without state; what it yields is the input of every
  module.
- The bytes of DNS packets and the NSS module, RustyBox (independent applets), the
  numeric maps of `fractald chaos`, and the tools that read tables and print or set kernel
  parameters (tmpfiles, sysctl, udevadm, analyze, journalctl): input and output,
  no protocol between steps.
- In the supervisor: conditions (7665-8383, reads of the host), the journal
  forwarder, terminals and log files, expansion of the environment, the seccomp
  and device programs themselves, connections in the style of inetd. A listening socket whose service
  waits in a job starts it again at each poll, which adds a job each time
  (766-844); the instances have no such service. `mark_spawn_failed` keeps the
  start deadline (4182): the model has it, and does not measure how much is left.
- In the daemon and client: the initramfs entry, a second daemon that races for
  the socket, `show_events`, `is_enabled`, the boot profile and `doctor` commands.
- In the tools: power cuts that reorder writes (only kills), `inspect` and
  `list` of kernel-install, print actions of sysusers, device names that are not
  ASCII, wall clocks set back. TLC's integers end in 2038; the theorem about
  `civil_date` has no such bound.

The vendored crates are third-party code.

## Plan

Every safety property of the passing runs but the four of run `supervisor` is
proved. What is left is the supervisor: its proof
would need `start_with_origin` as a relation between the view before and after
instead of a recursive operator.
