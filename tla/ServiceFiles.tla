---------------------------- MODULE ServiceFiles ----------------------------
(* What the supervisor makes on disk and in the kernel for a service       *)
(* before its process runs, what it takes back when the service is done    *)
(* or a step fails, and what a daemon that was killed leaves behind.       *)
(*                                                                         *)
(* The supervisor is one thread: `op` is the start it is in the middle of. *)
(* Each of its steps is an action, so that the daemon may be killed and    *)
(* processes may fork and end between any two. A step either succeeds or   *)
(* fails; Fail is the error path of the code for that step.                *)
EXTENDS CgroupTree, Integers

CONSTANTS
    Names,      \* the names of files, directories and services
    Plans,      \* sets of descriptors, a function from service names each
    Foreign,    \* credential directories that are there and not FractalD's
    Existing,   \* directories that may be there at first
    MaxStarts,  \* bound: how many processes are started
    MaxRuns     \* bound: how often the daemon is started

\* Paths are sequences of names, and a service has no name of a slice.
Path == Seq(Names)
Descriptor ==
    [credentials : BOOLEAN, directories : Seq([path : Path, runtime : BOOLEAN]),
     private_tmp : BOOLEAN, slice : Path, controllers : SUBSET Controllers,
     devices : BOOLEAN, delegate : SUBSET Controllers, user : BOOLEAN,
     listeners : Path, remove_on_stop : BOOLEAN]

ASSUME PlansAssumption ==
    /\ "own" \in Names /\ "/" \notin Names
    /\ MaxStarts \in Nat /\ MaxRuns \in Nat \ {0} /\ Existing \subseteq Path
    /\ \A p \in Plans : \A s \in DOMAIN p :
           /\ s \in Names /\ p[s] \in Descriptor
           /\ \A r \in DOMAIN p : s \notin ToSet(p[r].slice)

VARIABLES
    plan,       \* the descriptors
    up,         \* whether the daemon runs
    run,        \* how often it was started
    starts,     \* how many starts were begun
    op,         \* the start in progress, or Idle
    held,       \* what the fields of each ManagedService say
    cred,       \* the credential directory of each service
    dirs,       \* the service directories, sequences of path components
    full,       \* those that are not empty
    tmps,       \* the private /tmp directories
    notes,      \* the paths of notification sockets
    tree,       \* the control groups and the processes
    sock,       \* what is at the path of a listener: None, File, or the start that bound it
    made        \* history: the directories that FractalD has made

vars == <<plan, up, run, starts, op, held, cred, dirs, full, tmps, notes, tree, sock, made>>

Services == DOMAIN plan
Idle == [svc |-> "", step |-> "idle", n |-> 0]
NoCred == [state |-> "none", run |-> 0]
None == 0
File == -1
Rest ==
    [phase |-> "down", main |-> 0, credential_directory |-> FALSE, directories |-> <<>>,
     private_tmp_paths |-> 0, notify_path |-> 0, cgroup_path |-> FALSE]

Group(s) == service_cgroup_path(plan[s].slice, s)
\* prepare_cgroup makes a group when any of these is asked for.
wants_cgroup(s) ==
    \/ plan[s].slice # <<>> \/ plan[s].controllers # {}
    \/ plan[s].devices \/ plan[s].delegate # {}

Main(n) == {p \in tree.procs : p.n = n /\ p.role = "main"}
ProcessGroup(n) == {p \in tree.procs : p.n = n}

\* A group that a service with delegated control groups makes below its own.
Inner(s) == Append(Group(s), "own")
Groups == {<<>>} \cup UNION {Ancestors(Inner(s)) \cup {Inner(s)} : s \in Services}

Init ==
    /\ plan \in Plans
    /\ up = TRUE /\ run = 1 /\ starts = 0 /\ op = Idle
    /\ held = [s \in Services |-> Rest]
    /\ cred \in {[s \in Services |-> IF s \in f THEN [state |-> "foreign", run |-> 0] ELSE NoCred] :
                     f \in SUBSET (Foreign \cap Services)}
    /\ dirs \in SUBSET Existing /\ full = {}
    /\ tmps = {} /\ notes = {} /\ made = {}
    /\ sock \in [UNION {ToSet(plan[s].listeners) : s \in Services} -> {None, File}]
    /\ tree = [dirs |-> {<<>>}, filtered |-> {}, procs |-> {}, enabled |-> [g \in Groups |-> {}]]

-----------------------------------------------------------------------------
(* Taking things back.                                                     *)

\* remove_dir fails for a directory that is not empty; the list is undone
\* from its end, so a directory goes before the one it is in.
\* `gone` are the places whose directories are removed; there is one such set.
Emptied(ds, list) ==
    {ds \ {list[i].path : i \in gone} :
        gone \in {is \in SUBSET DOMAIN list :
                     \A i \in DOMAIN list : i \in is <=>
                         /\ list[i].cleanup /\ list[i].path \notin full
                         /\ \A e \in ds : Below(list[i].path, e) =>
                                \E j \in is : i < j /\ list[j].path = e}}

\* Mutant: the private /tmp is forgotten.
cleanup_directories_tmp(s) ==
    /\ dirs' \in Emptied(dirs, held[s].directories)
    /\ cred' = [cred EXCEPT ![s] = IF held[s].credential_directory THEN NoCred ELSE @]
    /\ tmps' = tmps

cleanup_directories(s) ==
    /\ dirs' \in Emptied(dirs, held[s].directories)
    /\ cred' = [cred EXCEPT ![s] = IF held[s].credential_directory THEN NoCred ELSE @]
    /\ tmps' = {t \in tmps : t.n # held[s].private_tmp_paths}

\* mark_spawn_failed, which leads to a back-off or to rest.
MarkSpawnFailed(s) ==
    /\ cleanup_directories(s)
    /\ \E phase \in {"down", "backoff"} : held' = [held EXCEPT ![s] = [Rest EXCEPT !.phase = phase]]
    /\ op' = Idle

\* The error paths of spawn_main: the notification socket, the group and,
\* after the fork, the processes that are killed.
Release(s, killed) ==
    /\ notes' = {x \in notes : x.n # op.n}
    /\ tree' = LET left == [tree EXCEPT !.procs = @ \ killed]
               IN  IF wants_cgroup(s) THEN cleanup_cgroup(left, Group(s)) ELSE left
    /\ MarkSpawnFailed(s)

At(step) == up /\ op.step = step
Go(step) == op' = [op EXCEPT !.step = step]

-----------------------------------------------------------------------------
(* start: credentials, directories and the private /tmp.                   *)

Start(s) ==
    /\ up /\ op = Idle /\ held[s].phase = "down" /\ starts < MaxStarts
    /\ starts' = starts + 1
    /\ op' = [svc |-> s, step |-> "credentials", n |-> starts + 1]
    /\ UNCHANGED <<plan, up, run, held, cred, dirs, full, tmps, notes, tree, sock>>

\* What start does when the step fails before the process is spawned.
FailPreparing ==
    /\ op.step \in {"credentials", "create", "directories", "private_tmp"}
    /\ up /\ MarkSpawnFailed(op.svc)
    /\ UNCHANGED <<plan, up, run, starts, full, notes, tree, sock>>

\* Mutant: whatever is in the way is removed.
ClearCredentials_any ==
    /\ At("credentials")
    /\ IF plan[op.svc].credentials
       THEN cred' = [cred EXCEPT ![op.svc] = NoCred] /\ Go("create")
       ELSE UNCHANGED cred /\ Go("directories")
    /\ UNCHANGED <<plan, up, run, starts, held, dirs, full, tmps, notes, tree, sock>>

\* A directory of an earlier start is removed, known by its marker; one
\* without a marker is refused, see FailPreparing.
ClearCredentials ==
    /\ At("credentials")
    /\ IF plan[op.svc].credentials
       THEN /\ cred[op.svc].state \in {"none", "marked", "full"}
            /\ cred' = [cred EXCEPT ![op.svc] = NoCred]
            /\ Go("create")
       ELSE UNCHANGED cred /\ Go("directories")
    /\ UNCHANGED <<plan, up, run, starts, held, dirs, full, tmps, notes, tree, sock>>

SetCred(state) == cred' = [cred EXCEPT ![op.svc] = [state |-> state, run |-> run]]

CreateCredentials ==
    /\ At("create") /\ SetCred("bare") /\ Go("mark")
    /\ UNCHANGED <<plan, up, run, starts, held, dirs, full, tmps, notes, tree, sock>>

MarkCredentials ==
    /\ At("mark") /\ SetCred("marked") /\ Go("fill")
    /\ UNCHANGED <<plan, up, run, starts, held, dirs, full, tmps, notes, tree, sock>>

FillCredentials ==
    /\ At("fill") /\ SetCred("full") /\ Go("directories")
    /\ held' = [held EXCEPT ![op.svc].credential_directory = TRUE]
    /\ UNCHANGED <<plan, up, run, starts, dirs, full, tmps, notes, tree, sock>>

\* A marker or value that cannot be written: the directory is removed again.
FailCredentials ==
    /\ up /\ op.step \in {"mark", "fill"}
    /\ cred' = [cred EXCEPT ![op.svc] = NoCred]
    /\ \E phase \in {"down", "backoff"} :
           held' = [held EXCEPT ![op.svc] = [Rest EXCEPT !.phase = phase]]
    /\ op' = Idle
    /\ UNCHANGED <<plan, up, run, starts, dirs, full, tmps, notes, tree, sock>>

\* Only a runtime directory that was not there before is removed at the end.
Managed(d, ds) == [path |-> d.path, cleanup |-> d.runtime /\ d.path \notin ds]

\* After the first k directories: create_dir_all makes the parents.
Present(k) ==
    dirs \cup UNION {Ancestors(plan[op.svc].directories[i].path)
                        \cup {plan[op.svc].directories[i].path} : i \in 1..k}
Made(k) == [i \in 1..k |-> Managed(plan[op.svc].directories[i], Present(i - 1))]

\* All of them, or the first k and then an error, which undoes those; the
\* parents of the next one may have been made.
prepare_directories ==
    /\ At("directories")
    /\ \/ LET n == Len(plan[op.svc].directories) IN
          /\ dirs' = Present(n)
          /\ held' = [held EXCEPT ![op.svc].directories = Made(n)]
          /\ Go("private_tmp")
       \/ /\ \E k \in 0..(Len(plan[op.svc].directories) - 1) :
             \E parents \in {{}, Ancestors(plan[op.svc].directories[k + 1].path)} :
                 dirs' \in Emptied(Present(k) \cup parents, Made(k))
          /\ UNCHANGED held /\ Go("undo")
    /\ UNCHANGED <<plan, up, run, starts, cred, full, tmps, notes, tree, sock>>

UndoStart ==
    /\ At("undo") /\ MarkSpawnFailed(op.svc)
    /\ UNCHANGED <<plan, up, run, starts, full, notes, tree, sock>>

\* The service is now prepared; the supervisor returns to its loop when a
\* helper has to run first, and spawns the process at once otherwise.
prepare_private_tmp ==
    /\ At("private_tmp")
    /\ tmps' = IF plan[op.svc].private_tmp
               THEN tmps \cup {[svc |-> op.svc, n |-> op.n, run |-> run]} ELSE tmps
    /\ held' = [held EXCEPT ![op.svc].private_tmp_paths =
                                IF plan[op.svc].private_tmp THEN op.n ELSE 0,
                            ![op.svc].phase = "prepared",
                            ![op.svc].main = op.n]
    /\ op' = Idle
    /\ UNCHANGED <<plan, up, run, starts, cred, dirs, full, notes, tree, sock>>

\* The start is called off, or its helper fails, before the process exists; or
\* what ran after the process is done.
CallOff(s) ==
    /\ up /\ op = Idle /\ held[s].phase \in {"prepared", "exited"}
    /\ cleanup_directories(s)
    /\ held' = [held EXCEPT ![s] = Rest]
    /\ UNCHANGED <<plan, up, run, starts, op, full, notes, tree, sock>>

-----------------------------------------------------------------------------
(* spawn_main: the notification socket, the group, the process.            *)

\* A socket service has listeners in place of a process.
SpawnStep(s) == IF plan[s].listeners = <<>> THEN "notify" ELSE "listen"

Spawn(s) ==
    /\ up /\ op = Idle /\ held[s].phase = "prepared"
    /\ op' = [svc |-> s, step |-> SpawnStep(s), n |-> held[s].main]
    /\ UNCHANGED <<plan, up, run, starts, held, cred, dirs, full, tmps, notes, tree, sock>>

\* The restart after a back-off spawns the process again and prepares nothing.
Respawn(s) ==
    /\ up /\ op = Idle /\ held[s].phase = "backoff" /\ starts < MaxStarts
    /\ starts' = starts + 1
    /\ op' = [svc |-> s, step |-> SpawnStep(s), n |-> starts + 1]
    /\ UNCHANGED <<plan, up, run, held, cred, dirs, full, tmps, notes, tree, sock>>

\* All of the listeners, or the first k and then an error: those are dropped,
\* which removes their paths. A socket that is in the way is replaced, any
\* other file is an error.
Free(xs) == \A x \in xs : sock[x] # File
Bind(xs, n) == sock' = [x \in DOMAIN sock |-> IF x \in xs THEN n ELSE sock[x]]

open_listeners ==
    /\ At("listen")
    /\ \/ /\ Free(ToSet(plan[op.svc].listeners)) /\ Bind(ToSet(plan[op.svc].listeners), op.n)
          /\ held' = [held EXCEPT ![op.svc].phase = "listening", ![op.svc].main = op.n]
          /\ op' = Idle
       \/ /\ \E k \in 0..Len(plan[op.svc].listeners) :
                LET bound == {plan[op.svc].listeners[i] : i \in 1..k} IN Free(bound) /\ Bind(bound, None)
          /\ UNCHANGED held /\ Go("undo")
    /\ UNCHANGED <<plan, up, run, starts, cred, dirs, full, tmps, notes, tree>>

\* The socket service stops: its paths go, unless they are to stay.
Closed(s) ==
    [x \in DOMAIN sock |->
        IF /\ held[s].phase = "listening" /\ plan[s].remove_on_stop
           /\ x \in ToSet(plan[s].listeners)
        THEN None ELSE sock[x]]

close_listeners(s) ==
    /\ up /\ op = Idle /\ held[s].phase = "listening"
    /\ sock' = Closed(s)
    /\ cleanup_directories(s)
    /\ held' = [held EXCEPT ![s] = Rest]
    /\ UNCHANGED <<plan, up, run, starts, op, full, notes, tree>>

\* Calls on the fresh socket after bind are taken not to fail.
prepare_notify_socket ==
    /\ At("notify") /\ Go("cgroup")
    /\ notes' = notes \cup {[svc |-> op.svc, n |-> op.n, run |-> run]}
    /\ UNCHANGED <<plan, up, run, starts, held, cred, dirs, full, tmps, tree, sock>>

FailSpawning ==
    /\ up /\ op.step \in {"notify", "cgroup", "fork"}
    /\ Release(op.svc, {})
    /\ UNCHANGED <<plan, up, run, starts, full, sock>>

CreateCgroup ==
    /\ At("cgroup")
    /\ IF wants_cgroup(op.svc)
       THEN tree' = MakeDirectories(tree, Group(op.svc)) /\ Go("limits")
       ELSE UNCHANGED tree /\ Go("fork")
    /\ UNCHANGED <<plan, up, run, starts, held, cred, dirs, full, tmps, notes, sock>>

\* Controllers, limits, device filter, delegation.
Limited(s) ==
    LET t == enable_cgroup_controllers(tree, Group(s), plan[s].controllers)
        u == IF plan[s].devices THEN [t EXCEPT !.filtered = @ \cup {Group(s)}] ELSE t
    IN  enable_delegated_cgroup_controllers(u, Group(s), plan[s].delegate)

prepare_cgroup ==
    /\ At("limits")
    /\ CanEnable(tree, Group(op.svc), plan[op.svc].controllers)
    /\ CanEnable(tree, Group(op.svc), plan[op.svc].delegate \cap Host)
    /\ MayEnable(tree, Group(op.svc),
                 (plan[op.svc].delegate \cap Host) \ tree.enabled[Group(op.svc)])
    /\ tree' = Limited(op.svc) /\ Go("fork")
    /\ UNCHANGED <<plan, up, run, starts, held, cred, dirs, full, tmps, notes, sock>>

\* prepare_cgroup removes the group, spawn_main the socket; what was passed
\* on by the slices stays.
FailLimits ==
    /\ At("limits")
    /\ \E t \in {tree, Limited(op.svc)} :
           tree' = cleanup_cgroup(t, Group(op.svc))
    /\ notes' = {x \in notes : x.n # op.n}
    /\ MarkSpawnFailed(op.svc)
    /\ UNCHANGED <<plan, up, run, starts, full, sock>>

\* The process sets itself up and executes, in the group of the daemon. It
\* refuses to when its private /tmp was not prepared.
Fork ==
    /\ At("fork")
    /\ plan[op.svc].private_tmp => held[op.svc].private_tmp_paths # 0
    /\ tree' = [tree EXCEPT !.procs = @ \cup
                    {[svc |-> op.svc, n |-> op.n, run |-> run, role |-> "main", cg |-> Elsewhere]}]
    /\ Go("attach")
    /\ UNCHANGED <<plan, up, run, starts, held, cred, dirs, full, tmps, notes, sock>>

\* The process may have ended; it is a zombie, which may still be moved.
Attach ==
    /\ At("attach")
    /\ IF wants_cgroup(op.svc)
       THEN /\ MayEnter(tree, Group(op.svc))
            /\ tree' = IF Main(op.n) = {} THEN tree
                       ELSE attach_to_cgroup(tree, CHOOSE p \in Main(op.n) : TRUE, Group(op.svc))
       ELSE UNCHANGED tree
    /\ Go("register")
    /\ UNCHANGED <<plan, up, run, starts, held, cred, dirs, full, tmps, notes, sock>>

\* Forwarding of output and the group: the whole process group is killed.
FailAttach ==
    /\ At("attach") /\ Release(op.svc, ProcessGroup(op.n))
    /\ UNCHANGED <<plan, up, run, starts, full, sock>>

\* pidfd_open: only the process itself is killed.
FailRegister ==
    /\ At("register") /\ Release(op.svc, Main(op.n))
    /\ UNCHANGED <<plan, up, run, starts, full, sock>>

Register ==
    /\ At("register")
    /\ held' = [held EXCEPT ![op.svc] =
                   [@ EXCEPT !.phase = "running", !.main = op.n,
                             !.notify_path = op.n, !.cgroup_path = wants_cgroup(op.svc)]]
    /\ op' = Idle
    /\ UNCHANGED <<plan, up, run, starts, cred, dirs, full, tmps, notes, tree, sock>>

-----------------------------------------------------------------------------
(* The processes.                                                          *)

\* A child is in the group its parent is in at that moment.
ForkChild(p) ==
    /\ p.role = "main" /\ Cardinality(ProcessGroup(p.n)) < 2
    /\ tree' = [tree EXCEPT !.procs = @ \cup {[p EXCEPT !.role = "child"]}]
    /\ UNCHANGED <<plan, up, run, starts, op, held, cred, dirs, full, tmps, notes, sock>>

\* Delegation: a process moves to a group of its own below its service.
MoveDown(p) ==
    /\ p.cg # Elsewhere /\ plan[p.svc].delegate # {} /\ p.cg = Group(p.svc)
    /\ tree' = attach_to_cgroup([tree EXCEPT !.dirs = @ \cup {Inner(p.svc)}], p, Inner(p.svc))
    /\ UNCHANGED <<plan, up, run, starts, op, held, cred, dirs, full, tmps, notes, sock>>

WriteFile(p) ==
    /\ p.role = "main" /\ held[p.svc].main = p.n /\ held[p.svc].phase = "running"
    /\ \E i \in DOMAIN held[p.svc].directories :
           /\ held[p.svc].directories[i].path \in dirs \ full
           /\ full' = full \cup {held[p.svc].directories[i].path}
    /\ UNCHANGED <<plan, up, run, starts, op, held, cred, dirs, tmps, notes, tree, sock>>

End(p) ==
    /\ tree' = [tree EXCEPT !.procs = @ \ {p}]
    /\ UNCHANGED <<plan, up, run, starts, op, held, cred, dirs, full, tmps, notes, sock>>

\* handle_exit, when the supervisor sees that the main process has ended. With
\* ExecStopPost, or while the service stays active, the rest goes with CallOff.
handle_exit(s) ==
    /\ up /\ op = Idle /\ held[s].phase = "running" /\ Main(held[s].main) = {}
    /\ notes' = {x \in notes : x.n # held[s].notify_path}
    /\ tree' = IF held[s].cgroup_path THEN cleanup_cgroup(tree, Group(s)) ELSE tree
    /\ \/ MarkSpawnFailed(s)
       \/ /\ held' = [held EXCEPT ![s] = [@ EXCEPT !.phase = "exited", !.main = 0,
                                        !.notify_path = 0, !.cgroup_path = FALSE]]
          /\ UNCHANGED <<op, dirs, cred, tmps>>
    /\ UNCHANGED <<plan, up, run, starts, full, sock>>

-----------------------------------------------------------------------------
(* The daemon.                                                             *)

Down ==
    /\ up' = FALSE /\ op' = Idle
    /\ held' = [s \in Services |-> Rest]

\* Killed. The parent death signal takes the main processes with it, unless
\* setting their identity has cleared it; other processes live on. Whatever
\* step it was in the middle of may be half done: directories made, or a
\* credential directory without its marker that was being removed.
Crash ==
    /\ up /\ Down
    /\ tree' = [tree EXCEPT !.procs = {p \in @ : p.role = "child" \/ plan[p.svc].user}]
    /\ cred' \in {cred} \cup
           {[cred EXCEPT ![s].state = "bare"] :
               s \in {x \in Services : /\ cred[x].state \in {"marked", "full"}
                                       /\ \/ held[x].credential_directory
                                          \/ op.svc = x /\ op.step \in {"credentials", "fill"}}}
    /\ dirs' \in {dirs} \cup
           (IF op.step = "directories" THEN {Present(k) : k \in DOMAIN plan[op.svc].directories} ELSE {})
    /\ UNCHANGED <<plan, run, starts, full, tmps, notes, sock>>

\* The daemon leaves: each service is dropped, kills its process group and
\* takes back what it holds.
Dropping == [Idle EXCEPT !.step = "drop"]

Drop(s) ==
    /\ up /\ op \in {Idle, Dropping} /\ held[s] # Rest
    /\ op' = Dropping
    /\ sock' = Closed(s)
    /\ notes' = {x \in notes : x.n # held[s].notify_path}
    /\ tree' = LET left == [tree EXCEPT !.procs = @ \ ProcessGroup(held[s].main)]
               IN  IF held[s].cgroup_path THEN cleanup_cgroup(left, Group(s)) ELSE left
    /\ cleanup_directories(s)
    /\ held' = [held EXCEPT ![s] = Rest]
    /\ UNCHANGED <<plan, up, run, starts, full>>

Dropped ==
    /\ up /\ op \in {Idle, Dropping} /\ \A s \in Services : held[s] = Rest
    /\ Down
    /\ UNCHANGED <<plan, run, starts, cred, dirs, full, tmps, notes, tree, sock>>

\* Only slices and resource limits make the daemon look for stale groups.
looks_for_orphans ==
    \E s \in Services : plan[s].slice # <<>> \/ plan[s].controllers # {}

reconcile_orphans == IF looks_for_orphans THEN reconcile_cgroup_tree(tree) ELSE {tree}

Boot ==
    /\ ~ up /\ run < MaxRuns
    /\ up' = TRUE /\ run' = run + 1
    /\ tree' \in reconcile_orphans
    /\ UNCHANGED <<plan, starts, op, held, cred, dirs, full, tmps, notes, sock>>

Step ==
    \/ \E s \in Services : Start(s) \/ CallOff(s) \/ Spawn(s) \/ Respawn(s) \/ handle_exit(s)
                          \/ close_listeners(s) \/ Drop(s)
    \/ open_listeners
    \/ ClearCredentials \/ CreateCredentials \/ MarkCredentials \/ FillCredentials
    \/ FailPreparing \/ FailCredentials \/ prepare_directories \/ UndoStart \/ prepare_private_tmp
    \/ prepare_notify_socket \/ FailSpawning \/ CreateCgroup \/ prepare_cgroup \/ FailLimits
    \/ Fork \/ Attach \/ FailAttach \/ FailRegister \/ Register
    \/ \E p \in tree.procs : ForkChild(p) \/ MoveDown(p) \/ WriteFile(p) \/ End(p)
    \/ Crash \/ Dropped \/ Boot

Next == Step /\ made' = (made \cup (dirs' \ dirs)) \cap dirs'

Spec == Init /\ [][Next]_vars

-----------------------------------------------------------------------------
(* Properties.                                                             *)

\* The fields of the supervisor and the disk are of their types, files are in
\* directories that exist, and groups have their parents.
TypeOK ==
    /\ up \in BOOLEAN /\ run \in 1..MaxRuns /\ starts \in 0..MaxStarts
    /\ op.svc \in Services \cup {""} /\ op.n \in 0..MaxStarts
    /\ \A s \in Services :
           /\ held[s].phase \in {"down", "prepared", "running", "listening", "exited", "backoff"}
           /\ cred[s].state \in {"none", "bare", "marked", "full", "foreign"}
    /\ full \subseteq dirs
    /\ \A x \in DOMAIN sock : sock[x] \in {File} \cup 0..MaxStarts
    /\ \A t \in tmps \cup notes : t.svc \in Services /\ t.run \in 1..run
    /\ \A g \in tree.dirs : Ancestors(g) \subseteq tree.dirs
    /\ \A p \in tree.procs : p.cg \in tree.dirs \cup {Elsewhere}

\* The listeners that no other service has. A socket in the way is replaced,
\* also when another service listens on it.
OwnListeners(s) ==
    {x \in ToSet(plan[s].listeners) :
        \A r \in Services \ {s} : x \notin ToSet(plan[r].listeners)}

\* Between starts, everything that this run of the daemon has made is held by
\* a service that is prepared or running: no error path, early end or restart
\* loses a credential directory, a private /tmp, a notification
\* socket or the path of a listener.
NothingIsLost ==
    (up /\ op = Idle) =>
        /\ \A t \in tmps : t.run = run => held[t.svc].private_tmp_paths = t.n
        /\ \A x \in notes : x.run = run => held[x.svc].notify_path = x.n
        /\ \A s \in Services : cred[s].run = run => held[s].credential_directory
        /\ \A s \in Services : \A x \in OwnListeners(s) :
               (run = 1 /\ sock[x] > 0 /\ plan[s].remove_on_stop) => held[s].phase = "listening"

\* A running service finds what was prepared for it: complete credentials, its
\* private /tmp, its listeners at their paths, and every directory, unless it is empty and belongs to
\* another service as well.
ResourcesStay ==
    \A s \in Services :
        /\ held[s].credential_directory => cred[s].state = "full"
        /\ held[s].phase = "listening" =>
               \A x \in OwnListeners(s) : sock[x] = held[s].main
        /\ held[s].private_tmp_paths # 0 =>
               \E t \in tmps : t.svc = s /\ t.n = held[s].private_tmp_paths
        /\ \A i \in DOMAIN held[s].directories :
               LET d == held[s].directories[i].path IN
               d \in dirs \/ \E r \in Services \ {s} :
                                 \E j \in DOMAIN plan[r].directories : plan[r].directories[j].path = d

\* The fields of the services and the files on disk agree in both directions:
\* what exists is held, and what is held exists.
FilesInv == TypeOK /\ NothingIsLost /\ ResourcesStay

\* The main process of a running service is in its group or below, each slice
\* above passes its controllers on, and its device filter is in place.
Contained ==
    \A s \in Services : held[s].cgroup_path =>
        /\ \A p \in Main(held[s].main) : p.cg # Elsewhere /\ Within(Group(s), p.cg)
        /\ \A a \in Ancestors(Group(s)) : plan[s].controllers \subseteq tree.enabled[a]
        /\ plan[s].devices => Group(s) \in tree.filtered

\* After a restart no process of an earlier daemon is left in a group, if the
\* daemon looks for them at all and nobody was given groups of their own.
OrphansEnd ==
    (up /\ looks_for_orphans) =>
        \A p \in tree.procs : (p.run < run /\ p.cg # Elsewhere) => plan[p.svc].delegate # {}

\* Control groups hold the processes they are for, and no others.
GroupsInv == Contained /\ OrphansEnd

\* What FractalD has not made is not removed: a credential directory without
\* the marker, a directory that was there before the service and a file at the
\* path of a listener.
ForeignIsKept ==
    [][/\ dirs \ dirs' \subseteq made
       /\ \A s \in Services : cred[s].state = "foreign" => cred'[s] = cred[s]
       /\ \A x \in DOMAIN sock : sock[x] = File => sock'[x] = File]_vars
=============================================================================
