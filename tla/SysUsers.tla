------------------------------ MODULE SysUsers ------------------------------
(* fractald-sysusers (crates/fractald-sysusers/src/main.rs): it brings the *)
(* four account files up to what the configuration asks for.  Every run    *)
(* takes the lock file, loads the files, applies every directive in memory *)
(* and then replaces the files one after the other.  A run may die, or a   *)
(* write may fail, between any two steps.                                  *)
(*                                                                         *)
(* A text database is a function from names to lines: a passwd line is     *)
(* [uid, gid, own], own being whether no primary group was asked for, a    *)
(* group line is [gid, members], a shadow line is nothing, a gshadow line  *)
(* is its members.  The shadow files need not exist.                       *)
(* A directive is [kind, name, ...]: "u" has id and primary, "g" has id,   *)
(* "m" has group, "r" has low and high.  An id as it is written is         *)
(* [how, id]: "-", a number, a path (then id owns the file) or anything    *)
(* else.  A primary group is [how, id, name].                              *)
EXTENDS Integers, Sequences, SequencesExt, FiniteSetsExt, TLC

CONSTANTS Runners,         \* the processes that may run the tool
          Etc0,            \* the account files at first
          ConfigDirs,      \* sequence of directories: file name -> directives,
                           \* or "null" for a link to /dev/null
          FileOrder,       \* the file names, sorted
          Invocations,     \* command lines: [files, inline, replace, dry]
          SystemRange,     \* [low, high] of login.defs
          Reserved,        \* the numbers that are never an account
          LockAttempts,    \* how often the lock is tried
          MaxUserRuns      \* bound on the runs of one behaviour

ASSUME SysUsersAssumption ==
    /\ LockAttempts \in Nat \ {0} /\ MaxUserRuns \in Nat
    /\ SystemRange.low \in Nat /\ SystemRange.high \in Nat
    /\ ConfigDirs # << >>
    /\ \A o \in Invocations : o.dry \in BOOLEAN

\* The account files at first: numbers are not shared, a user of its own
\* group has that group, and the shadow files that exist are of the same
\* users and groups.
ASSUME EtcAssumption ==
    /\ DOMAIN Etc0 = {"passwd", "group", "shadow", "gshadow", "hasShadow", "hasGshadow"}
    /\ \A n \in DOMAIN Etc0.group : DOMAIN Etc0.group[n] = {"gid", "members"}
    /\ \A m, n \in DOMAIN Etc0.passwd : Etc0.passwd[m].uid = Etc0.passwd[n].uid => m = n
    /\ \A m, n \in DOMAIN Etc0.group : Etc0.group[m].gid = Etc0.group[n].gid => m = n
    /\ \A u \in DOMAIN Etc0.passwd : Etc0.passwd[u].own =>
          u \in DOMAIN Etc0.group /\ Etc0.group[u].gid = Etc0.passwd[u].gid
    /\ DOMAIN Etc0.gshadow \subseteq DOMAIN Etc0.group
    /\ Etc0.hasShadow => DOMAIN Etc0.passwd \subseteq DOMAIN Etc0.shadow
    /\ Etc0.hasGshadow => DOMAIN Etc0.group \subseteq DOMAIN Etc0.gshadow

VARIABLES etc,      \* the files on disk
          lock,     \* whether the lock file exists
          run,      \* runner -> its progress
          started,  \* how many runs have begun
          cut       \* whether some run ended between two of its writes

usersVars == <<etc, lock, run, started, cut>>

NoRun == [pc |-> "idle", tries |-> 0, dry |-> FALSE, lines |-> << >>, left |-> {}, db |-> << >>,
          todo |-> {}, wrote |-> FALSE]
Databases == <<"passwd", "group", "shadow", "gshadow">>
NoNumber == -1

(* ----------------------------- configuration --------------------------- *)

\* Later directories override earlier ones, by file name.
discover_sources ==
    LET Named(n) == {i \in DOMAIN ConfigDirs : n \in DOMAIN ConfigDirs[i]}
        Text(n) == ConfigDirs[Max(Named(n))][n]
        Chosen == SelectSeq(FileOrder, LAMBDA n : Named(n) # {} /\ ~Text(n).null)
    IN  [k \in DOMAIN Chosen |-> [name |-> Chosen[k], lines |-> Text(Chosen[k]).lines]]

\* A plain name is looked up from the strongest directory down; a link to
\* /dev/null is no file.
Found(n) == {i \in DOMAIN ConfigDirs : n \in DOMAIN ConfigDirs[i] /\ ~ConfigDirs[i][n].null}
read_source_argument(n) == [name |-> n, lines |-> ConfigDirs[Max(Found(n))][n].lines]

\* The sources of one command line: the files it names, or all of them, or
\* all of them with one replaced unless the administrator has that file.
load_sources(opts) ==
    LET replacements ==
            IF opts.inline # << >>
            THEN <<[name |-> "inline", lines |-> opts.inline]>>
            ELSE [k \in DOMAIN opts.files |-> read_source_argument(opts.files[k])]
        In(n) == IF n = opts.replace THEN replacements
                 ELSE SelectSeq(discover_sources, LAMBDA s : s.name = n)
    IN  IF opts.files = << >> /\ opts.inline = << >> THEN discover_sources
        ELSE IF opts.replace = "none" THEN replacements
        ELSE IF opts.replace \in DOMAIN Last(ConfigDirs) THEN discover_sources
        ELSE FlattenSeq([k \in DOMAIN FileOrder |-> In(FileOrder[k])])

Missing(opts) ==
    opts.inline = << >> /\ \E k \in DOMAIN opts.files : Found(opts.files[k]) = {}

Lines(sources) == FlattenSeq([k \in DOMAIN sources |-> sources[k].lines])

(* ------------------------ the database in memory ----------------------- *)
(* db is [passwd, group, shadow, gshadow, hasShadow, hasGshadow, range,    *)
(* changed, err].                                                          *)

used_ids(db) ==
    {db.passwd[n].uid : n \in DOMAIN db.passwd} \cup {db.group[n].gid : n \in DOMAIN db.group}

uid_in_use(db, id) == \E n \in DOMAIN db.passwd : db.passwd[n].uid = id

\* Mutant: a number is taken when a user has it.
id_in_use_users(db, id) == uid_in_use(db, id)

id_in_use(db, id) == id \in used_ids(db)

uid_in_use_except(db, id, gid) ==
    uid_in_use(db, id) \/ (id # gid /\ \E n \in DOMAIN db.group : db.group[n].gid = id)

\* The largest free number of the range.
allocate_id(db) ==
    LET free == (db.range.low .. db.range.high) \ used_ids(db)
    IN  IF free = {} THEN NoNumber ELSE Max(free)

validate_id(id) == IF id \in Reserved THEN NoNumber ELSE id

resolve_id(db, req) ==
    CASE req.how = "-"      -> allocate_id(db)
      [] req.how = "number" -> validate_id(req.id)
      [] req.how = "path"   -> req.id
      [] OTHER              -> NoNumber

Extended(file, name, line) ==
    [n \in DOMAIN file \cup {name} |-> IF n = name THEN line ELSE file[n]]

append(db, file, name, line) ==
    [db EXCEPT ![file] = Extended(@, name, line), !.changed = @ \cup {file}]

Failed(db) == [db EXCEPT !.err = TRUE]

create_group(db, name, id) ==
    LET one == append(db, "group", name, [gid |-> id, members |-> {}])
    IN  IF id = NoNumber THEN Failed(db)
        ELSE IF db.hasGshadow THEN append(one, "gshadow", name, {}) ELSE one

create_user(db, name, line) ==
    LET one == append(db, "passwd", name, line)
    IN  IF NoNumber \in {line.uid, line.gid} THEN Failed(db)
        ELSE IF db.hasShadow THEN append(one, "shadow", name, {}) ELSE one

\* The number asked for, or another one when it is taken.
OrAnother(db, id, taken) == IF id # NoNumber /\ taken THEN allocate_id(db) ELSE id

ensure_group(db, name, req) ==
    LET id == resolve_id(db, req)
    IN  IF name \in DOMAIN db.group THEN db
        ELSE create_group(db, name, OrAnother(db, id, id_in_use(db, id)))

primary_gid(db, primary) ==
    CASE primary.how = "-"      -> allocate_id(db)
      [] primary.how = "number" -> validate_id(primary.id)
      [] primary.how = "name"   -> IF primary.name \in DOMAIN db.group
                                   THEN db.group[primary.name].gid ELSE NoNumber

\* A user with a primary group of its own choice, with the group of its
\* name, or with a group made for it.
ensure_user(db, name, req, primary) ==
    LET id == resolve_id(db, req)
        chosen == primary.how # "none"
        uid == CASE chosen -> OrAnother(db, id, uid_in_use(db, id))
                 [] ~chosen /\ name \in DOMAIN db.group ->
                        OrAnother(db, id, uid_in_use_except(db, id, db.group[name].gid))
                 [] OTHER -> OrAnother(db, id, id_in_use(db, id))
    IN  IF name \in DOMAIN db.passwd THEN db
        ELSE IF chosen
        THEN create_user(db, name,
                 [uid |-> uid, gid |-> primary_gid(db, primary), own |-> FALSE])
        ELSE IF name \in DOMAIN db.group
        THEN create_user(db, name, [uid |-> uid, gid |-> db.group[name].gid, own |-> TRUE])
        ELSE LET one == create_group(db, name, uid)
             IN  IF one.err THEN one
                 ELSE create_user(one, name, [uid |-> uid, gid |-> uid, own |-> TRUE])

add_member(db, user, group) ==
    LET one == IF user \in db.group[group].members THEN db
               ELSE [db EXCEPT !.group[group].members = @ \cup {user},
                               !.changed = @ \cup {"group"}]
    IN  IF group \notin DOMAIN db.gshadow \/ user \in db.gshadow[group] THEN one
        ELSE [one EXCEPT !.gshadow[group] = @ \cup {user}, !.changed = @ \cup {"gshadow"}]

parse_range(db, low, high) ==
    IF ~({low, high} \subseteq Nat \ Reserved) \/ low > high THEN Failed(db)
    ELSE [db EXCEPT !.range = [low |-> low, high |-> high]]

Automatic == [how |-> "-", id |-> 0]
NoPrimary == [how |-> "none", id |-> 0, name |-> "none"]

\* One directive.
apply(db, d) ==
    CASE d.kind = "r" -> parse_range(db, d.low, d.high)
      [] d.kind = "g" -> ensure_group(db, d.name, d.id)
      [] d.kind = "u" -> ensure_user(db, d.name, d.id, d.primary)
      [] d.kind = "m" ->
            LET one == ensure_user(db, d.name, Automatic, NoPrimary)
                two == IF one.err THEN one ELSE ensure_group(one, d.group, Automatic)
            IN  IF two.err THEN two ELSE add_member(two, d.name, d.group)
      [] OTHER -> Failed(db)                       \* parse_directive

load(files) ==
    [passwd |-> files.passwd, group |-> files.group,
     shadow |-> files.shadow, gshadow |-> files.gshadow,
     hasShadow |-> files.hasShadow, hasGshadow |-> files.hasGshadow,
     range |-> SystemRange, changed |-> {}, err |-> FALSE]

(* -------------------------------- the run ------------------------------ *)

UsersInit ==
    /\ etc = Etc0 /\ lock = FALSE
    /\ run = [p \in Runners |-> NoRun]
    /\ started = 0 /\ cut = FALSE

\* run(): the command line and its sources; a named file that is missing
\* ends the run before it begins.
RunUsers(p, opts) ==
    /\ run[p].pc \in {"idle", "done", "failed"} /\ started < MaxUserRuns
    /\ started' = started + 1
    /\ run' = [run EXCEPT ![p] =
          IF Missing(opts) THEN [NoRun EXCEPT !.pc = "failed"]
          ELSE [NoRun EXCEPT !.pc = IF opts.dry THEN "load" ELSE "lock",
                             !.dry = opts.dry, !.lines = Lines(load_sources(opts))]]
    /\ UNCHANGED <<etc, lock, cut>>

\* Mutant: the lock file is created or opened.
acquire_opened(p) ==
    /\ run[p].pc = "lock" /\ lock' = TRUE
    /\ run' = [run EXCEPT ![p].pc = "load"]
    /\ UNCHANGED <<etc, started, cut>>

\* create_new: the file is made or it was there.  A failed write of the
\* process id returns without the guard that would remove it.
acquire(p) ==
    /\ run[p].pc = "lock"
    /\ \/ /\ ~lock /\ lock' = TRUE
          /\ \E ok \in BOOLEAN : run' = [run EXCEPT ![p].pc = IF ok THEN "load" ELSE "failed"]
       \/ /\ lock /\ UNCHANGED lock
          /\ run' = [run EXCEPT ![p].tries = @ + 1,
                                ![p].pc = IF run[p].tries + 1 = LockAttempts
                                          THEN "failed" ELSE "lock"]
    /\ UNCHANGED <<etc, started, cut>>

\* Where an error leads: a run with the lock drops it first.
FailedEnd(p) == IF run[p].dry THEN "failed" ELSE "drop-failed"

\* Database::load: all four files, or an error.
load_databases(p) ==
    /\ run[p].pc = "load"
    /\ \/ run' = [run EXCEPT ![p].pc = "apply", ![p].db = load(etc), ![p].left = DOMAIN run[p].lines]
       \/ run' = [run EXCEPT ![p].pc = FailedEnd(p)]
    /\ UNCHANGED <<etc, lock, started, cut>>

\* One line after the other, up to the first that is an error.
apply_sources(p) ==
    /\ run[p].pc = "apply"
    /\ \E k \in run[p].left :
          /\ \A j \in run[p].left : k <= j
          /\ LET db == apply(run[p].db, run[p].lines[k])
             IN  run' = [run EXCEPT ![p].db = db, ![p].left = @ \ {k},
                                    ![p].pc = IF db.err THEN FailedEnd(p) ELSE "apply"]
    /\ UNCHANGED <<etc, lock, started, cut>>

\* A dry run is over; the others write what has changed.
AllApplied(p) ==
    /\ run[p].pc = "apply" /\ run[p].left = {}
    /\ run' = [run EXCEPT ![p].pc = IF run[p].dry THEN "done" ELSE "write",
                          ![p].db = IF run[p].dry THEN << >> ELSE @,
                          ![p].todo = IF run[p].dry THEN {} ELSE run[p].db.changed]
    /\ UNCHANGED <<etc, lock, started, cut>>

\* write_all, one file: the rename replaces it, or an error ends the run.
write_if_changed(p) ==
    /\ run[p].pc = "write"
    /\ \/ \E k \in DOMAIN Databases :
             /\ Databases[k] \in run[p].todo /\ \A j \in 1 .. k - 1 : Databases[j] \notin run[p].todo
             /\ etc' = [etc EXCEPT ![Databases[k]] = run[p].db[Databases[k]]]
             /\ run' = [run EXCEPT ![p].todo = @ \ {Databases[k]}, ![p].wrote = TRUE]
             /\ UNCHANGED cut
       \/ /\ run[p].todo # {}
          /\ run' = [run EXCEPT ![p].pc = "drop-failed"]
          /\ cut' = (cut \/ run[p].wrote)
          /\ UNCHANGED etc
    /\ UNCHANGED <<lock, started>>

\* Drop of the guard.
drop(p) ==
    /\ \/ run[p].pc = "write" /\ run[p].todo = {}
       \/ run[p].pc = "drop-failed"
    /\ lock' = FALSE
    /\ run' = [run EXCEPT ![p].pc = IF run[p].pc = "write" THEN "done" ELSE "failed",
                          ![p].db = << >>, ![p].left = {}, ![p].todo = {}]
    /\ UNCHANGED <<etc, started, cut>>

\* The process is killed, or the power fails: the lock file stays.
UsersCrash(p) ==
    /\ run[p].pc \in {"lock", "load", "apply", "write", "drop-failed"}
    /\ run' = [run EXCEPT ![p] = [NoRun EXCEPT !.pc = "failed"]]
    /\ cut' = (cut \/ (run[p].wrote /\ run[p].todo # {}))
    /\ UNCHANGED <<etc, lock, started>>

\* An administrator removes a lock file whose owner is gone.
RemoveStaleLock ==
    /\ lock /\ lock' = FALSE
    /\ \A p \in Runners : run[p].dry \/ run[p].pc \notin {"load", "apply", "write", "drop-failed"}
    /\ UNCHANGED <<etc, run, started, cut>>

UsersNext ==
    \/ \E p \in Runners :
          \/ \E opts \in Invocations : RunUsers(p, opts)
          \/ acquire(p) \/ load_databases(p) \/ apply_sources(p) \/ AllApplied(p)
          \/ write_if_changed(p) \/ drop(p) \/ UsersCrash(p)
    \/ RemoveStaleLock

(* ------------------------------ properties ----------------------------- *)

UsersTypeOK ==
    /\ lock \in BOOLEAN /\ cut \in BOOLEAN /\ started \in 0 .. MaxUserRuns
    /\ \A p \in Runners :
          /\ run[p].pc \in {"idle", "lock", "load", "apply", "write", "drop-failed", "done", "failed"}
          /\ run[p].tries \in 0 .. LockAttempts

(* No two users share a number and no two groups do, on disk and at every  *)
(* instant, whatever the configuration asks for, however many runs and     *)
(* however they end: a number the configuration asks for and that is taken *)
(* is replaced by a free one (id_in_use, uid_in_use, allocate_id).         *)
IdsUnique ==
    /\ \A m, n \in DOMAIN etc.passwd : etc.passwd[m].uid = etc.passwd[n].uid => m = n
    /\ \A m, n \in DOMAIN etc.group : etc.group[m].gid = etc.group[n].gid => m = n

(* A user that asked for no primary group of its own is never in another   *)
(* name's group: as long as no run was cut between two files, the only     *)
(* group with its gid is the one of its name (ensure_user).                *)
OwnGroup ==
    cut \/ \A u \in DOMAIN etc.passwd, g \in DOMAIN etc.group :
              etc.passwd[u].own /\ etc.group[g].gid = etc.passwd[u].gid => g = u

(* A run adds and never takes away: no user, group, shadow line or member  *)
(* that is on disk vanishes or changes its number, although every run      *)
(* writes whole files from what it read (LockFile, write_if_changed).      *)
AccountsStay ==
    [][/\ \A n \in DOMAIN etc.passwd : n \in DOMAIN etc'.passwd /\ etc'.passwd[n] = etc.passwd[n]
       /\ \A n \in DOMAIN etc.group : /\ n \in DOMAIN etc'.group
                                      /\ etc'.group[n].gid = etc.group[n].gid
                                      /\ etc.group[n].members \subseteq etc'.group[n].members
       /\ DOMAIN etc.shadow \subseteq DOMAIN etc'.shadow
       /\ \A n \in DOMAIN etc.gshadow : n \in DOMAIN etc'.gshadow
                                        /\ etc.gshadow[n] \subseteq etc'.gshadow[n]]_etc

\* What one directive asks for is in the files; a user that was there keeps
\* the primary group it has.
Satisfied(d, files) ==
    LET User(n) == n \in DOMAIN files.passwd /\ (files.hasShadow => n \in DOMAIN files.shadow)
        Group(n) == n \in DOMAIN files.group /\ (files.hasGshadow => n \in DOMAIN files.gshadow)
    IN  CASE d.kind = "u" -> User(d.name) /\ (files.passwd[d.name].own => Group(d.name))
          [] d.kind = "g" -> Group(d.name)
          [] d.kind = "m" -> /\ User(d.name) /\ Group(d.group)
                             /\ d.name \in files.group[d.group].members
                             /\ files.hasGshadow => d.name \in files.gshadow[d.group]
          [] OTHER -> TRUE

(* A run that reports success, with none before it cut between two files,  *)
(* leaves everything its configuration asks for in all the files that      *)
(* exist (apply_sources, write_all).                                       *)
RunsComplete ==
    [][\A p \in Runners :
          run'[p].pc = "done" /\ run[p].pc = "write" /\ ~cut =>
              \A k \in DOMAIN run[p].lines : Satisfied(run[p].lines[k], etc')]_usersVars
=============================================================================
