---------------------------- MODULE ProcessSetup ----------------------------
(* What a new process does to itself between fork and exec: the closures   *)
(* that spawn_main, spawn_script, spawn_stop_command and                   *)
(* spawn_reload_command pass to pre_exec, step by step, on a model of what *)
(* Linux makes of each step (platform.c): capabilities, seccomp filters,   *)
(* namespaces, mounts. The daemon runs as root.                            *)
(*                                                                         *)
(* A step is the name of what is asked for. Steps that are not asked for   *)
(* are left out; one the kernel refuses ends the process with an error.    *)
EXTENDS Naturals, Sequences, FiniteSets, SequencesExt

CONSTANTS
    Roles,          \* which of the four functions: "main", "script", "stop", "reload"
    Descriptors,    \* the sets of settings that are combined
    Paths           \* the paths of the instance, sequences of components

ASSUME SetupAssumption ==
    /\ Roles \subseteq {"main", "script", "stop", "reload"}
    /\ Paths \subseteq Seq(STRING)

VARIABLES
    role,       \* which function spawns the process
    asked,      \* the settings of the descriptor
    listed,     \* the path that a setting with a list of paths names
    todo,       \* the steps that are left, by their places in the order
    c,          \* the process
    status      \* "setting up", "refused", "executed"

vars == <<role, asked, listed, todo, c, status>>

-----------------------------------------------------------------------------
(* The order of the steps.                                                 *)

\* The fixed paths of ProtectKernelModules and its like are remounted next to
\* the two lists at the end and are not told apart from them.
FilesystemSteps ==
    <<"apply_filesystem_protection", "managed_paths", "read_write_paths", "tmp_writable", "read_only_paths",
      "inaccessible_paths">>

apply_process_settings ==
    <<"memory_deny_write_execute", "restrict_realtime", "private_uts", "private_devices",
      "private_tmp">> \o FilesystemSteps \o
    <<"private_ipc", "private_network", "drop_bounding_set", "umask", "nice",
      "oom_score_adjust", "nofile", "signal_disposition">>

\* Mutant: the identity is set before the namespaces are entered.
setup_steps_identity_first ==
    <<"parent_death_signal", "process_group", "keep_capabilities", "private_users", "identity">>
    \o apply_process_settings \o
    <<"bounding_set", "ambient", "protect_clock", "hostname_filter", "lock_personality",
      "address_families", "no_new_privileges">>

\* Mutant: ambient capabilities are raised before the bounding set is applied.
setup_steps_ambient_first ==
    <<"parent_death_signal", "process_group", "keep_capabilities", "private_users">>
    \o apply_process_settings \o
    <<"identity", "ambient", "bounding_set", "protect_clock", "hostname_filter",
      "lock_personality", "address_families", "no_new_privileges">>

setup_steps ==
    <<"parent_death_signal", "process_group", "keep_capabilities", "private_users">>
    \o apply_process_settings \o
    <<"identity", "bounding_set", "ambient", "protect_clock", "hostname_filter",
      "lock_personality", "address_families", "no_new_privileges">>

final_steps == <<"restrict_suid_sgid", "restrict_namespaces", "system_call_filter">>

spawn_main_steps == setup_steps \o <<"activation_fds", "activation_stdin">> \o final_steps
spawn_script_steps == setup_steps \o final_steps
spawn_stop_command_steps == setup_steps \o final_steps
spawn_reload_command_steps == setup_steps \o final_steps

Steps(r) ==
    CASE r = "main" -> spawn_main_steps
      [] r = "script" -> spawn_script_steps
      [] r = "stop" -> spawn_stop_command_steps
      [] r = "reload" -> spawn_reload_command_steps

\* The settings a descriptor may combine. An identity is a user other than
\* root or only a group; "protect_system" is the strict one; "protect_proc" a
\* /proc of its own, in the mode "ptraceable" if that is there too;
\* "low_nofile" LimitNOFILE at or below 10; "raise" a nice value or OOM
\* adjustment that takes a privilege.
Settings ==
    {"memory_deny_write_execute", "restrict_realtime", "user", "group", "ambient", "bounding_set", "private_users", "protect_hostname",
     "private_devices", "private_tmp", "protect_system", "protect_proc", "ptraceable",
     "managed_paths", "read_write_paths", "read_only_paths", "inaccessible_paths", "private_ipc", "private_network", "raise",
     "low_nofile", "protect_clock", "lock_personality", "address_families", "no_new_privileges",
     "activation_fds", "activation_stdin", "restrict_suid_sgid", "restrict_namespaces",
     "system_call_filter"}

ASSUME DescriptorsAssumption == Descriptors \subseteq SUBSET Settings

ChangesIdentity == asked \cap {"user", "group"} # {}

\* Paths are remounted only when a setting asks for a view of its own; a list
\* of writable paths alone does not.
Isolates ==
    asked \cap {"protect_system", "protect_proc", "protect_hostname", "read_only_paths",
                "inaccessible_paths"} # {}

\* Which steps these settings ask for, some of them whatever the settings.
Wanted(step) ==
    \/ step \in asked \cup {"parent_death_signal", "process_group", "signal_disposition"}
       /\ (step \in {"managed_paths", "read_write_paths"} => Isolates)
    \/ step = "apply_filesystem_protection" /\ Isolates
    \/ step = "tmp_writable" /\ "private_tmp" \in asked /\ Isolates
    \/ step = "identity" /\ ChangesIdentity
    \/ step = "keep_capabilities" /\ "ambient" \in asked /\ ChangesIdentity
    \/ step = "drop_bounding_set" /\ "bounding_set" \in asked
    \/ step \in {"private_uts", "hostname_filter"} /\ "protect_hostname" \in asked
    \/ step \in {"nice", "oom_score_adjust"} /\ "raise" \in asked
    \/ step = "nofile" /\ "low_nofile" \in asked

-----------------------------------------------------------------------------
(* Linux, as far as the steps use it.                                      *)

Caps == {"setuid", "setpcap", "sys_admin", "sys_resource", "net_bind"}
Allowed == {"net_bind"}     \* the bounding set and the ambient set asked for

Root ==
    [root |-> TRUE, permitted |-> Caps, effective |-> Caps, bounding |-> Caps, ambient |-> {},
     keep |-> FALSE, no_new_privs |-> FALSE, userns |-> FALSE, pdeath |-> FALSE, group |-> FALSE,
     own |-> {}, mounts |-> [p \in {<<>>} |-> "writable"], low |-> FALSE, blocked |-> {}]

\* What a filter takes away from the steps after it. The one of the service
\* itself may take anything but exec.
Blocks(step) ==
    CASE step = "hostname_filter" -> {"sethostname"}
      [] step = "address_families" -> {"socket"}
      [] step = "restrict_namespaces" -> {"unshare"}
      [] step = "system_call_filter" ->
             {"sethostname", "socket", "unshare", "mount", "setuid", "capset", "prctl", "seccomp",
              "setpriority", "setrlimit", "write", "dup", "setpgid", "sigaction"}
      [] OTHER -> {}

Filters == {"protect_clock", "hostname_filter", "lock_personality", "address_families",
            "restrict_suid_sgid", "restrict_namespaces", "system_call_filter"}
Limits == {"memory_deny_write_execute", "restrict_realtime"}
Namespaces == {"private_uts", "private_ipc", "private_network", "private_devices", "private_tmp"}
Mounts == {"apply_filesystem_protection", "managed_paths", "read_write_paths", "tmp_writable",
           "read_only_paths", "inaccessible_paths"}

\* Looking up a user name may ask a service through a socket.
Uses(step) ==
    CASE step = "identity" -> {"setuid", "socket"}
      [] step = "private_users" -> {"unshare", "socket"}
      [] step \in Namespaces -> {"unshare", "mount"}
      [] step \in Mounts -> {"unshare", "mount"}
      [] step \in Filters -> {"prctl", "seccomp"}
      [] step = "nice" -> {"setpriority"}
      [] step = "oom_score_adjust" -> {"write"}
      [] step \in {"restrict_realtime", "nofile"} -> {"setrlimit"}
      [] step \in {"activation_fds", "activation_stdin"} -> {"dup"}
      [] step \in {"bounding_set", "ambient"} -> {"prctl", "capset"}
      [] step = "process_group" -> {"setpgid"}
      [] step = "signal_disposition" -> {"sigaction"}
      [] OTHER -> {"prctl"}

\* What takes a privilege over the host, which a user namespace does not
\* give: device nodes, a /proc of the host's processes, a lower nice value or
\* OOM adjustment. Nor is there an identity to take in it, since it has no
\* mappings: set_identity finds an effective user other than root.
OfTheHost(step) ==
    \/ step \in {"private_devices", "nice", "oom_score_adjust", "identity"}
    \/ step = "apply_filesystem_protection" /\ "protect_proc" \in asked

\* platform.c takes the modes of hidepid up to 3, and "ptraceable" is 4.
InvalidMode(step) ==
    step = "apply_filesystem_protection" /\ {"protect_proc", "ptraceable"} \subseteq asked

\* The capability a step takes.
Permits(step) ==
    CASE step \in Namespaces \cup Mounts -> "sys_admin" \in c.effective
      [] step = "identity" -> c.root /\ "setuid" \in c.effective
      [] step \in {"drop_bounding_set", "bounding_set"} ->
             c.bounding \subseteq Allowed \/ "setpcap" \in c.effective
      [] step = "ambient" -> Allowed \subseteq c.permitted
      [] step \in {"nice", "oom_score_adjust"} -> "sys_resource" \in c.effective
      [] step = "activation_fds" -> ~ c.low
      [] step = "activation_stdin" -> "activation_fds" \in asked
      [] OTHER -> TRUE

Refuses(step) ==
    \/ Uses(step) \cap c.blocked # {} \/ ~ Permits(step) \/ InvalidMode(step)
    \/ OfTheHost(step) /\ c.userns

\* In a user namespace the flags of the mounts of the host are locked, and a
\* remount that leaves one out is refused: it depends on the host.
MayRefuse(step) == c.userns /\ step \in Mounts \cup {"private_tmp"}

\* A path that is remounted becomes a mount of its own; one that is hidden
\* takes the mounts below it along, and what is below cannot be reached.
Hidden(p) == \E q \in DOMAIN c.mounts : c.mounts[q] = "hidden" /\ IsPrefix(q, p)
Mounted(ps, mode) ==
    LET reached == {p \in ps : ~ Hidden(p)} IN
    [p \in DOMAIN c.mounts \cup reached |-> IF p \in reached THEN mode ELSE c.mounts[p]]
Access(p) ==
    LET at == CHOOSE q \in DOMAIN c.mounts :
                  /\ IsPrefix(q, p)
                  /\ \A r \in DOMAIN c.mounts : IsPrefix(r, p) => Len(r) <= Len(q)
    IN  IF Hidden(p) THEN "hidden" ELSE c.mounts[at]

Mode(step) ==
    CASE step = "inaccessible_paths" -> "hidden"
      [] step \in {"read_only_paths", "apply_filesystem_protection"} -> "read-only"
      [] OTHER -> "writable"

Listed(list) == IF list \in asked THEN {listed[list]} ELSE {}

\* Paths of the state, cache and log directories matter only when the rest
\* of the system is read-only.
PathsOf(step) ==
    CASE step = "apply_filesystem_protection" -> IF "protect_system" \in asked THEN {<<>>} ELSE {}
      [] step = "tmp_writable" -> {<<"tmp">>}
      [] step = "managed_paths" -> IF "protect_system" \in asked THEN Listed(step) ELSE {}
      [] OTHER -> Listed(step)

\* A new user namespace gives all capabilities over what is in it, and takes
\* away what was kept of others. Its uid_map and gid_map stay empty: result is
\* what snprintf returned, not 0, when it comes to writing them.
enter_private_users ==
    [c EXCEPT !.userns = TRUE, !.permitted = Caps, !.effective = Caps, !.bounding = Caps,
              !.ambient = {}, !.keep = FALSE]

\* setuid drops the capabilities unless they are kept, and setuid and setgid
\* the parent death signal.
set_identity ==
    IF "user" \in asked
    THEN [c EXCEPT !.root = FALSE, !.pdeath = FALSE, !.effective = {},
                   !.permitted = IF c.keep THEN @ ELSE {}]
    ELSE [c EXCEPT !.pdeath = FALSE]

Effect(step) ==
    CASE step = "parent_death_signal" -> [c EXCEPT !.pdeath = TRUE]
      [] step = "process_group" -> [c EXCEPT !.group = TRUE]
      [] step = "keep_capabilities" -> [c EXCEPT !.keep = TRUE]
      [] step = "private_users" -> enter_private_users
      [] step \in Mounts -> [c EXCEPT !.mounts = Mounted(PathsOf(step), Mode(step))]
      [] step = "private_tmp" -> [c EXCEPT !.own = @ \cup {step},
                                           !.mounts = Mounted({<<"tmp">>}, "writable")]
      [] step \in Limits \cup (Namespaces \ {"private_tmp"}) -> [c EXCEPT !.own = @ \cup {step}]
      [] step = "drop_bounding_set" -> [c EXCEPT !.bounding = @ \cap Allowed]
      [] step = "nofile" -> [c EXCEPT !.low = TRUE]
      [] step = "identity" -> set_identity
      [] step = "bounding_set" ->
             [c EXCEPT !.bounding = @ \cap Allowed, !.effective = @ \cap Allowed,
                       !.permitted = @ \cap Allowed, !.ambient = {}]
      [] step = "ambient" -> [c EXCEPT !.effective = @ \cup Allowed, !.ambient = Allowed]
      [] step = "no_new_privileges" -> [c EXCEPT !.no_new_privs = TRUE]
      [] step \in Filters -> [c EXCEPT !.no_new_privs = TRUE, !.own = @ \cup {step},
                                       !.blocked = @ \cup Blocks(step)]
      [] OTHER -> c

-----------------------------------------------------------------------------
Lists == {"managed_paths", "read_write_paths", "read_only_paths", "inaccessible_paths"}

Init ==
    /\ role \in Roles
    /\ asked \in Descriptors
    /\ listed \in [Lists \cap asked -> Paths]
    /\ todo = {k \in DOMAIN Steps(role) : Wanted(Steps(role)[k])}
    /\ c = Root /\ status = "setting up"

\* The step that is next.
IsNext(k) == k \in todo /\ \A j \in todo : k <= j

Take ==
    /\ status = "setting up"
    /\ \E k \in todo :
          /\ IsNext(k) /\ ~ Refuses(Steps(role)[k])
          /\ c' = Effect(Steps(role)[k])
          /\ todo' = todo \ {k}
    /\ UNCHANGED <<role, asked, listed, status>>

Refuse ==
    /\ status = "setting up"
    /\ \E k \in todo : IsNext(k) /\ (Refuses(Steps(role)[k]) \/ MayRefuse(Steps(role)[k]))
    /\ status' = "refused"
    /\ UNCHANGED <<role, asked, listed, todo, c>>

\* Kernel: execve leaves root the bounding set and others their ambient set,
\* and so root in a user namespace that does not map it.
Exec ==
    /\ status = "setting up" /\ todo = {}
    /\ status' = "executed"
    /\ LET caps == IF c.root /\ ~ c.userns THEN c.bounding ELSE c.ambient
       IN  c' = [c EXCEPT !.permitted = caps, !.effective = caps, !.keep = FALSE]
    /\ UNCHANGED <<role, asked, listed, todo>>

Next == Take \/ Refuse \/ Exec

Spec == Init /\ [][Next]_vars

-----------------------------------------------------------------------------
(* Properties.                                                             *)

\* The process is of its type: capabilities in force are permitted ones, and
\* the root of the file system is always mounted.
TypeOK ==
    /\ status \in {"setting up", "refused", "executed"}
    /\ asked \subseteq Settings
    /\ c.effective \subseteq c.permitted /\ c.permitted \subseteq Caps
    /\ c.ambient \subseteq c.permitted
    /\ <<>> \in DOMAIN c.mounts

\* What does not go with a private user namespace.
NeedsHost ==
    asked \cap {"user", "group", "private_devices", "private_tmp", "raise"} # {} \/ Isolates

\* No setting of a descriptor keeps another from being set up: the steps that
\* take a privilege come before it is given up, and no filter is in the way of
\* a later step. The exceptions are a private user namespace with what takes
\* the host's privileges, identities or mounts, the mode of ProtectProc that
\* platform.c does not know, sockets passed to a process that may have no more
\* than ten descriptors, and a socket as standard input that nobody passes.
NothingStarves ==
    status = "refused" =>
        \/ "private_users" \in asked /\ NeedsHost
        \/ {"protect_proc", "ptraceable"} \subseteq asked
        \/ {"activation_fds", "low_nofile"} \subseteq asked
        \/ "activation_stdin" \in asked /\ "activation_fds" \notin asked

\* Whatever executes has all that was asked for, whichever function started
\* it: nothing is undone by a later step. Only the parent death signal is lost
\* when the identity changes.
InForce ==
    status = "executed" =>
        /\ c.root <=> "user" \notin asked
        /\ "user" \in asked => c.permitted = c.ambient
        /\ "bounding_set" \in asked => c.bounding \cup c.permitted \subseteq Allowed
        /\ "ambient" \in asked => c.ambient = Allowed
        /\ "no_new_privileges" \in asked => c.no_new_privs
        /\ c.group /\ (c.pdeath <=> ~ ChangesIdentity)
        /\ "private_users" \in asked => c.userns
        /\ \A step \in Filters \cup Limits \cup Namespaces : Wanted(step) => step \in c.own

\* A path is hidden, read-only or writable as it is listed. Where lists name
\* the same path the stricter one prevails, and what is in a hidden directory
\* is hidden.
PathsAsListed ==
    status = "executed" =>
        /\ \A p \in Listed("inaccessible_paths") : Access(p) = "hidden"
        /\ \A p \in Listed("read_only_paths") : Access(p) \in {"read-only", "hidden"}
        /\ \A p \in Listed("read_write_paths") :
               p \notin Listed("read_only_paths") => Access(p) \in {"writable", "hidden"}
        /\ ("protect_system" \in asked /\ Access(<<"var">>) = "writable") =>
               \E l \in {"managed_paths", "read_write_paths"} :
                   \E p \in Listed(l) : IsPrefix(p, <<"var">>)

\* A process that executes is confined as its descriptor says, in what it may do
\* and in what it sees.
Confined == TypeOK /\ InForce /\ PathsAsListed
=============================================================================
