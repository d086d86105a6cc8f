------------------------- MODULE ProcessSetupProofs -------------------------
(* ProcessSetup for every combination of settings, every choice of paths   *)
(* and each of the four functions: no step keeps a later one from being    *)
(* set up, and what executes is confined as asked.                         *)
(*                                                                         *)
(* The order of the steps is a table, so the proof begins with the place   *)
(* of each step in it (Places, At). The invariant then says, place by      *)
(* place, what holds once the step there is done, and TakeOne that a step  *)
(* finds all the earlier ones done and none of the later ones.             *)
EXTENDS ProcessSetup, SequenceTheorems, TLAPS

(* ------------------------------ the order ------------------------------ *)

\* The first 31 places of an order.
Places(f) ==
  /\ f[1] = "parent_death_signal" /\ f[2] = "process_group" /\ f[3] = "keep_capabilities"
  /\ f[4] = "private_users" /\ f[5] = "memory_deny_write_execute" /\ f[6] = "restrict_realtime"
  /\ f[7] = "private_uts" /\ f[8] = "private_devices" /\ f[9] = "private_tmp"
  /\ f[10] = "apply_filesystem_protection"
  /\ f[11] = "managed_paths" /\ f[12] = "read_write_paths"
  /\ f[13] = "tmp_writable" /\ f[14] = "read_only_paths" /\ f[15] = "inaccessible_paths"
  /\ f[16] = "private_ipc" /\ f[17] = "private_network" /\ f[18] = "drop_bounding_set"
  /\ f[19] = "umask" /\ f[20] = "nice" /\ f[21] = "oom_score_adjust" /\ f[22] = "nofile"
  /\ f[23] = "signal_disposition" /\ f[24] = "identity" /\ f[25] = "bounding_set"
  /\ f[26] = "ambient" /\ f[27] = "protect_clock" /\ f[28] = "hostname_filter"
  /\ f[29] = "lock_personality" /\ f[30] = "address_families" /\ f[31] = "no_new_privileges"

\* The steps of the places after those.
Late == {"activation_fds", "activation_stdin", "restrict_suid_sgid", "restrict_namespaces",
         "system_call_filter"}

\* The order of spawn_main, computed: the set-up, the passed sockets, the final filters.
LEMMA MainOrder ==
  /\ DOMAIN spawn_main_steps = 1 .. 36 /\ Places(spawn_main_steps)
  /\ spawn_main_steps[32] = "activation_fds" /\ spawn_main_steps[33] = "activation_stdin"
  /\ spawn_main_steps[34] = "restrict_suid_sgid" /\ spawn_main_steps[35] = "restrict_namespaces"
  /\ spawn_main_steps[36] = "system_call_filter"
BY DEF spawn_main_steps, final_steps, setup_steps, apply_process_settings, FilesystemSteps, Places

\* The order of spawn_script: the same without the passed sockets.
LEMMA ScriptOrder ==
  /\ DOMAIN spawn_script_steps = 1 .. 34 /\ Places(spawn_script_steps)
  /\ spawn_script_steps[32] = "restrict_suid_sgid" /\ spawn_script_steps[33] = "restrict_namespaces"
  /\ spawn_script_steps[34] = "system_call_filter"
BY DEF spawn_script_steps, final_steps, setup_steps, apply_process_settings, FilesystemSteps, Places

\* Stop and reload commands are set up as scripts are.
LEMMA OthersOrder ==
  spawn_stop_command_steps = spawn_script_steps /\ spawn_reload_command_steps = spawn_script_steps
BY DEF spawn_stop_command_steps, spawn_reload_command_steps, spawn_script_steps

\* Only the last step is the filter of the service itself.
IsLast(f, k) == f[k] = "system_call_filter" => \A j \in DOMAIN f : j <= k

\* The steps that leave something in force: filters, limits and namespaces.
Placed == Filters \cup Limits \cup Namespaces

\* The order of each of the four functions: the set-up has the first 31 places, the
\* filter of the service itself is last, and every step that leaves something in force
\* has a place.
LEMMA OrderOf ==
  ASSUME NEW r \in Roles
  PROVE  LET f == Steps(r)
         IN  /\ DOMAIN f \in {1 .. 34, 1 .. 36} /\ Places(f)
             /\ \A k \in DOMAIN f : k > 31 => f[k] \in Late /\ IsLast(f, k)
             /\ \A s \in Placed : \E k \in DOMAIN f : f[k] = s
<1>1. Steps(r) \in {spawn_main_steps, spawn_script_steps}
  BY SetupAssumption, OthersOrder DEF Steps
<1>2. CASE Steps(r) = spawn_main_steps
  <2> DEFINE f == spawn_main_steps
  <2>1. \A k \in 1 .. 36 : k > 31 => k \in {32, 33, 34, 35, 36}
    OBVIOUS
  <2>2. \A k \in DOMAIN f : k > 31 => f[k] \in Late /\ IsLast(f, k)
    BY <2>1, MainOrder DEF Late, IsLast
  <2>3. \A s \in Placed : \E k \in DOMAIN f : f[k] = s
    BY MainOrder DEF Places, Placed, Filters, Limits, Namespaces
  <2> QED BY <1>2, <2>2, <2>3, MainOrder
<1>3. CASE Steps(r) = spawn_script_steps
  <2> DEFINE f == spawn_script_steps
  <2>1. \A k \in 1 .. 34 : k > 31 => k \in {32, 33, 34}
    OBVIOUS
  <2>2. \A k \in DOMAIN f : k > 31 => f[k] \in Late /\ IsLast(f, k)
    BY <2>1, ScriptOrder DEF Late, IsLast
  <2>3. \A s \in Placed : \E k \in DOMAIN f : f[k] = s
    BY ScriptOrder DEF Places, Placed, Filters, Limits, Namespaces
  <2> QED BY <1>3, <2>2, <2>3, ScriptOrder
<1> QED BY <1>1, <1>2, <1>3

\* Which place a step has: the ones of the set-up have one each.
At(k, s) ==
  /\ (k = 1 => s = "parent_death_signal") /\ (k = 2 => s = "process_group")
  /\ (k = 3 => s = "keep_capabilities") /\ (k = 4 => s = "private_users")
  /\ (k = 5 => s = "memory_deny_write_execute") /\ (k = 6 => s = "restrict_realtime")
  /\ (k = 7 => s = "private_uts") /\ (k = 8 => s = "private_devices")
  /\ (k = 9 => s = "private_tmp") /\ (k = 10 => s = "apply_filesystem_protection")
  /\ (k = 11 => s = "managed_paths") /\ (k = 12 => s = "read_write_paths")
  /\ (k = 13 => s = "tmp_writable") /\ (k = 14 => s = "read_only_paths")
  /\ (k = 15 => s = "inaccessible_paths") /\ (k = 16 => s = "private_ipc")
  /\ (k = 17 => s = "private_network") /\ (k = 18 => s = "drop_bounding_set")
  /\ (k = 19 => s = "umask") /\ (k = 20 => s = "nice")
  /\ (k = 21 => s = "oom_score_adjust") /\ (k = 22 => s = "nofile")
  /\ (k = 23 => s = "signal_disposition") /\ (k = 24 => s = "identity")
  /\ (k = 25 => s = "bounding_set") /\ (k = 26 => s = "ambient")
  /\ (k = 27 => s = "protect_clock") /\ (k = 28 => s = "hostname_filter")
  /\ (k = 29 => s = "lock_personality") /\ (k = 30 => s = "address_families")
  /\ (k = 31 => s = "no_new_privileges")
  /\ (k > 31 => s \in Late)

\* The step at a place is the one that At names for it.
LEMMA PlaceOf ==
  ASSUME NEW r \in Roles, NEW k \in DOMAIN Steps(r)
  PROVE  k \in 1 .. 36 /\ At(k, Steps(r)[k])
<1> DEFINE f == Steps(r)
<1>1. DOMAIN f \in {1 .. 34, 1 .. 36} /\ Places(f) /\ (k > 31 => f[k] \in Late)
  BY OrderOf
<1>2. k \in 1 .. 36
  BY <1>1
<1> HIDE DEF f
<1>3. At(k, f[k])
  BY <1>1, <1>2 DEF At, Places
<1> QED BY <1>2, <1>3 DEF f

\* No filter is in the way of a later step.
LEMMA FiltersComeLast ==
  ASSUME NEW r \in Roles, NEW j \in DOMAIN Steps(r), NEW k \in DOMAIN Steps(r), k < j
  PROVE  Uses(Steps(r)[j]) \cap Blocks(Steps(r)[k]) = {}
<1> DEFINE s == Steps(r)[k]
           t == Steps(r)[j]
<1>1. k \in 1 .. 36 /\ At(k, s)
  BY PlaceOf
<1>2. j \in 1 .. 36 /\ At(j, t)
  BY PlaceOf
<1>3. s # "system_call_filter"
  <2>1. s = "system_call_filter" => k > 31
    BY <1>1 DEF At
  <2>2. k > 31 => (s = "system_call_filter" => j <= k)
    BY OrderOf DEF IsLast
  <2> QED BY <1>1, <1>2, <2>1, <2>2
<1> HIDE DEF s, t
<1>4. Uses(t) \cap Blocks(s) = {}
  <2>1. CASE s = "hostname_filter"
    <3>1. Blocks(s) = {"sethostname"}
      BY <2>1 DEF Blocks
    <3>2. "sethostname" \notin Uses(t)
      BY DEF Uses, Namespaces, Mounts, Filters
    <3> QED BY <3>1, <3>2
  <2>2. CASE s = "address_families"
    <3>1. t \notin {"identity", "private_users"}
      BY <1>1, <1>2, <2>2 DEF At, Late
    <3>2. Blocks(s) = {"socket"}
      BY <2>2 DEF Blocks
    <3>3. "socket" \notin Uses(t)
      BY <3>1 DEF Uses, Namespaces, Mounts, Filters
    <3> QED BY <3>2, <3>3
  <2>3. CASE s = "restrict_namespaces"
    <3>1. t \in Late
      BY <1>1, <1>2, <2>3 DEF At, Late
    <3>2. Blocks(s) = {"unshare"}
      BY <2>3 DEF Blocks
    <3>3. "unshare" \notin Uses(t)
      BY <3>1 DEF Uses, Late, Namespaces, Mounts, Filters
    <3> QED BY <3>2, <3>3
  <2>4. CASE s \notin {"hostname_filter", "address_families", "restrict_namespaces"}
    BY <1>3, <2>4 DEF Blocks
  <2> QED BY <2>1, <2>2, <2>3, <2>4
<1> QED BY <1>4 DEF s, t

(* ------------------------------ the process ---------------------------- *)

\* What a step does to the identity, the parent death signal and the limits.
LEMMA EffectOnIdentity ==
  ASSUME DOMAIN c = DOMAIN Root, NEW step
  PROVE  LET d == Effect(step)
         IN  /\ DOMAIN d = DOMAIN Root
             /\ d.root = IF step = "identity" /\ "user" \in asked THEN FALSE ELSE c.root
             /\ d.keep = IF step = "keep_capabilities" THEN TRUE
                         ELSE IF step = "private_users" THEN FALSE ELSE c.keep
             /\ d.pdeath = IF step = "parent_death_signal" THEN TRUE
                           ELSE IF step = "identity" THEN FALSE ELSE c.pdeath
             /\ d.group = IF step = "process_group" THEN TRUE ELSE c.group
             /\ d.userns = IF step = "private_users" THEN TRUE ELSE c.userns
             /\ d.low = IF step = "nofile" THEN TRUE ELSE c.low
BY DEF Effect, enter_private_users, set_identity, Root, Filters, Limits, Namespaces, Mounts

\* What a step does to the four sets of capabilities.
LEMMA EffectOnCaps ==
  ASSUME DOMAIN c = DOMAIN Root, NEW step
  PROVE  LET d == Effect(step)
         IN  /\ d.permitted = CASE step = "private_users" -> Caps
                                [] step = "identity" /\ "user" \in asked /\ ~c.keep -> {}
                                [] step = "bounding_set" -> c.permitted \cap Allowed
                                [] OTHER -> c.permitted
             /\ d.effective = CASE step = "private_users" -> Caps
                                [] step = "identity" /\ "user" \in asked -> {}
                                [] step = "bounding_set" -> c.effective \cap Allowed
                                [] step = "ambient" -> c.effective \cup Allowed
                                [] OTHER -> c.effective
             /\ d.bounding = CASE step = "private_users" -> Caps
                               [] step \in {"drop_bounding_set", "bounding_set"} -> c.bounding \cap Allowed
                               [] OTHER -> c.bounding
             /\ d.ambient = CASE step \in {"private_users", "bounding_set"} -> {}
                              [] step = "ambient" -> Allowed
                              [] OTHER -> c.ambient
BY DEF Effect, enter_private_users, set_identity, Root, Filters, Limits, Namespaces, Mounts

\* What a step does to filters, namespaces and mounts.
LEMMA EffectOnRest ==
  ASSUME DOMAIN c = DOMAIN Root, NEW step
  PROVE  LET d == Effect(step)
         IN  /\ d.no_new_privs = IF step = "no_new_privileges" \/ step \in Filters THEN TRUE ELSE c.no_new_privs
             /\ d.own = IF step \in Placed THEN c.own \cup {step} ELSE c.own
             /\ d.blocked = IF step \in Filters THEN c.blocked \cup Blocks(step) ELSE c.blocked
             /\ d.mounts = CASE step \in Mounts -> Mounted(PathsOf(step), Mode(step))
                             [] step = "private_tmp" -> Mounted({<<"tmp">>}, "writable")
                             [] OTHER -> c.mounts
BY DEF Effect, enter_private_users, set_identity, Root, Filters, Placed, Limits, Namespaces, Mounts

(* ------------------------- the invariant, without mounts ---------------- *)

\* The step at place k was asked for and has been taken.
Done(k) == k \in DOMAIN Steps(role) /\ Wanted(Steps(role)[k]) /\ k \notin todo

\* Steps are taken in their order: what is done comes before what is to do.
OrderInv ==
  /\ role \in Roles /\ asked \in Descriptors /\ listed \in [Lists \cap asked -> Paths]
  /\ todo \subseteq DOMAIN Steps(role)
  /\ \A k \in todo : Wanted(Steps(role)[k])
  /\ \A k \in DOMAIN Steps(role) : Done(k) => \A j \in todo : k < j

\* The identity is given up by the step that changes it, and by no other; what
\* was to be kept of the capabilities is lost in a new user namespace.
GivesUp == Done(24) /\ "user" \in asked

IdentityInv ==
  /\ c.root <=> ~ GivesUp
  /\ c.keep <=> Done(3) /\ ~ Done(4)
  /\ c.userns <=> Done(4)
  /\ c.low => Done(22)
  /\ Done(1) => (c.pdeath <=> ~ Done(24))
  /\ Done(2) => c.group

\* All capabilities are there, those of a user namespace if there is one, until
\* the identity or the bounding set of the process is changed; the ones asked
\* for stay permitted throughout.
CapsInv ==
  /\ c.effective \subseteq c.permitted /\ c.permitted \subseteq Caps
  /\ (~ GivesUp /\ ~ Done(25)) => c.effective = Caps
  /\ "ambient" \in asked => Allowed \subseteq c.permitted
  /\ Done(25) => c.permitted \subseteq Allowed
  /\ Allowed \subseteq c.bounding /\ c.bounding \subseteq Caps
  /\ (Done(18) \/ Done(25)) => c.bounding \subseteq Allowed
  /\ c.ambient = IF Done(26) THEN Allowed ELSE {}

\* What is done is in force, and no filter in force is in the way of what is
\* to do.
FilterInv ==
  /\ Done(31) => c.no_new_privs
  /\ \A k \in DOMAIN Steps(role) :
        Done(k) /\ Steps(role)[k] \in Placed => Steps(role)[k] \in c.own
  /\ \A k \in todo : Uses(Steps(role)[k]) \cap c.blocked = {}

(* ------------------------------ the mounts ----------------------------- *)

\* The paths that a process may have mounts at.
MountPoints == {<<>>, <<"tmp">>} \cup {listed[l] : l \in Lists \cap asked}

\* Everything is writable, with at most a private /tmp mounted.
Plain == \A q \in DOMAIN c.mounts : q \in {<<>>, <<"tmp">>} /\ c.mounts[q] = "writable"

\* Until the paths are remounted everything is writable. What a list makes of
\* its path stays, unless a later list names the same path.
MountInv ==
  /\ <<>> \in DOMAIN c.mounts /\ DOMAIN c.mounts \subseteq MountPoints
  /\ (\A k \in 10 .. 15 : ~ Done(k)) => Plain
  /\ ~ Done(15) => \A q \in DOMAIN c.mounts : c.mounts[q] # "hidden"
  /\ Done(10) /\ "protect_system" \in asked => \A q \in DOMAIN c.mounts :
        c.mounts[q] = "writable" =>
           q = <<"tmp">> \/ q \in Listed("managed_paths") \cup Listed("read_write_paths")
  /\ Done(12) => \A p \in Listed("read_write_paths") :
        /\ p \in DOMAIN c.mounts
        /\ p \notin Listed("read_only_paths") => c.mounts[p] \in {"writable", "hidden"}
  /\ Done(14) => \A p \in Listed("read_only_paths") :
        p \in DOMAIN c.mounts /\ c.mounts[p] \in {"read-only", "hidden"}
  /\ Done(15) => \A p \in Listed("inaccessible_paths") :
        p \in DOMAIN c.mounts /\ c.mounts[p] = "hidden"

\* Before exec the four parts hold; NothingStarves and Confined are about what
\* they leave behind.
SetupIInv ==
  /\ OrderInv /\ DOMAIN c = DOMAIN Root
  /\ status \in {"setting up", "refused", "executed"}
  /\ status # "executed" => IdentityInv /\ CapsInv /\ FilterInv /\ MountInv
  /\ NothingStarves /\ Confined

(* ------------------------------ one step ------------------------------- *)

\* The places of the steps that the invariant is about.
LEMMA PlacesOfSteps ==
  ASSUME NEW r \in Roles, NEW k \in DOMAIN Steps(r), NEW s, s = Steps(r)[k]
  PROVE  /\ s = "parent_death_signal" <=> k = 1
         /\ s = "process_group" <=> k = 2
         /\ s = "keep_capabilities" <=> k = 3
         /\ s = "private_users" <=> k = 4
         /\ s = "drop_bounding_set" <=> k = 18
         /\ s = "nofile" <=> k = 22
         /\ s = "identity" <=> k = 24
         /\ s = "bounding_set" <=> k = 25
         /\ s = "ambient" <=> k = 26
         /\ s = "no_new_privileges" <=> k = 31
<1>1. k \in 1 .. 36 /\ At(k, s)
  BY PlaceOf
<1> QED BY <1>1 DEF At, Late

\* The places of the steps that change mounts.
LEMMA PlacesOfMounts ==
  ASSUME NEW r \in Roles, NEW k \in DOMAIN Steps(r), NEW s, s = Steps(r)[k]
  PROVE  /\ s = "private_tmp" <=> k = 9
         /\ s = "apply_filesystem_protection" <=> k = 10
         /\ s = "managed_paths" <=> k = 11
         /\ s = "read_write_paths" <=> k = 12
         /\ s = "tmp_writable" <=> k = 13
         /\ s = "read_only_paths" <=> k = 14
         /\ s = "inaccessible_paths" <=> k = 15
<1>1. k \in 1 .. 36 /\ At(k, s)
  BY PlaceOf
<1> QED BY <1>1 DEF At, Late

\* The other way round: which step is at a place.
LEMMA FixedPlaces ==
  ASSUME NEW r \in Roles
  PROVE  1 .. 31 \subseteq DOMAIN Steps(r) /\ Places(Steps(r))
<1>1. DOMAIN Steps(r) \in {1 .. 34, 1 .. 36} /\ Places(Steps(r))
  BY OrderOf
<1> QED BY <1>1

\* A step that is taken is done, nothing else changes, and all the steps
\* before it that were asked for are done.
LEMMA TakeOne ==
  ASSUME OrderInv, NEW k \in todo, IsNext(k), todo' = todo \ {k}, UNCHANGED <<role, asked, listed>>
  PROVE  /\ OrderInv'
         /\ \A j : Done(j)' <=> Done(j) \/ j = k
         /\ \A j : Done(j) => j < k /\ j \in 1 .. 36
         /\ \A j \in DOMAIN Steps(role) : j < k /\ Wanted(Steps(role)[j]) => Done(j)
         /\ k \in DOMAIN Steps(role) /\ Wanted(Steps(role)[k]) /\ k \in 1 .. 36
<1>1. \A j \in DOMAIN Steps(role) : j \in 1 .. 36
  BY PlaceOf DEF OrderInv
<1>2. \A j : Wanted(j)' <=> Wanted(j)
  BY DEF Wanted, Isolates, ChangesIdentity
<1>3. \A j : Done(j)' <=> Done(j) \/ j = k
  BY <1>2 DEF OrderInv, Done
<1>4. \A j : Done(j) => j < k /\ j \in 1 .. 36
  BY <1>1 DEF OrderInv, Done
<1>5. \A j \in todo' : k < j
  BY <1>1 DEF OrderInv, IsNext
<1>6. OrderInv'
  <2>1. \A j \in DOMAIN Steps(role') : Done(j)' => \A i \in todo' : j < i
    BY <1>3, <1>5 DEF OrderInv
  <2> QED BY <1>2, <2>1 DEF OrderInv
<1>7. \A j \in DOMAIN Steps(role) : j < k /\ Wanted(Steps(role)[j]) => Done(j)
  BY <1>1 DEF IsNext, Done, OrderInv
<1> QED BY <1>1, <1>3, <1>4, <1>6, <1>7 DEF OrderInv

\* A descriptor has settings; the step that sets the identity is none of them.
LEMMA AskedSettings ==
  ASSUME OrderInv
  PROVE  asked \subseteq Settings /\ "identity" \notin asked
<1>1. asked \subseteq Settings
  BY DescriptorsAssumption DEF OrderInv
<1> QED BY <1>1 DEF Settings

\* Take keeps IdentityInv.
LEMMA TakeKeepsIdentity ==
  ASSUME OrderInv, DOMAIN c = DOMAIN Root, IdentityInv,
         NEW k \in todo, IsNext(k), todo' = todo \ {k}, UNCHANGED <<role, asked, listed>>,
         c' = Effect(Steps(role)[k])
  PROVE  IdentityInv'
<1> DEFINE s == Steps(role)[k]
<1>1. /\ \A j : Done(j)' <=> Done(j) \/ j = k
      /\ \A j : Done(j) => j < k /\ j \in 1 .. 36
      /\ k \in DOMAIN Steps(role) /\ k \in 1 .. 36 /\ role \in Roles
  BY TakeOne DEF OrderInv
<1>2. /\ c'.root = IF s = "identity" /\ "user" \in asked THEN FALSE ELSE c.root
      /\ c'.keep = IF s = "keep_capabilities" THEN TRUE
                   ELSE IF s = "private_users" THEN FALSE ELSE c.keep
      /\ c'.pdeath = IF s = "parent_death_signal" THEN TRUE
                    ELSE IF s = "identity" THEN FALSE ELSE c.pdeath
      /\ c'.group = IF s = "process_group" THEN TRUE ELSE c.group
      /\ c'.userns = IF s = "private_users" THEN TRUE ELSE c.userns
      /\ c'.low = IF s = "nofile" THEN TRUE ELSE c.low
  BY EffectOnIdentity
<1>3. /\ s = "parent_death_signal" <=> k = 1
      /\ s = "process_group" <=> k = 2
      /\ s = "keep_capabilities" <=> k = 3
      /\ s = "private_users" <=> k = 4
      /\ s = "nofile" <=> k = 22
      /\ s = "identity" <=> k = 24
  BY <1>1, PlacesOfSteps
<1> HIDE DEF s
<1>4. GivesUp' <=> (GivesUp \/ (k = 24 /\ "user" \in asked))
  BY <1>1 DEF GivesUp
<1>5. c'.root <=> ~ GivesUp'
  <2>1. CASE k = 24 /\ "user" \in asked
    BY <1>2, <1>3, <1>4, <2>1
  <2>2. CASE ~ (k = 24 /\ "user" \in asked)
    <3>1. c'.root = c.root
      BY <1>2, <1>3, <2>2
    <3>2. GivesUp' <=> GivesUp
      BY <1>4, <2>2, Zenon
    <3> QED BY <3>1, <3>2, Zenon DEF IdentityInv
  <2> QED BY <2>1, <2>2
<1>6. c'.keep <=> Done(3)' /\ ~ Done(4)'
  BY <1>1, <1>2, <1>3 DEF IdentityInv
<1>7. (c'.userns <=> Done(4)') /\ (c'.low => Done(22)') /\ (Done(2)' => c'.group)
  BY <1>1, <1>2, <1>3 DEF IdentityInv
<1>8. Done(1)' => (c'.pdeath <=> ~ Done(24)')
  BY <1>1, <1>2, <1>3 DEF IdentityInv
<1> QED BY <1>5, <1>6, <1>7, <1>8 DEF IdentityInv

\* Take keeps CapsInv: capabilities are given up at 24 and 25 only, where the ones asked
\* for are kept because keep_capabilities came first. A user namespace in between would
\* undo that, but then the identity is refused.
LEMMA TakeKeepsCaps ==
  ASSUME OrderInv, DOMAIN c = DOMAIN Root, IdentityInv, CapsInv,
         NEW k \in todo, IsNext(k), todo' = todo \ {k}, UNCHANGED <<role, asked, listed>>,
         c' = Effect(Steps(role)[k]), ~ Refuses(Steps(role)[k])
  PROVE  CapsInv'
<1> DEFINE s == Steps(role)[k]
<1>1. /\ \A j : Done(j)' <=> Done(j) \/ j = k
      /\ \A j : Done(j) => j < k /\ j \in 1 .. 36
      /\ \A j \in DOMAIN Steps(role) : j < k /\ Wanted(Steps(role)[j]) => Done(j)
      /\ k \in DOMAIN Steps(role) /\ Wanted(s) /\ k \in 1 .. 36 /\ role \in Roles
  BY TakeOne DEF OrderInv
<1>2. /\ c'.permitted = CASE s = "private_users" -> Caps
                         [] s = "identity" /\ "user" \in asked /\ ~c.keep -> {}
                         [] s = "bounding_set" -> c.permitted \cap Allowed
                         [] OTHER -> c.permitted
      /\ c'.effective = CASE s = "private_users" -> Caps
                         [] s = "identity" /\ "user" \in asked -> {}
                         [] s = "bounding_set" -> c.effective \cap Allowed
                         [] s = "ambient" -> c.effective \cup Allowed
                         [] OTHER -> c.effective
      /\ c'.bounding = CASE s = "private_users" -> Caps
                        [] s \in {"drop_bounding_set", "bounding_set"} -> c.bounding \cap Allowed
                        [] OTHER -> c.bounding
      /\ c'.ambient = CASE s \in {"private_users", "bounding_set"} -> {}
                       [] s = "ambient" -> Allowed
                       [] OTHER -> c.ambient
  BY EffectOnCaps
<1>3. /\ s = "private_users" <=> k = 4
      /\ s = "drop_bounding_set" <=> k = 18
      /\ s = "identity" <=> k = 24
      /\ s = "bounding_set" <=> k = 25
      /\ s = "ambient" <=> k = 26
  BY <1>1, PlacesOfSteps
<1>4. GivesUp' <=> (GivesUp \/ (k = 24 /\ "user" \in asked))
  BY <1>1 DEF GivesUp
<1>5. asked' = asked /\ Allowed \subseteq Caps
  BY DEF Allowed, Caps
<1>6. k = 24 /\ "ambient" \in asked => c.keep
  <2>1. k = 24 => ChangesIdentity
    BY <1>1, <1>3, AskedSettings DEF Wanted
  <2>2. 3 \in DOMAIN Steps(role) /\ Steps(role)[3] = "keep_capabilities"
    BY <1>1, FixedPlaces DEF Places
  <2>3. k = 24 /\ "ambient" \in asked => Done(3)
    BY <1>1, <2>1, <2>2 DEF Wanted
  <2>4. k = 24 => ~ c.userns
    BY <1>3 DEF Refuses, OfTheHost
  <2> QED BY <2>3, <2>4 DEF IdentityInv
<1>7. k = 26 => "ambient" \in asked
  BY <1>1, <1>3 DEF Wanted
<1> HIDE DEF s
<1>8. CASE k \notin {4, 18, 24, 25, 26}
  <2>1. /\ c'.permitted = c.permitted /\ c'.effective = c.effective /\ c'.bounding = c.bounding
        /\ c'.ambient = c.ambient
    BY <1>2, <1>3, <1>8
  <2>2. (Done(18)' <=> Done(18)) /\ (Done(25)' <=> Done(25)) /\ (Done(26)' <=> Done(26)) /\ (GivesUp' <=> GivesUp)
    <3>1. k # 18 /\ k # 25 /\ k # 26 /\ k # 24
      BY <1>8
    <3> QED BY <1>1, <1>4, <3>1, Zenon
  <2> QED BY <1>5, <2>1, <2>2 DEF CapsInv
<1>9. CASE k = 4
  BY <1>1, <1>2, <1>3, <1>4, <1>5, <1>9 DEF CapsInv
<1>10. CASE k = 18
  <2>1. /\ c'.permitted = c.permitted /\ c'.effective = c.effective
        /\ c'.bounding = c.bounding \cap Allowed /\ c'.ambient = c.ambient
    BY <1>2, <1>3, <1>10
  <2>2. (Done(25)' <=> Done(25)) /\ (Done(26)' <=> Done(26)) /\ (GivesUp' <=> GivesUp)
    <3>1. k # 25 /\ k # 26 /\ k # 24
      BY <1>10
    <3> QED BY <1>1, <1>4, <3>1, Zenon
  <2> QED BY <1>5, <2>1, <2>2 DEF CapsInv
<1>11. CASE k = 24
  BY <1>1, <1>2, <1>3, <1>4, <1>5, <1>6, <1>11 DEF CapsInv, GivesUp
<1>12. CASE k = 25
  BY <1>1, <1>2, <1>3, <1>4, <1>5, <1>12 DEF CapsInv
<1>13. CASE k = 26
  <2>1. /\ c'.permitted = c.permitted /\ c'.effective = c.effective \cup Allowed
        /\ c'.bounding = c.bounding /\ c'.ambient = Allowed
    BY <1>2, <1>3, <1>13
  <2>2. (Done(18)' <=> Done(18)) /\ (Done(25)' <=> Done(25)) /\ Done(26)' /\ (GivesUp' <=> GivesUp)
    <3>1. k # 18 /\ k # 25 /\ k = 26 /\ k # 24
      BY <1>13
    <3> QED BY <1>1, <1>4, <3>1, Zenon
  <2>3. (~ GivesUp' /\ ~ Done(25)') => c'.effective = Caps
    <3>1. (~ GivesUp /\ ~ Done(25)) => c.effective = Caps
      BY DEF CapsInv
    <3>2. Caps \cup Allowed = Caps
      BY <1>5
    <3> QED BY <2>1, <2>2, <3>1, <3>2
  <2>4. c'.effective \subseteq c'.permitted /\ c'.permitted \subseteq Caps
    BY <1>5, <1>7, <1>13, <2>1 DEF CapsInv
  <2>5. ("ambient" \in asked' => Allowed \subseteq c'.permitted) /\ (Done(25)' => c'.permitted \subseteq Allowed)
    BY <1>5, <2>1, <2>2 DEF CapsInv
  <2>6. /\ Allowed \subseteq c'.bounding /\ c'.bounding \subseteq Caps
        /\ (Done(18)' \/ Done(25)') => c'.bounding \subseteq Allowed
    BY <2>1, <2>2 DEF CapsInv
  <2>7. c'.ambient = IF Done(26)' THEN Allowed ELSE {}
    BY <2>1, <2>2
  <2> QED BY <2>3, <2>4, <2>5, <2>6, <2>7 DEF CapsInv
<1> QED BY <1>8, <1>9, <1>10, <1>11, <1>12, <1>13

\* Take keeps FilterInv, by the order of the filters.
LEMMA TakeKeepsFilters ==
  ASSUME OrderInv, DOMAIN c = DOMAIN Root, FilterInv,
         NEW k \in todo, IsNext(k), todo' = todo \ {k}, UNCHANGED <<role, asked, listed>>,
         c' = Effect(Steps(role)[k])
  PROVE  FilterInv'
<1> DEFINE s == Steps(role)[k]
<1>1. /\ \A j : Done(j)' <=> (Done(j) \/ j = k)
      /\ \A j : Done(j) => j < k /\ j \in 1 .. 36
      /\ k \in DOMAIN Steps(role) /\ k \in 1 .. 36 /\ role \in Roles
      /\ todo \subseteq DOMAIN Steps(role)
  BY TakeOne DEF OrderInv
<1>2. /\ c'.no_new_privs = IF s = "no_new_privileges" \/ s \in Filters THEN TRUE ELSE c.no_new_privs
      /\ c'.own = IF s \in Placed THEN c.own \cup {s} ELSE c.own
      /\ c'.blocked = IF s \in Filters THEN c.blocked \cup Blocks(s) ELSE c.blocked
  BY EffectOnRest
<1>3. s = "no_new_privileges" <=> k = 31
  BY <1>1, PlacesOfSteps
<1>4. \A j \in todo' : Uses(Steps(role)[j]) \cap Blocks(s) = {}
  <2>1. \A j \in todo' : k < j /\ j \in DOMAIN Steps(role)
    <3> SUFFICES ASSUME NEW j \in todo' PROVE k < j /\ j \in DOMAIN Steps(role)
      OBVIOUS
    <3>1. j \in todo /\ j # k
      OBVIOUS
    <3>2. j \in DOMAIN Steps(role)
      BY <1>1, <3>1
    <3>3. j \in 1 .. 36
      BY <1>1, <3>2, PlaceOf
    <3>4. k <= j
      BY <3>1 DEF IsNext
    <3>5. k \in 1 .. 36
      BY <1>1
    <3>6. k < j
      <4> HIDE DEF s
      <4> QED BY ONLY <3>1, <3>3, <3>4, <3>5
    <3> QED BY <3>2, <3>6
  <2> QED BY <1>1, <2>1, FiltersComeLast
<1>5. \A j \in todo' : Uses(Steps(role)[j]) \cap c'.blocked = {}
  <2>1. \A j \in todo' : Uses(Steps(role)[j]) \cap c.blocked = {}
    BY DEF FilterInv
  <2>2. c'.blocked \subseteq c.blocked \cup Blocks(s)
    BY <1>2
  <2> QED BY <1>4, <2>1, <2>2
<1>6. Done(31)' => c'.no_new_privs
  <2>1. CASE k = 31
    BY <1>2, <1>3, <2>1
  <2>2. CASE k # 31
    BY <1>1, <1>2, <2>2 DEF FilterInv
  <2> QED BY <2>1, <2>2
<1>7. \A j \in DOMAIN Steps(role) :
         Done(j)' /\ Steps(role)[j] \in Placed => Steps(role)[j] \in c'.own
  <2>1. SUFFICES ASSUME NEW j \in DOMAIN Steps(role), Done(j)', Steps(role)[j] \in Placed
                 PROVE  Steps(role)[j] \in c'.own
    OBVIOUS
  <2>2. CASE j = k
    BY <1>2, <2>1, <2>2
  <2>3. CASE j # k
    <3>1. Done(j)
      BY <1>1, <2>1, <2>3
    <3>2. Steps(role)[j] \in c.own
      BY <2>1, <3>1 DEF FilterInv
    <3> QED BY <1>2, <3>2
  <2> QED BY <2>2, <2>3
<1> QED BY <1>5, <1>6, <1>7 DEF FilterInv

(* ------------------------------ refusals ------------------------------- *)

\* A step that is next is refused only in the four cases of NothingStarves.
LEMMA RefusedOnly ==
  ASSUME OrderInv, IdentityInv, CapsInv, FilterInv, NEW k \in todo, IsNext(k),
         Refuses(Steps(role)[k]) \/ MayRefuse(Steps(role)[k])
  PROVE  \/ "private_users" \in asked /\ NeedsHost
         \/ {"protect_proc", "ptraceable"} \subseteq asked
         \/ {"activation_fds", "low_nofile"} \subseteq asked
         \/ "activation_stdin" \in asked /\ "activation_fds" \notin asked
<1> DEFINE s == Steps(role)[k]
<1>1. \/ ~ Permits(s)
      \/ InvalidMode(s)
      \/ c.userns /\ (OfTheHost(s) \/ s \in Mounts \cup {"private_tmp"})
  BY DEF Refuses, MayRefuse, FilterInv
<1>2. k \in DOMAIN Steps(role) /\ role \in Roles /\ Wanted(s)
  BY DEF OrderInv
<1>3. k \in 1 .. 36 /\ At(k, s) /\ \A j : Done(j) => j < k /\ j \in 1 .. 36
  <2>1. \A j \in DOMAIN Steps(role) : j \in 1 .. 36
    BY <1>2, PlaceOf
  <2> QED BY <1>2, <2>1, PlaceOf DEF OrderInv, Done
<1>4. asked \subseteq Settings
  BY AskedSettings
<1>5. k <= 24 => c.effective = Caps /\ c.root
  <2>1. k <= 24 => ~ Done(24) /\ ~ Done(25)
    BY <1>3
  <2> QED BY <2>1 DEF CapsInv, IdentityInv, GivesUp
<1> HIDE DEF s
<1>6. c.userns => "private_users" \in asked
  <2>1. Steps(role)[4] = "private_users"
    BY <1>2, FixedPlaces DEF Places
  <2> QED BY <2>1 DEF IdentityInv, Done, Wanted
<1>7. OfTheHost(s) \/ s \in Mounts \cup {"private_tmp"} => NeedsHost
  <2>1. s \in Mounts => Isolates
    BY <1>2, <1>4 DEF Mounts, Wanted, Isolates, Settings
  <2>2. s \in {"nice", "oom_score_adjust"} => "raise" \in asked
    BY <1>2, <1>4 DEF Wanted, Settings
  <2>3. s = "identity" => ChangesIdentity
    BY <1>2, <1>4 DEF Wanted, Settings
  <2>4. s \in {"private_devices", "private_tmp"} => s \in asked
    BY <1>2 DEF Wanted
  <2> QED BY <2>1, <2>2, <2>3, <2>4 DEF OfTheHost, NeedsHost, ChangesIdentity, Mounts
<1>8. CASE c.userns /\ (OfTheHost(s) \/ s \in Mounts \cup {"private_tmp"})
  BY <1>6, <1>7, <1>8
<1>9. CASE InvalidMode(s)
  BY <1>9 DEF InvalidMode
<1>10. CASE ~ Permits(s)
  <2>1. s \in Namespaces \cup Mounts \cup {"identity", "drop_bounding_set", "nice", "oom_score_adjust"} => k <= 24
    BY <1>3 DEF At, Late, Namespaces, Mounts
  <2>2. s \notin Namespaces \cup Mounts \cup {"identity", "drop_bounding_set", "nice", "oom_score_adjust"}
    <3>1. {"sys_admin", "setuid", "setpcap", "sys_resource"} \subseteq Caps
      BY DEF Caps
    <3>2. CASE s \in Namespaces \cup Mounts
      BY <1>5, <1>10, <2>1, <3>1, <3>2 DEF Permits, Namespaces, Mounts
    <3>3. CASE s \in {"identity", "drop_bounding_set", "nice", "oom_score_adjust"}
      BY <1>5, <1>10, <2>1, <3>1, <3>3 DEF Permits, Namespaces, Mounts
    <3> QED BY <3>2, <3>3
  <2>3. CASE s = "bounding_set"
    <3>1. k = 25 /\ "bounding_set" \in asked
      BY <1>2, <1>3, <2>3 DEF At, Late, Wanted
    <3>2. 18 \in DOMAIN Steps(role) /\ Steps(role)[18] = "drop_bounding_set"
      BY <1>2, FixedPlaces DEF Places
    <3>3. Done(18)
      BY <1>3, <3>1, <3>2 DEF Done, Wanted, IsNext
    <3>4. c.bounding \subseteq Allowed
      BY <3>3 DEF CapsInv
    <3> QED BY <1>10, <2>3, <3>4 DEF Permits, Namespaces, Mounts
  <2>4. CASE s = "ambient"
    <3>1. "ambient" \in asked
      BY <1>2, <2>4 DEF Wanted
    <3> QED BY <1>10, <2>4, <3>1 DEF Permits, Namespaces, Mounts, CapsInv
  <2>5. CASE s = "activation_fds"
    <3>1. "activation_fds" \in asked
      BY <1>2, <2>5 DEF Wanted
    <3>2. Done(22)
      BY <1>10, <2>5 DEF Permits, Namespaces, Mounts, IdentityInv
    <3>3. Steps(role)[22] = "nofile"
      BY <1>2, FixedPlaces DEF Places
    <3>4. "low_nofile" \in asked
      BY <1>4, <3>2, <3>3 DEF Done, Wanted, Settings
    <3> QED BY <3>1, <3>4
  <2>6. CASE s = "activation_stdin"
    BY <1>2, <1>10, <2>6 DEF Permits, Namespaces, Mounts, Wanted
  <2>7. CASE s \notin {"bounding_set", "ambient", "activation_fds", "activation_stdin"}
    BY <1>10, <2>2, <2>7 DEF Permits
  <2> QED BY <2>3, <2>4, <2>5, <2>6, <2>7
<1> QED BY <1>1, <1>8, <1>9, <1>10

(* ------------------------------ paths ---------------------------------- *)

\* The components of the paths of the instance and of the fixed ones.
Names == STRING \cup {"tmp", "var"}

\* The fixed paths are sequences of names.
LEMMA OneName == <<"tmp">> \in Seq(Names) /\ <<"var">> \in Seq(Names) /\ <<>> \in Seq(Names)
<1>1. "tmp" \in Names /\ "var" \in Names
  BY DEF Names
<1> QED BY <1>1

\* So are the paths of the instance.
LEMMA PathsAreSequences == \A p \in Paths : p \in Seq(Names)
<1>1. STRING \subseteq Names
  BY DEF Names
<1>2. \A p \in Paths : p \in Seq(STRING)
  BY SetupAssumption
<1>3. ASSUME NEW S, NEW T, S \subseteq T, NEW p \in Seq(S) PROVE p \in Seq(T)
  BY <1>3
<1> QED BY <1>1, <1>2, <1>3

\* A path is a prefix of itself, the root of every path, and a prefix as long as the path
\* is the path.
LEMMA PrefixFacts ==
  ASSUME NEW S, NEW p \in Seq(S), NEW q \in Seq(S)
  PROVE  /\ IsPrefix(p, p) /\ IsPrefix(<<>>, p)
         /\ IsPrefix(q, p) => Len(q) <= Len(p)
         /\ IsPrefix(q, p) /\ Len(p) <= Len(q) => q = p
<1>1. SubSeq(p, 1, Len(p)) = p /\ SubSeq(q, 1, Len(q)) = q
  BY SubSeqFull
<1>2. Len(p) \in Nat /\ Len(q) \in Nat
  OBVIOUS
<1>3. IsPrefix(p, p)
  BY <1>1, <1>2 DEF IsPrefix
<1>4. IsPrefix(q, p) /\ Len(p) <= Len(q) => q = p
  BY <1>1, <1>2 DEF IsPrefix
<1>5. IsPrefix(<<>>, p)
  <2>1. SubSeq(p, 1, 0) = <<>>
    BY SubSeqEmpty
  <2>2. <<>> \in Seq(S) /\ Len(<<>>) = 0
    OBVIOUS
  <2>3. SubSeq(<<>>, 1, 0) = <<>>
    BY <2>2, SubSeqEmpty
  <2> QED BY <1>2, <2>1, <2>2, <2>3 DEF IsPrefix
<1> QED BY <1>2, <1>3, <1>4, <1>5 DEF IsPrefix

\* A path of one component has two prefixes.
LEMMA PrefixesOfOne ==
  ASSUME NEW S, NEW a \in S, NEW q \in Seq(S), IsPrefix(q, <<a>>)
  PROVE  q = <<>> \/ q = <<a>>
<1>1. <<a>> \in Seq(S) /\ Len(<<a>>) = 1
  OBVIOUS
<1>2. Len(q) \in Nat /\ Len(q) <= 1
  BY <1>1 DEF IsPrefix
<1>3. Len(q) = 0 => q = <<>>
  OBVIOUS
<1>4. Len(q) = 1 => q = <<a>>
  BY <1>1, PrefixFacts
<1> QED BY <1>2, <1>3, <1>4

\* A path that is a mount of its own is as it is mounted, unless it is in a
\* hidden directory.
LEMMA AccessOfMount ==
  ASSUME \A q \in DOMAIN c.mounts : q \in Seq(Names), NEW p \in DOMAIN c.mounts
  PROVE  Access(p) = IF Hidden(p) THEN "hidden" ELSE c.mounts[p]
<1> DEFINE P(q) == /\ q \in DOMAIN c.mounts /\ IsPrefix(q, p)
                   /\ \A r \in DOMAIN c.mounts : IsPrefix(r, p) => Len(r) <= Len(q)
           at == CHOOSE q \in DOMAIN c.mounts :
                    /\ IsPrefix(q, p)
                    /\ \A r \in DOMAIN c.mounts : IsPrefix(r, p) => Len(r) <= Len(q)
<1>1. P(p)
  BY PrefixFacts
<1>2. P(at)
  BY <1>1
<1>3. at = p
  BY <1>1, <1>2, PrefixFacts
<1>4. Access(p) = IF Hidden(p) THEN "hidden" ELSE c.mounts[at]
  BY DEF Access
<1> HIDE DEF at
<1> QED BY <1>3, <1>4

\* Any other path is as the innermost mount above it.
LEMMA AccessOfPath ==
  ASSUME \A q \in DOMAIN c.mounts : q \in Seq(Names), NEW p \in Seq(Names),
         NEW m \in DOMAIN c.mounts, IsPrefix(m, p),
         \A r \in DOMAIN c.mounts : IsPrefix(r, p) => Len(r) <= Len(m)
  PROVE  \E q \in DOMAIN c.mounts :
            /\ IsPrefix(q, p)
            /\ Access(p) = IF Hidden(p) THEN "hidden" ELSE c.mounts[q]
<1> DEFINE at == CHOOSE q \in DOMAIN c.mounts :
                    /\ IsPrefix(q, p)
                    /\ \A r \in DOMAIN c.mounts : IsPrefix(r, p) => Len(r) <= Len(q)
<1>1. at \in DOMAIN c.mounts /\ IsPrefix(at, p)
  OBVIOUS
<1> QED BY <1>1 DEF Access


(* ------------------------------ mounting ------------------------------- *)

\* The paths a step remounts, and how.
LEMMA PathsOfSteps ==
  ASSUME OrderInv, NEW s
  PROVE  /\ s = "apply_filesystem_protection" =>
               /\ PathsOf(s) = IF "protect_system" \in asked THEN {<<>>} ELSE {}
               /\ Mode(s) = "read-only"
         /\ s = "managed_paths" => PathsOf(s) \subseteq Listed("managed_paths") /\ Mode(s) = "writable"
         /\ s = "read_write_paths" => PathsOf(s) = Listed(s) /\ Mode(s) = "writable"
         /\ s = "tmp_writable" => PathsOf(s) = {<<"tmp">>} /\ Mode(s) = "writable"
         /\ s = "read_only_paths" => PathsOf(s) = Listed(s) /\ Mode(s) = "read-only"
         /\ s = "inaccessible_paths" => PathsOf(s) = Listed(s) /\ Mode(s) = "hidden"
<1>1. CASE s = "managed_paths"
  BY <1>1 DEF PathsOf, Mode, Listed
<1>2. CASE s # "managed_paths"
  BY <1>2 DEF PathsOf, Mode
<1> QED BY <1>1, <1>2


\* Take keeps MountInv: a remount changes its own paths, and nothing is hidden before the
\* last of them.
LEMMA TakeKeepsMounts ==
  ASSUME OrderInv, DOMAIN c = DOMAIN Root, MountInv,
         NEW k \in todo, IsNext(k), todo' = todo \ {k}, UNCHANGED <<role, asked, listed>>,
         c' = Effect(Steps(role)[k])
  PROVE  MountInv'
<1> DEFINE s == Steps(role)[k]
           m == c.mounts
           n == c'.mounts
<1>1. /\ \A j : Done(j)' <=> (Done(j) \/ j = k)
      /\ \A j : Done(j) => j < k /\ j \in 1 .. 36
      /\ k \in DOMAIN Steps(role) /\ k \in 1 .. 36 /\ role \in Roles
  BY TakeOne DEF OrderInv
<1>2. n = CASE s \in Mounts -> Mounted(PathsOf(s), Mode(s))
            [] s = "private_tmp" -> Mounted({<<"tmp">>}, "writable")
            [] OTHER -> m
  BY EffectOnRest
<1>3. /\ s = "private_tmp" <=> k = 9
      /\ s = "apply_filesystem_protection" <=> k = 10
      /\ s = "managed_paths" <=> k = 11
      /\ s = "read_write_paths" <=> k = 12
      /\ s = "tmp_writable" <=> k = 13
      /\ s = "read_only_paths" <=> k = 14
      /\ s = "inaccessible_paths" <=> k = 15
  BY <1>1, PlacesOfMounts
<1>4. (\A l : Listed(l)' = Listed(l)) /\ MountPoints' = MountPoints
  BY DEF Listed, MountPoints
<1>5. /\ s = "apply_filesystem_protection" =>
            /\ PathsOf(s) = IF "protect_system" \in asked THEN {<<>>} ELSE {}
            /\ Mode(s) = "read-only"
      /\ s = "managed_paths" => PathsOf(s) \subseteq Listed("managed_paths") /\ Mode(s) = "writable"
      /\ s = "read_write_paths" => PathsOf(s) = Listed(s) /\ Mode(s) = "writable"
      /\ s = "tmp_writable" => PathsOf(s) = {<<"tmp">>} /\ Mode(s) = "writable"
      /\ s = "read_only_paths" => PathsOf(s) = Listed(s) /\ Mode(s) = "read-only"
      /\ s = "inaccessible_paths" => PathsOf(s) = Listed(s) /\ Mode(s) = "hidden"
  BY PathsOfSteps
<1>6. <<>> \in MountPoints /\ <<"tmp">> \in MountPoints /\ \A l \in Lists : Listed(l) \subseteq MountPoints
  BY DEF MountPoints, Listed
<1>7. MountInv
  OBVIOUS
<1> HIDE DEF s
<1>8. CASE k \notin 9 .. 15
  <2>1. n = m
    BY <1>1, <1>2, <1>3, <1>8 DEF Mounts
  <2>2. \A j \in 10 .. 15 : Done(j)' <=> Done(j)
    BY <1>1, <1>8
  <2>3. /\ Done(10)' <=> Done(10)
        /\ Done(12)' <=> Done(12)
        /\ Done(14)' <=> Done(14)
        /\ Done(15)' <=> Done(15)
    BY <2>2
  <2> QED BY <1>4, <1>7, <2>1, <2>2, <2>3 DEF MountInv, Plain
<1>9. CASE k \in 9 .. 15
  <2> DEFINE ps == IF k = 9 THEN {<<"tmp">>} ELSE PathsOf(s)
             mode == IF k = 9 THEN "writable" ELSE Mode(s)
  <2>1. \A j \in 10 .. 15 : j >= k => ~ Done(j)
    BY <1>1
  <2>2. n = Mounted(ps, mode)
    BY <1>1, <1>2, <1>3, <1>9 DEF Mounts
  <2>3. ~ Done(15)
    BY <1>9, <2>1
  <2>4. \A q \in DOMAIN m : m[q] # "hidden"
    BY <2>3, <1>7 DEF MountInv
  <2> HIDE DEF ps, mode
  <2>5. DOMAIN n = DOMAIN m \cup ps /\ \A q \in DOMAIN n : n[q] = IF q \in ps THEN mode ELSE m[q]
    <3>1. {p \in ps : ~ Hidden(p)} = ps
      BY <2>4 DEF Hidden
    <3>2. n = [p \in DOMAIN m \cup ps |-> IF p \in ps THEN mode ELSE m[p]]
      BY <2>2, <3>1 DEF Mounted
    <3> HIDE DEF n
    <3> QED BY <3>2
  <2>6. ps \subseteq MountPoints
    BY <1>3, <1>5, <1>6, <1>9 DEF Lists, ps
  <2>7. <<>> \in DOMAIN n /\ DOMAIN n \subseteq MountPoints
    BY <1>7, <2>5, <2>6 DEF MountInv
  <2>8. /\ k = 9 => ps = {<<"tmp">>} /\ mode = "writable"
        /\ k = 10 => (ps = IF "protect_system" \in asked THEN {<<>>} ELSE {}) /\ mode = "read-only"
        /\ k = 11 => ps \subseteq Listed("managed_paths") /\ mode = "writable"
        /\ k = 12 => ps = Listed("read_write_paths") /\ mode = "writable"
        /\ k = 13 => ps = {<<"tmp">>} /\ mode = "writable"
        /\ k = 14 => ps = Listed("read_only_paths") /\ mode = "read-only"
        /\ k = 15 => ps = Listed("inaccessible_paths") /\ mode = "hidden"
    BY <1>3, <1>5 DEF ps, mode
  <2>9. (\A j \in 10 .. 15 : ~ Done(j)') => Plain'
    <3>1. SUFFICES ASSUME \A j \in 10 .. 15 : ~ Done(j)' PROVE Plain'
      OBVIOUS
    <3>2. k = 9 /\ \A j \in 10 .. 15 : ~ Done(j)
      BY <1>1, <1>9, <3>1
    <3>3. Plain
      BY <1>7, <3>2 DEF MountInv
    <3> QED BY <2>5, <2>8, <3>2, <3>3 DEF Plain
  <2>10. ~ Done(15)' => \A q \in DOMAIN n : n[q] # "hidden"
    <3>1. ~ Done(15)' => k # 15
      BY <1>1
    <3>2. k # 15 => mode # "hidden"
      BY <1>9, <2>8
    <3> QED BY <2>4, <2>5, <3>1, <3>2
  <2>11. Done(10)' /\ "protect_system" \in asked => \A q \in DOMAIN n :
            n[q] = "writable" =>
               q = <<"tmp">> \/ q \in Listed("managed_paths") \cup Listed("read_write_paths")
    <3>1. CASE k = 9
      BY <1>1, <2>1, <3>1
    <3>2. CASE k = 10
      <4>1. Plain
        BY <1>7, <2>1, <3>2 DEF MountInv
      <4> QED BY <2>5, <2>8, <3>2, <4>1 DEF Plain
    <3>3. CASE k > 10
      <4>1. Done(10)' => Done(10)
        BY <1>1, <3>3
      <4>2. Done(10) /\ "protect_system" \in asked => \A q \in DOMAIN m :
               m[q] = "writable" =>
                  q = <<"tmp">> \/ q \in Listed("managed_paths") \cup Listed("read_write_paths")
        BY <1>7 DEF MountInv
      <4>3. mode = "writable" => \A q \in ps :
               q = <<"tmp">> \/ q \in Listed("managed_paths") \cup Listed("read_write_paths")
        BY <1>9, <2>8, <3>3
      <4> QED BY <2>5, <4>1, <4>2, <4>3
    <3> QED BY <1>9, <3>1, <3>2, <3>3
  <2>12. Done(12)' => \A p \in Listed("read_write_paths") :
            p \in DOMAIN n /\ (p \notin Listed("read_only_paths") => n[p] \in {"writable", "hidden"})
    <3>1. CASE k < 12
      BY <1>1, <2>1, <3>1
    <3>2. CASE k = 12
      BY <2>5, <2>8, <3>2
    <3>3. CASE k > 12
      <4>1. Done(12)' => Done(12)
        BY <1>1, <3>3
      <4>2. Done(12) => \A p \in Listed("read_write_paths") :
               p \in DOMAIN m /\ (p \notin Listed("read_only_paths") => m[p] \in {"writable", "hidden"})
        BY <1>7 DEF MountInv
      <4>3. mode \in {"writable", "hidden"} \/ ps = Listed("read_only_paths")
        BY <1>9, <2>8, <3>3
      <4> QED BY <2>5, <4>1, <4>2, <4>3
    <3> QED BY <1>9, <3>1, <3>2, <3>3
  <2>13. Done(14)' => \A p \in Listed("read_only_paths") :
            p \in DOMAIN n /\ n[p] \in {"read-only", "hidden"}
    <3>1. CASE k < 14
      BY <1>1, <2>1, <3>1
    <3>2. CASE k = 14
      BY <2>5, <2>8, <3>2
    <3>3. CASE k = 15
      <4>1. Done(14)' => Done(14)
        BY <1>1, <3>3
      <4>2. Done(14) => \A p \in Listed("read_only_paths") :
               p \in DOMAIN m /\ m[p] \in {"read-only", "hidden"}
        BY <1>7 DEF MountInv
      <4> QED BY <2>5, <2>8, <3>3, <4>1, <4>2
    <3> QED BY <1>9, <3>1, <3>2, <3>3
  <2>14. Done(15)' => \A p \in Listed("inaccessible_paths") : p \in DOMAIN n /\ n[p] = "hidden"
    <3>1. Done(15)' => k = 15
      BY <1>1, <2>3
    <3> QED BY <2>5, <2>8, <3>1
  <2> QED BY <1>4, <2>7, <2>9, <2>10, <2>11, <2>12, <2>13, <2>14 DEF MountInv
<1> QED BY <1>8, <1>9

(* ------------------------------ exec ----------------------------------- *)

\* What executes has what was asked for, in its capabilities and filters.
LEMMA ExecInForce ==
  ASSUME OrderInv, DOMAIN c = DOMAIN Root, IdentityInv, CapsInv, FilterInv, MountInv, Exec
  PROVE  TypeOK' /\ InForce' /\ DOMAIN c' = DOMAIN Root
<1> DEFINE caps == IF c.root /\ ~ c.userns THEN c.bounding ELSE c.ambient
<1>1. /\ DOMAIN c' = DOMAIN Root
      /\ c'.permitted = caps /\ c'.effective = caps
      /\ c'.root = c.root /\ c'.bounding = c.bounding /\ c'.ambient = c.ambient
      /\ c'.no_new_privs = c.no_new_privs /\ c'.pdeath = c.pdeath /\ c'.group = c.group
      /\ c'.own = c.own /\ c'.mounts = c.mounts /\ c'.userns = c.userns
      /\ status' = "executed" /\ UNCHANGED <<role, asked, listed, todo>>
  BY DEF Exec, Root
<1>2. role \in Roles /\ todo = {}
  BY DEF OrderInv, Exec
<1>3. 1 .. 31 \subseteq DOMAIN Steps(role) /\ Places(Steps(role))
  BY <1>2, FixedPlaces
<1>4. \A k \in DOMAIN Steps(role) : Done(k) <=> Wanted(Steps(role)[k])
  BY <1>2 DEF Done
<1>5. asked \subseteq Settings /\ "identity" \notin asked
  BY AskedSettings
<1>6. Done(1) /\ Done(2)
  <2>1. Steps(role)[1] = "parent_death_signal" /\ Steps(role)[2] = "process_group"
    BY <1>3 DEF Places
  <2> QED BY <1>3, <1>4, <2>1 DEF Wanted
<1>7. Done(24) <=> ChangesIdentity
  <2>1. Steps(role)[24] = "identity"
    BY <1>3 DEF Places
  <2> QED BY <1>3, <1>4, <1>5, <2>1 DEF Wanted
<1>8. /\ "bounding_set" \in asked => Done(25)
      /\ "private_users" \in asked => Done(4)
      /\ "ambient" \in asked <=> Done(26)
      /\ "no_new_privileges" \in asked => Done(31)
  <2>1. /\ Steps(role)[25] = "bounding_set" /\ Steps(role)[26] = "ambient"
        /\ Steps(role)[31] = "no_new_privileges" /\ Steps(role)[4] = "private_users"
    BY <1>3 DEF Places
  <2> QED BY <1>3, <1>4, <2>1 DEF Wanted
<1>9. GivesUp <=> "user" \in asked
  BY <1>7 DEF GivesUp, ChangesIdentity
<1>10. (c.root <=> "user" \notin asked) /\ c.group /\ (c.pdeath <=> ~ ChangesIdentity)
  BY <1>6, <1>7, <1>9 DEF IdentityInv
<1>11. Allowed \subseteq c.bounding /\ c.bounding \subseteq Caps /\ (c.ambient = IF Done(26) THEN Allowed ELSE {})
  BY DEF CapsInv
<1>12. "bounding_set" \in asked => c.bounding \subseteq Allowed
  BY <1>8 DEF CapsInv
<1>13. c.ambient \subseteq Allowed /\ ("ambient" \in asked => c.ambient = Allowed)
  BY <1>8, <1>11
<1>14. ("no_new_privileges" \in asked => c.no_new_privs)
  BY <1>8 DEF FilterInv
<1>15. \A step \in Filters \cup Limits \cup Namespaces : Wanted(step) => step \in c.own
  <2>1. \A step \in Filters \cup Limits \cup Namespaces : \E k \in DOMAIN Steps(role) : Steps(role)[k] = step
    BY <1>2, OrderOf DEF Placed
  <2> QED BY <1>4, <2>1 DEF FilterInv, Placed
<1>16. (ChangesIdentity' <=> ChangesIdentity) /\ (\A step : Wanted(step)' <=> Wanted(step)) /\ asked' = asked
  BY <1>1 DEF Wanted, Isolates, ChangesIdentity
<1>17. caps \subseteq Caps /\ c.ambient \subseteq caps /\ ("bounding_set" \in asked => caps \subseteq Allowed)
       /\ ("user" \in asked => caps = c.ambient)
  BY <1>10, <1>11, <1>12, <1>13
<1> HIDE DEF caps
<1>18. TypeOK'
  <2>1. <<>> \in DOMAIN c'.mounts
    BY <1>1 DEF MountInv
  <2> QED BY <1>1, <1>5, <1>17, <2>1 DEF TypeOK
<1>19. InForce'
  <2>1. /\ c'.root <=> "user" \notin asked'
        /\ "user" \in asked' => c'.permitted = c'.ambient
        /\ "ambient" \in asked' => c'.ambient = Allowed
        /\ "no_new_privileges" \in asked' => c'.no_new_privs
    BY <1>1, <1>10, <1>13, <1>14, <1>16, <1>17
  <2>2. "bounding_set" \in asked' => c'.bounding \cup c'.permitted \subseteq Allowed
    BY <1>1, <1>12, <1>16, <1>17
  <2>3. c'.group /\ (c'.pdeath <=> ~ ChangesIdentity')
    BY <1>1, <1>10, <1>16
  <2>4. \A step \in Filters \cup Limits \cup Namespaces : Wanted(step)' => step \in c'.own
    BY <1>1, <1>15, <1>16
  <2>5. "private_users" \in asked' => c'.userns
    BY <1>1, <1>8, <1>16 DEF IdentityInv
  <2> QED BY <2>1, <2>2, <2>3, <2>4, <2>5 DEF InForce
<1> QED BY <1>1, <1>18, <1>19

\* Paths are as they are listed once all steps are done.
LEMMA DonePaths ==
  ASSUME OrderInv, MountInv, todo = {}
  PROVE  /\ \A p \in Listed("inaccessible_paths") : Access(p) = "hidden"
         /\ \A p \in Listed("read_only_paths") : Access(p) \in {"read-only", "hidden"}
         /\ \A p \in Listed("read_write_paths") :
               p \notin Listed("read_only_paths") => Access(p) \in {"writable", "hidden"}
         /\ ("protect_system" \in asked /\ Access(<<"var">>) = "writable") =>
               \E l \in {"managed_paths", "read_write_paths"} :
                   \E p \in Listed(l) : IsPrefix(p, <<"var">>)
<1> DEFINE m == c.mounts
<1>1. role \in Roles /\ 1 .. 31 \subseteq DOMAIN Steps(role) /\ Places(Steps(role))
  BY FixedPlaces DEF OrderInv
<1>2. \A k \in DOMAIN Steps(role) : Done(k) <=> Wanted(Steps(role)[k])
  BY DEF Done
<1>3. MountPoints \subseteq Seq(Names)
  <2>1. \A l \in Lists \cap asked : listed[l] \in Paths
    BY DEF OrderInv
  <2> QED BY <2>1, OneName, PathsAreSequences DEF MountPoints
<1>4. \A q \in DOMAIN m : q \in Seq(Names)
  BY <1>3 DEF MountInv
<1>5. \A p \in DOMAIN m : Access(p) = IF Hidden(p) THEN "hidden" ELSE m[p]
  BY <1>4, AccessOfMount
<1>6. \A l \in Lists : \A p \in Listed(l) : l \in asked /\ p \in Seq(Names)
  BY <1>3 DEF Listed, MountPoints
<1>7. /\ "inaccessible_paths" \in asked => Done(15)
      /\ "read_only_paths" \in asked => Done(14)
      /\ "read_write_paths" \in asked /\ Isolates => Done(12)
      /\ Isolates => Done(10)
  <2>1. /\ Steps(role)[15] = "inaccessible_paths" /\ Steps(role)[14] = "read_only_paths"
        /\ Steps(role)[12] = "read_write_paths" /\ Steps(role)[10] = "apply_filesystem_protection"
    BY <1>1 DEF Places
  <2> QED BY <1>1, <1>2, <2>1 DEF Wanted
<1>8. \A p \in Listed("inaccessible_paths") : Access(p) = "hidden"
  <2>1. \A p \in Listed("inaccessible_paths") : p \in DOMAIN m /\ m[p] = "hidden"
    BY <1>6, <1>7 DEF MountInv, Lists
  <2> QED BY <1>5, <2>1
<1>9. \A p \in Listed("read_only_paths") : Access(p) \in {"read-only", "hidden"}
  <2>1. \A p \in Listed("read_only_paths") : p \in DOMAIN m /\ m[p] \in {"read-only", "hidden"}
    BY <1>6, <1>7 DEF MountInv, Lists
  <2> QED BY <1>5, <2>1
<1>10. \A p \in Listed("read_write_paths") :
          p \notin Listed("read_only_paths") => Access(p) \in {"writable", "hidden"}
  <2>1. SUFFICES ASSUME NEW p \in Listed("read_write_paths"), p \notin Listed("read_only_paths")
                 PROVE  Access(p) \in {"writable", "hidden"}
    OBVIOUS
  <2>2. "read_write_paths" \in asked /\ p \in Seq(Names)
    BY <1>6 DEF Lists
  <2>3. CASE Isolates
    <3>1. p \in DOMAIN m /\ m[p] \in {"writable", "hidden"}
      BY <1>7, <2>1, <2>2, <2>3 DEF MountInv
    <3> QED BY <1>5, <3>1
  <2>4. CASE ~ Isolates
    <3>1. \A k \in 10 .. 15 : ~ Done(k)
      <4>1. /\ Steps(role)[15] = "inaccessible_paths" /\ Steps(role)[14] = "read_only_paths"
            /\ Steps(role)[13] = "tmp_writable"
            /\ Steps(role)[12] = "read_write_paths" /\ Steps(role)[10] = "apply_filesystem_protection"
            /\ Steps(role)[11] = "managed_paths"
        BY <1>1 DEF Places
      <4>2. asked \subseteq Settings
        BY AskedSettings
      <4>3. /\ ~ Wanted("inaccessible_paths") /\ ~ Wanted("read_only_paths") /\ ~ Wanted("tmp_writable")
            /\ ~ Wanted("read_write_paths") /\ ~ Wanted("apply_filesystem_protection") /\ ~ Wanted("managed_paths")
        BY <2>4, <4>2 DEF Wanted, Isolates, Settings
      <4>4. ~ Done(10) /\ ~ Done(11) /\ ~ Done(12) /\ ~ Done(13) /\ ~ Done(14) /\ ~ Done(15)
        BY <4>1, <4>3 DEF Done
      <4> QED BY <4>4
    <3>2. \A q \in DOMAIN m : q \in {<<>>, <<"tmp">>} /\ m[q] = "writable"
      BY <3>1 DEF MountInv, Plain
    <3>3. <<>> \in DOMAIN m /\ IsPrefix(<<>>, p) /\ Len(<<>>) = 0 /\ Len(<<"tmp">>) = 1
      BY <2>2, PrefixFacts DEF MountInv
    <3>4. \E q \in DOMAIN m : IsPrefix(q, p) /\ \A r \in DOMAIN m : IsPrefix(r, p) => Len(r) <= Len(q)
      <4>1. CASE <<"tmp">> \in DOMAIN m /\ IsPrefix(<<"tmp">>, p)
        BY <3>2, <3>3, <4>1
      <4>2. CASE ~ (<<"tmp">> \in DOMAIN m /\ IsPrefix(<<"tmp">>, p))
        BY <3>2, <3>3, <4>2
      <4> QED BY <4>1, <4>2
    <3>5. \E q \in DOMAIN m : IsPrefix(q, p) /\ Access(p) = IF Hidden(p) THEN "hidden" ELSE m[q]
      BY <1>4, <2>2, <3>4, AccessOfPath
    <3> QED BY <3>2, <3>5
  <2> QED BY <2>3, <2>4
<1>11. ASSUME "protect_system" \in asked, Access(<<"var">>) = "writable"
       PROVE  \E l \in {"managed_paths", "read_write_paths"} : \E p \in Listed(l) : IsPrefix(p, <<"var">>)
  <2>1. "var" \in Names /\ <<"var">> \in Seq(Names) /\ <<"tmp">> # <<"var">> /\ <<"tmp">> # <<>>
    BY OneName DEF Names
  <2>2. \A q \in DOMAIN m : IsPrefix(q, <<"var">>) => q = <<>> \/ q = <<"var">>
    BY <1>4, <2>1, PrefixesOfOne
  <2>3. <<>> \in DOMAIN m /\ IsPrefix(<<>>, <<"var">>) /\ IsPrefix(<<"var">>, <<"var">>)
        /\ Len(<<>>) = 0 /\ Len(<<"var">>) = 1
    BY <2>1, PrefixFacts DEF MountInv
  <2>4. \E q \in DOMAIN m : IsPrefix(q, <<"var">>) /\ \A r \in DOMAIN m : IsPrefix(r, <<"var">>) => Len(r) <= Len(q)
    <3>1. CASE <<"var">> \in DOMAIN m
      BY <2>2, <2>3, <3>1
    <3>2. CASE <<"var">> \notin DOMAIN m
      BY <2>2, <2>3, <3>2
    <3> QED BY <3>1, <3>2
  <2>5. PICK q \in DOMAIN m : IsPrefix(q, <<"var">>) /\ Access(<<"var">>) = IF Hidden(<<"var">>) THEN "hidden" ELSE m[q]
    BY <1>4, <2>1, <2>4, AccessOfPath
  <2>6. m[q] = "writable"
    BY <1>11, <2>5
  <2>7. q # <<"tmp">>
    BY <2>1, <2>2, <2>5
  <2>8. q \in Listed("managed_paths") \cup Listed("read_write_paths")
    BY <1>7, <1>11, <2>6, <2>7 DEF MountInv, Isolates
  <2> QED BY <2>5, <2>8
<1> QED BY <1>8, <1>9, <1>10, <1>11

\* Exec leaves the mounts alone.
LEMMA ExecPaths ==
  ASSUME OrderInv, DOMAIN c = DOMAIN Root, MountInv, Exec
  PROVE  PathsAsListed'
<1>1. c'.mounts = c.mounts /\ UNCHANGED <<asked, listed>> /\ todo = {}
  BY DEF Exec, Root
<1>2. (\A l : Listed(l)' = Listed(l)) /\ (\A p : Access(p)' = Access(p)) /\ asked' = asked
  BY <1>1 DEF Listed, Access, Hidden
<1> QED BY <1>1, <1>2, DonePaths DEF PathsAsListed

(* ------------------------------ the theorems --------------------------- *)

\* SetupIInv holds after fork.
LEMMA SetupInit == Init => SetupIInv
<1> SUFFICES ASSUME Init PROVE SetupIInv
  OBVIOUS
<1>1. \A k : ~ Done(k)
  BY DEF Init, Done
<1>2. OrderInv /\ ~ GivesUp
  BY <1>1 DEF Init, OrderInv, GivesUp
<1>3. DOMAIN c = DOMAIN Root /\ status = "setting up" /\ c = Root
  BY DEF Init
<1>4. /\ c.root /\ ~ c.keep /\ ~ c.userns /\ ~ c.low /\ c.blocked = {} /\ c.ambient = {}
      /\ c.permitted = Caps /\ c.effective = Caps /\ c.bounding = Caps
      /\ DOMAIN c.mounts = {<<>>} /\ c.mounts[<<>>] = "writable"
  BY <1>3 DEF Root
<1>5. Allowed \subseteq Caps
  BY DEF Allowed, Caps
<1>6. IdentityInv
  BY <1>1, <1>2, <1>4 DEF IdentityInv
<1>7. CapsInv
  BY <1>1, <1>2, <1>4, <1>5 DEF CapsInv
<1>8. FilterInv
  BY <1>1, <1>4 DEF FilterInv
<1>9. MountInv
  BY <1>1, <1>4 DEF MountInv, Plain, MountPoints
<1>10. TypeOK
  BY <1>2, <1>3, <1>4, AskedSettings DEF TypeOK
<1> QED BY <1>2, <1>3, <1>6, <1>7, <1>8, <1>9, <1>10
        DEF SetupIInv, NothingStarves, Confined, InForce, PathsAsListed

\* The process has not reached exec.
Unexecuted == status \in {"setting up", "refused"}

\* Before exec the type invariant follows from the inductive invariant.
LEMMA TypeBeforeExec ==
  OrderInv /\ CapsInv /\ MountInv /\ Unexecuted => TypeOK
<1> SUFFICES ASSUME OrderInv, CapsInv, MountInv, Unexecuted
             PROVE  TypeOK
  OBVIOUS
<1>1. asked \subseteq Settings
  BY AskedSettings
<1>2. c.ambient \subseteq c.permitted
  <2>1. Steps(role)[26] = "ambient"
    BY FixedPlaces DEF OrderInv, Places
  <2>2. Done(26) => "ambient" \in asked
    BY <2>1 DEF Done, Wanted
  <2> QED BY <2>2 DEF CapsInv
<1> QED BY <1>1, <1>2 DEF TypeOK, CapsInv, MountInv, Unexecuted

\* The invariants before exec are about the settings, the steps to do and the
\* state of the process, and not about the status.
LEMMA SetupUntouched ==
  ASSUME UNCHANGED <<role, asked, listed, todo, c>>
  PROVE  /\ OrderInv => OrderInv'
         /\ IdentityInv /\ CapsInv /\ FilterInv /\ MountInv =>
               IdentityInv' /\ CapsInv' /\ FilterInv' /\ MountInv'
<1>1. OrderInv => OrderInv'
  BY DEF OrderInv, Done, Wanted, Isolates, ChangesIdentity
<1>2. IdentityInv => IdentityInv'
  BY DEF IdentityInv, GivesUp, Plain, Done, Wanted, Isolates, ChangesIdentity
<1>3. CapsInv => CapsInv'
  BY DEF CapsInv, GivesUp, Plain, Done, Wanted, Isolates, ChangesIdentity
<1>4. FilterInv => FilterInv'
  BY DEF FilterInv, GivesUp, Plain, Done, Wanted, Isolates, ChangesIdentity
<1>5. MountInv => MountInv'
  <2>1. \A k \in Nat : Done(k)' <=> Done(k)
    BY DEF Done, Wanted, Isolates, ChangesIdentity
  <2>2. \A list \in Lists : Listed(list)' = Listed(list)
    BY DEF Listed
  <2>3. MountPoints' = MountPoints /\ (Plain' <=> Plain)
    BY DEF MountPoints, Plain
  <2>4. {"managed_paths", "read_write_paths", "read_only_paths", "inaccessible_paths"} \subseteq Lists
    BY DEF Lists
  <2> QED BY <2>1, <2>2, <2>3, <2>4 DEF MountInv
<1> QED BY <1>1, <1>2, <1>3, <1>4, <1>5

\* Every step keeps SetupIInv.
LEMMA SetupNext == SetupIInv /\ [Next]_vars => SetupIInv'
<1> SUFFICES ASSUME SetupIInv, [Next]_vars PROVE SetupIInv'
  OBVIOUS
<1>1. ASSUME Take PROVE SetupIInv'
  <2>1. OrderInv /\ DOMAIN c = DOMAIN Root /\ IdentityInv /\ CapsInv /\ FilterInv /\ MountInv
    BY <1>1 DEF Take, SetupIInv
  <2>2. status' = "setting up" /\ UNCHANGED <<role, asked, listed>>
    BY <1>1 DEF Take
  <2>3. PICK k \in todo : /\ IsNext(k) /\ ~ Refuses(Steps(role)[k])
                          /\ c' = Effect(Steps(role)[k]) /\ todo' = todo \ {k}
    BY <1>1 DEF Take
  <2>4. OrderInv'
    BY <2>1, <2>2, <2>3, TakeOne
  <2>5. DOMAIN c' = DOMAIN Root
    BY <2>1, <2>3, EffectOnIdentity
  <2>6. IdentityInv' /\ CapsInv' /\ FilterInv' /\ MountInv'
    BY <2>1, <2>2, <2>3, TakeKeepsIdentity, TakeKeepsCaps, TakeKeepsFilters, TakeKeepsMounts
  <2>7. TypeOK'
    <3>1. Unexecuted'
      BY <2>2 DEF Unexecuted
    <3> QED BY <2>4, <2>6, <3>1, TypeBeforeExec, PTL
  <2> QED BY <2>2, <2>4, <2>5, <2>6, <2>7 DEF SetupIInv, NothingStarves, Confined, InForce, PathsAsListed
<1>2. ASSUME Refuse PROVE SetupIInv'
  <2>1. OrderInv /\ DOMAIN c = DOMAIN Root /\ IdentityInv /\ CapsInv /\ FilterInv /\ MountInv
    BY <1>2 DEF Refuse, SetupIInv
  <2>2. status' = "refused" /\ UNCHANGED <<role, asked, listed, todo, c>>
    BY <1>2 DEF Refuse
  <2>3. PICK k \in todo : IsNext(k) /\ (Refuses(Steps(role)[k]) \/ MayRefuse(Steps(role)[k]))
    BY <1>2 DEF Refuse
  <2>4. NothingStarves'
    BY <2>1, <2>2, <2>3, RefusedOnly DEF NothingStarves, NeedsHost, Isolates
  <2>6. OrderInv' /\ IdentityInv' /\ CapsInv' /\ FilterInv' /\ MountInv'
    BY <2>1, <2>2, SetupUntouched
  <2>7. TypeOK'
    <3>1. Unexecuted'
      BY <2>2 DEF Unexecuted
    <3> QED BY <2>6, <3>1, TypeBeforeExec, PTL
  <2> QED BY <2>1, <2>2, <2>4, <2>6, <2>7 DEF SetupIInv, Confined, InForce, PathsAsListed
<1>3. ASSUME Exec PROVE SetupIInv'
  <2>1. OrderInv /\ DOMAIN c = DOMAIN Root /\ IdentityInv /\ CapsInv /\ FilterInv /\ MountInv
    BY <1>3 DEF Exec, SetupIInv
  <2>2. status' = "executed" /\ UNCHANGED <<role, asked, listed, todo>>
    BY <1>3 DEF Exec
  <2>3. OrderInv'
    BY <2>1, <2>2 DEF OrderInv, Done, Wanted, Isolates, ChangesIdentity
  <2>4. TypeOK' /\ InForce' /\ DOMAIN c' = DOMAIN Root
    BY <1>3, <2>1, ExecInForce
  <2>5. PathsAsListed'
    BY <1>3, <2>1, ExecPaths
  <2> QED BY <2>2, <2>3, <2>4, <2>5 DEF SetupIInv, Confined, NothingStarves
<1>4. ASSUME UNCHANGED vars PROVE SetupIInv'
  <2>1. UNCHANGED <<role, asked, listed, todo, c, status>>
    BY <1>4 DEF vars
  <2>2. OrderInv => OrderInv'
    BY <2>1, SetupUntouched
  <2>3. (IdentityInv /\ CapsInv /\ FilterInv /\ MountInv) => (IdentityInv' /\ CapsInv' /\ FilterInv' /\ MountInv')
    BY <2>1, SetupUntouched
  <2>4. (NothingStarves' <=> NothingStarves) /\ (Confined' <=> Confined)
    BY <2>1 DEF NothingStarves, NeedsHost, Confined, TypeOK, InForce, PathsAsListed, Access, Hidden,
                Listed, Wanted, Isolates, ChangesIdentity
  <2> QED BY <2>1, <2>2, <2>3, <2>4 DEF SetupIInv
<1> QED BY <1>1, <1>2, <1>3, <1>4 DEF Next

\* SetupIInv is an invariant of the set-up.
THEOREM SetupInductive == Spec => []SetupIInv
BY SetupInit, SetupNext, PTL DEF Spec

\* Whatever combination of settings a descriptor has, and whichever of the
\* four functions sets it up, no step is refused because of an earlier one,
\* but for the four combinations that NothingStarves names.
THEOREM SetupNeverStarves == Spec => []NothingStarves
BY SetupInductive, PTL DEF SetupIInv

\* Whatever executes is confined as its descriptor says, for every combination
\* of settings and every choice of paths.
THEOREM ProcessesAreConfined == Spec => []Confined
BY SetupInductive, PTL DEF SetupIInv
=============================================================================
