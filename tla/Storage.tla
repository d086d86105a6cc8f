------------------------------- MODULE Storage -------------------------------
(* The storage services: crates/fractald-storage/src/lib.rs turns fstab    *)
(* into descriptors, crates/fractald/src/main.rs replaces the generated    *)
(* directory at every load and adds the device services, and               *)
(* "fractald storage-prepare" brings up the volumes and the encrypted      *)
(* mappings the mounts wait for.                                           *)
(*                                                                         *)
(* A path is the sequence of its components, "/" is << >>.  An fstab line  *)
(* is [what, target, fs, noauto, nofail, network, requires, wants, after,  *)
(* before]: what is a path, fs is "swap" or not, the last four are the     *)
(* names of the x-fractald options.  A service name is <<kind, path>>.     *)
EXTENDS Integers, Sequences, SequencesExt, FiniteSetsExt, TLC

CONSTANTS Fstabs,       \* the contents fstab may have; << >> may also be absent
          Crypttab,     \* sequence of [name, source, tag, key, noauto, nofail]
          Volumes,      \* volume -> [tool, on]: what brings it up, what it is on
          Disks,        \* the devices that may be there
          MaxLoads      \* bound on the loads and on storage-prepare runs

ASSUME StorageAssumption ==
    /\ MaxLoads \in Nat /\ Fstabs # {}
    /\ \A lines \in Fstabs : \A k \in DOMAIN lines : lines[k].target \in Seq(STRING)
    /\ Len(Crypttab) \in Nat /\ DOMAIN Crypttab = 1 .. Len(Crypttab)
    /\ \A v \in DOMAIN Volumes : Volumes[v].tool \in {"btrfs", "mdadm", "pvscan", "vgchange"}

VARIABLES fstab,      \* [there, lines, ok]: whether it exists and parses
          directory,  \* the generated descriptors: name -> service
          gen,        \* the load: [pc, read, units]
          table,      \* the services of the last load, with their devices
          present,    \* the block devices that exist
          prep,       \* storage-prepare: [pc, at, clean]
          loads

storageVars == <<fstab, directory, gen, table, present, prep, loads>>

Prepare == <<"storage-prepare", << >>>>
Profile == <<"storage", << >>>>
NetworkOnline == <<"network-online", << >>>>
NoFstab == [there |-> FALSE, lines |-> << >>, ok |-> TRUE]
NoLoad == [pc |-> "idle", read |-> NoFstab, units |-> {}]
NoPrep == [pc |-> "idle", at |-> 1, clean |-> TRUE]

(* ------------------------------ descriptors ---------------------------- *)

Normal(path) == SelectSeq(path, LAMBDA c : c # "..")
mount_service_name(path) == <<"mount", Normal(path)>>
swap_service_name(e) == <<"swap", e.what>>
device_service_name(path) ==
    IF path # << >> /\ path[1] = "dev" THEN {<<"device", path>>} ELSE {}

\* The directories above a target, as its normal components spell them.
parent_targets(target) ==
    {SubSeq(Normal(target), 1, k) : k \in 1 .. Len(Normal(target))} \ {target}

DeviceOf(e) == IF e.nofail THEN {} ELSE device_service_name(e.what)

mount_service(e, active) ==
    LET parents == {mount_service_name(t) : t \in parent_targets(e.target) \cap active}
        net == IF e.network THEN {NetworkOnline} ELSE {}
    IN  [what     |-> e.what,
         requires |-> DeviceOf(e) \cup (IF e.nofail THEN {} ELSE parents) \cup e.requires,
         wants    |-> {Prepare} \cup net \cup (IF e.nofail THEN parents ELSE {}) \cup e.wants,
         after    |-> {Prepare} \cup net \cup DeviceOf(e) \cup parents \cup e.after,
         before   |-> e.before]

\* The before= option of a swap is passed over.
swap_service(e) ==
    [what |-> e.what, requires |-> DeviceOf(e) \cup e.requires, wants |-> {Prepare} \cup e.wants,
     after |-> {Prepare} \cup DeviceOf(e) \cup e.after, before |-> {}]

Plain(wants) ==
    [what |-> << >>, requires |-> {}, wants |-> wants, after |-> wants, before |-> {}]

Mounts(lines) ==
    {k \in DOMAIN lines : ~lines[k].noauto /\ lines[k].fs # "swap" /\ lines[k].target # << >>}
Swaps(lines) == {k \in DOMAIN lines : ~lines[k].noauto /\ lines[k].fs = "swap"}

\* Two active lines with one target are refused.
DuplicateTarget(lines) ==
    \E j, k \in Mounts(lines) : j # k /\ lines[j].target = lines[k].target

\* The units: prepare, the mounts by depth, the swaps, and the group that
\* wants and follows them all.  The key says which is written before which.
generate_services(lines) ==
    LET active == {lines[k].target : k \in Mounts(lines)}
        mounts == {[name |-> mount_service_name(lines[k].target),
                    unit |-> mount_service(lines[k], active),
                    key  |-> <<1, Len(lines[k].target), k>>] : k \in Mounts(lines)}
        swaps == {[name |-> swap_service_name(lines[k]), unit |-> swap_service(lines[k]),
                   key |-> <<2, 0, k>>] : k \in Swaps(lines)}
        all == {[name |-> Prepare, unit |-> Plain({}), key |-> <<0, 0, 0>>]} \cup mounts \cup swaps
    IN  IF Mounts(lines) \cup Swaps(lines) = {} THEN {}
        ELSE all \cup {[name |-> Profile, unit |-> Plain({u.name : u \in all}), key |-> <<3, 0, 0>>]}

Earlier(a, b) ==
    \/ a[1] < b[1]
    \/ a[1] = b[1] /\ (a[2] < b[2] \/ (a[2] = b[2] /\ a[3] < b[3]))
FirstOf(units) == {u \in units : \A w \in units \ {u} : Earlier(u.key, w.key)}

(* -------------------------------- loading ------------------------------ *)

StorageInit ==
    /\ fstab = NoFstab /\ directory = << >> /\ gen = NoLoad /\ table = << >>
    /\ present \in SUBSET Disks /\ prep = NoPrep /\ loads = 0

\* Without fstab the directory is left as it is; with a bad one the load
\* fails before it is touched.
prepare_native_storage_services ==
    /\ gen.pc \in {"idle", "done"} /\ loads < MaxLoads /\ loads' = loads + 1
    /\ LET bad == ~fstab.ok \/ DuplicateTarget(fstab.lines)
       IN  gen' = CASE ~fstab.there -> [NoLoad EXCEPT !.pc = "read"]
                    [] fstab.there /\ bad -> NoLoad
                    [] OTHER -> [pc |-> "clear", read |-> fstab,
                                 units |-> generate_services(fstab.lines)]
    /\ UNCHANGED <<fstab, directory, table, present, prep>>

remove_generated ==
    /\ gen.pc = "clear"
    /\ IF directory = << >>
       THEN gen' = [gen EXCEPT !.pc = "write"] /\ UNCHANGED directory
       ELSE \E n \in DOMAIN directory :
               directory' = [m \in DOMAIN directory \ {n} |-> directory[m]] /\ UNCHANGED gen
    /\ UNCHANGED <<fstab, table, present, prep, loads>>

Written(unit, name) ==
    directory' = [n \in DOMAIN directory \cup {name} |-> IF n = name THEN unit ELSE directory[n]]

\* The code goes by the names, which changes nothing: of two units with one
\* name the later one stays.
write_generated ==
    /\ gen.pc = "write"
    /\ IF gen.units = {}
       THEN gen' = [gen EXCEPT !.pc = "read"] /\ UNCHANGED directory
       ELSE \E u \in FirstOf(gen.units) :
               Written(u.unit, u.name) /\ gen' = [gen EXCEPT !.units = @ \ {u}]
    /\ UNCHANGED <<fstab, table, present, prep, loads>>

native_device_dependencies(unit, known) ==
    {n \in unit.requires \cup unit.wants \cup unit.after \cup unit.before : n[1] = "device"}
    \ known

\* Every device a descriptor mentions becomes a service of its own.
append_synthetic_device_specs ==
    /\ gen.pc = "read"
    /\ LET devices == UNION {native_device_dependencies(directory[n], DOMAIN directory) :
                               n \in DOMAIN directory}
       IN  table' = [n \in DOMAIN directory \cup devices |->
                        IF n \in DOMAIN directory THEN directory[n]
                        ELSE [Plain({}) EXCEPT !.what = n[2]]]
    /\ gen' = [gen EXCEPT !.pc = "done"]
    /\ UNCHANGED <<fstab, directory, present, prep, loads>>

\* A write fails or the daemon dies: the directory stays as far as it got,
\* the file being written possibly empty.
LoadCut ==
    /\ gen.pc \in {"clear", "write"} /\ gen' = NoLoad /\ table' = << >>
    /\ \/ UNCHANGED directory
       \/ gen.pc = "write" /\ \E u \in FirstOf(gen.units) : Written(Plain({}), u.name)
    /\ UNCHANGED <<fstab, present, prep, loads>>

EditFstab ==
    /\ \E lines \in Fstabs, ok \in BOOLEAN, there \in BOOLEAN :
          fstab' = IF there THEN [there |-> TRUE, lines |-> lines, ok |-> ok] ELSE NoFstab
    /\ loads < MaxLoads
    /\ UNCHANGED <<directory, gen, table, present, prep, loads>>

(* ---------------------------- storage-prepare -------------------------- *)

Scans == <<"btrfs", "mdadm", "pvscan", "vgchange">>

\* A tool that is missing or that reports an error is passed over; one that
\* cannot be run at all ends storage-prepare.
run_storage_command == {"ok", "nonzero", "missing", "error"}

Stage(pc) == prep.pc = pc
ToStage(pc) == prep' = [prep EXCEPT !.pc = pc, !.at = 1]
Advance(clean) == prep' = [prep EXCEPT !.at = @ + 1, !.clean = @ /\ clean]

storage_prepare ==
    /\ Stage("idle") \/ Stage("done") \/ Stage("failed")
    /\ loads < MaxLoads /\ loads' = loads + 1
    /\ prep' = [NoPrep EXCEPT !.pc = "scan"]
    /\ UNCHANGED <<fstab, directory, gen, table, present>>

AfterCrypttab == "rescan"
AfterScan == IF Stage("scan") THEN "crypttab" ELSE "done"

activate_block_storage ==
    /\ Stage("scan") \/ Stage("rescan")
    /\ IF prep.at > Len(Scans) THEN ToStage(AfterScan) /\ UNCHANGED present
       ELSE \E outcome \in run_storage_command :
              /\ present' = IF outcome # "ok" THEN present
                            ELSE present \cup {v \in DOMAIN Volumes :
                                   Volumes[v].tool = Scans[prep.at] /\ Volumes[v].on \in present}
              /\ IF outcome = "error" THEN ToStage("failed") ELSE Advance(outcome = "ok")
    /\ UNCHANGED <<fstab, directory, gen, table, loads>>

Skipped(c) == c.noauto \/ c.source = "none" \/ c.key = "none"

\* A path is taken as it is; a tag needs a device that carries it, and a
\* blkid that works if there is no link to it.
resolve_crypttab_source(c) == IF ~c.tag THEN {TRUE} ELSE {FALSE, c.source \in present}

CannotOpen(c) == IF c.nofail THEN Advance(TRUE) ELSE ToStage("failed")

open_mapping(c) ==
    \E resolved \in resolve_crypttab_source(c), opened \in run_storage_command :
        IF ~resolved THEN CannotOpen(c) /\ UNCHANGED present
        ELSE /\ opened = "ok" => c.source \in present /\ c.name \notin present
             /\ present' = IF opened = "ok" THEN present \cup {c.name} ELSE present
             /\ CASE opened = "ok" -> Advance(TRUE)
                  [] opened = "error" -> ToStage("failed")
                  [] OTHER -> CannotOpen(c)

\* What "cryptsetup status" says of a mapping.
Status(c) == run_storage_command \ {IF c.name \in present THEN "nonzero" ELSE "ok"}

activate_mapping(c) ==
    IF Skipped(c) THEN Advance(TRUE) /\ UNCHANGED present
    ELSE \E status \in Status(c) :
            CASE status = "error" -> ToStage("failed") /\ UNCHANGED present
              [] status = "ok" -> Advance(TRUE) /\ UNCHANGED present
              [] OTHER -> open_mapping(c)

\* A crypttab that cannot be read or parsed ends storage-prepare.
activate_daemon_crypttab ==
    /\ Stage("crypttab")
    /\ \/ prep.at = 1 /\ ToStage("failed") /\ UNCHANGED present
       \/ prep.at > Len(Crypttab) /\ ToStage(AfterCrypttab) /\ UNCHANGED present
       \/ prep.at <= Len(Crypttab) /\ activate_mapping(Crypttab[prep.at])
    /\ UNCHANGED <<fstab, directory, gen, table, loads>>

DiskAppears ==
    /\ \E d \in Disks \ present : present' = present \cup {d}
    /\ UNCHANGED <<fstab, directory, gen, table, prep, loads>>

LoadNext ==
    \/ prepare_native_storage_services \/ remove_generated \/ write_generated
    \/ append_synthetic_device_specs \/ LoadCut \/ EditFstab

PrepareNext ==
    storage_prepare \/ activate_block_storage \/ activate_daemon_crypttab \/ DiskAppears

(* ------------------------------ properties ----------------------------- *)

StorageTypeOK ==
    /\ gen.pc \in {"idle", "clear", "write", "read", "done"}
    /\ prep.pc \in {"idle", "scan", "crypttab", "rescan", "done", "failed"}
    /\ present \subseteq Disks \cup DOMAIN Volumes \cup {Crypttab[k].name : k \in DOMAIN Crypttab}

Active(lines) == {lines[k] : k \in Mounts(lines) \cup Swaps(lines)}
NameOf(e) == IF e.fs = "swap" THEN swap_service_name(e) ELSE mount_service_name(e.target)

Spelled(lines) == \A e \in Active(lines) : Normal(e.target) = e.target

(* After a load the table serves fstab and nothing else: every active line *)
(* has its own service, mounting what it says, and no other mount or swap  *)
(* is left of an earlier fstab or of a load that was cut, as long as no    *)
(* target has ".." in it (prepare_native_storage_services).                *)
FstabServed ==
    LET lines == gen.read.lines
    IN  gen.pc = "done" /\ gen.read.there /\ Spelled(lines)
        => /\ \A e \in Active(lines) : NameOf(e) \in DOMAIN table /\ table[NameOf(e)].what = e.what
           /\ {n \in DOMAIN table : n[1] \in {"mount", "swap"}} = {NameOf(e) : e \in Active(lines)}

\* The target of e lies in that of d, which has a beginning of it for its own.
Nested(e, d) ==
    /\ d.target # e.target
    /\ \E k \in 1 .. Len(Normal(e.target)) : d.target = SubSeq(Normal(e.target), 1, k)

\* What the lines themselves demand: n waits for m because it is nested in
\* it, or because an option says so.
Demanded(lines, m, n) ==
    \E j, k \in Mounts(lines) \cup Swaps(lines) :
       /\ m = NameOf(lines[j]) /\ n = NameOf(lines[k])
       /\ \/ {j, k} \subseteq Mounts(lines) /\ Nested(lines[k], lines[j])
          \/ m \in lines[k].after
          \/ j \in Mounts(lines) /\ n \in lines[j].before

\* The lines do not demand a circle, a wait for the group, or that a device
\* or storage-prepare waits for a mount.
Followable(lines) ==
    /\ \A e \in Active(lines) : Profile \notin e.after
    /\ \A k \in Mounts(lines) : \A n \in lines[k].before : n[1] \notin {"storage-prepare", "device"}
    /\ \A S \in SUBSET {NameOf(e) : e \in Active(lines)} :
          S # {} => \E n \in S : \A m \in S : ~Demanded(lines, m, n)

Waits(n) == table[n].after \cup {m \in DOMAIN table : n \in table[m].before}

(* A boot can follow the order of the generated services. No service waits *)
(* for itself, directly or around, unless the lines of fstab demand it by  *)
(* themselves. A mount follows every mount its target lies in, as spelled, *)
(* and fails with it unless it is nofail. What is required has a service,  *)
(* unless an option names it. Everything follows storage-prepare, and the  *)
(* group follows everything (mount_service, generate_services).            *)
MountOrder ==
    LET lines == gen.read.lines
    IN  gen.pc = "done" /\ gen.read.there =>
        /\ Followable(lines) =>
              ~\E S \in SUBSET DOMAIN table : S # {} /\ \A n \in S : Waits(n) \cap S # {}
        /\ Spelled(lines) => \A j, k \in Mounts(lines) :
              lines[j].target # lines[k].target /\ IsPrefix(lines[j].target, lines[k].target)
              => LET unit == table[NameOf(lines[k])]
                 IN  NameOf(lines[j])
                        \in unit.after \cap (IF lines[k].nofail THEN unit.wants ELSE unit.requires)
        /\ \A n \in DOMAIN table :
              table[n].requires \subseteq DOMAIN table \cup UNION {e.requires : e \in Active(lines)}
        /\ \A n \in DOMAIN table : n[1] \in {"mount", "swap"} =>
              Prepare \in table[n].after /\ n \in table[Profile].after

(* storage-prepare only reports success when every mapping it had to open  *)
(* is open, and, if every scan succeeded, the volumes on those mappings    *)
(* are up: that is what the second scan is for (storage_prepare).          *)
StorageReady ==
    Stage("done") =>
        \A k \in DOMAIN Crypttab : ~Skipped(Crypttab[k]) /\ ~Crypttab[k].nofail =>
            /\ Crypttab[k].name \in present
            /\ prep.clean => \A v \in DOMAIN Volumes :
                                Volumes[v].on = Crypttab[k].name => v \in present
=============================================================================
