------------------------------- MODULE Kernels -------------------------------
(* kernel-install (crates/fractald-kernel-install/src/main.rs), and the    *)
(* machine id its entry token comes from                                   *)
(* (crates/fractald-machine-id/src/main.rs): adding and removing a kernel  *)
(* on the boot file system, file by file.  Every step may fail, and the    *)
(* tool may be killed between any two.                                     *)
(*                                                                         *)
(* A file of the boot file system is <<home, version, name>>: home is an   *)
(* entry token, or "flat" for the files of the boot directory itself; name *)
(* is "linux" or the name of an initrd, which in the flat layout all       *)
(* versions share.  A file is "torn" while it is being copied, then        *)
(* "whole".  A loader entry <<token, version>> lists its initrds.          *)
EXTENDS Integers, Sequences, SequencesExt, FiniteSetsExt, TLC

CONSTANTS Versions,       \* the kernels under /usr/lib/modules
          Adjacent,       \* version -> the initrd next to its image, or "none"
          Requests,       \* command lines: [layout, token, initrds, make, dracut]
          TokenFile,      \* /etc/kernel/entry-token, or "none"
          OsToken,        \* what os-release gives
          PluginDirs,     \* plugin directories, the strongest first:
                          \* plugin -> "file", "mask" or "dir"
          PluginOrder,    \* the plugin names, sorted
          MachineIds,     \* the ids that may be drawn
          MaxInstalls     \* bound on the runs

ASSUME KernelsAssumption ==
    /\ MaxInstalls \in Nat
    /\ Adjacent \in [Versions -> STRING]
    /\ MachineIds \cap {"absent", "empty", "torn"} = {}
    /\ \A req \in Requests : req.initrds \in Seq(STRING)

\* The names this model makes up are no versions and no tokens.
ASSUME KernelNamesAssumption ==
    /\ "all" \notin Versions
    /\ "flat" \notin MachineIds \cup {TokenFile, OsToken} \cup {req.token : req \in Requests}

VARIABLES files,    \* the files of the boot file system: path -> "torn" or "whole"
          entries,  \* <<token, version>> -> the initrd names, or "torn"
          loader,   \* whether loader/entries exists
          job,      \* the run of kernel-install
          machine,  \* /etc/machine-id: "absent", "empty", "torn" or an id
          drawing,  \* the run of fractald-machine-id: "idle", "create", "write"
          homes,    \* version -> the <<layout, token>> it was added under
          unsure,   \* the entries whose files are being written over
          installs

kernelVars == <<files, entries, loader, job, machine, drawing, homes, unsure, installs>>

\* home is where the images go, at counts what the stage pc has done, half is
\* whether the file in hand has been emptied.
NoJob == [pc |-> "idle", what |-> "none", version |-> "none", layout |-> "none", token |-> "none",
          home |-> "none", initrds |-> << >>, at |-> 0, half |-> FALSE]
Torn == {"torn"}

(* ------------------------------ machine id ----------------------------- *)

valid_machine_id(m) == m \in MachineIds

\* An empty file is a new machine; anything else that is no id is an error.
ensure_machine_id ==
    /\ drawing = "idle"
    /\ drawing' = IF machine \in {"absent", "empty"} THEN "create" ELSE "idle"
    /\ UNCHANGED <<files, entries, loader, job, machine, homes, unsure, installs>>

\* fs::write: the file is emptied, then written; killed in between it stays
\* empty or short.
create_machine_id ==
    \/ /\ drawing = "create" /\ machine' = "empty" /\ drawing' = "write"
       /\ UNCHANGED <<files, entries, loader, job, homes, unsure, installs>>
    \/ /\ drawing = "write" /\ drawing' = "idle"
       /\ machine' \in MachineIds \cup {"empty", "torn"}
       /\ UNCHANGED <<files, entries, loader, job, homes, unsure, installs>>

first_boot_state == machine \in {"absent", "empty"}

(* -------------------------------- context ------------------------------ *)

read_machine_id == IF valid_machine_id(machine) THEN machine ELSE "none"

\* "auto": the administrator's file, the machine id, the system's name.
entry_token(req) ==
    CASE req.token = "auto" ->
            IF TokenFile # "none" THEN TokenFile
            ELSE IF read_machine_id # "none" THEN read_machine_id ELSE OsToken
      [] req.token = "machine-id" -> read_machine_id
      [] OTHER -> req.token

\* The layout: asked for or configured, or as the boot file system is.
context(req) ==
    [layout |-> IF req.layout # "auto" THEN req.layout ELSE IF loader THEN "bls" ELSE "other",
     token  |-> entry_token(req)]

(* -------------------------------- plugins ------------------------------ *)

\* The first directory that has the name decides, by a file or by a mask.
install_plugins ==
    LET Having(n) == {i \in DOMAIN PluginDirs :
                        n \in DOMAIN PluginDirs[i] /\ PluginDirs[i][n] \in {"file", "mask"}}
    IN  SelectSeq(PluginOrder, LAMBDA n : Having(n) # {} /\ PluginDirs[Min(Having(n))][n] = "file")

(* ------------------------------ add, remove ---------------------------- *)

\* The initrds: the ones given, the one next to the image, or a new one
\* that dracut writes to where it belongs.
add_arguments(req, v, layout) ==
    IF req.initrds # << >> THEN req.initrds
    ELSE IF Adjacent[v] # "none" THEN <<Adjacent[v]>>
    ELSE IF layout = "bls" /\ req.dracut THEN <<"generated">> ELSE << >>

generate_initrd(initrds) == initrds = <<"generated">>

\* --make-entry-directory=no puts the images in the boot directory.
InEntry(req, ctx) == ctx.layout = "bls" /\ req.make

\* The images of an add: the kernel, then its initrds.
Image(j, k) ==
    <<j.home,
      IF j.home = "flat" /\ k # 0 THEN "all" ELSE j.version,
      IF k = 0 THEN "linux" ELSE j.initrds[k]>>
Copies(j) == 0 .. Len(j.initrds)

\* Mutant: the entry before what it names.
AddStage_entry_first(pc, j) ==
    CASE pc = "start" -> IF j.home = "flat" THEN "copy" ELSE "entry"
      [] pc = "entry" -> "copy"
      [] pc = "copy" -> "index"
      [] pc = "index" -> "plugins"
      [] OTHER -> "done"

\* What add does, in order: images, entry, module index, plugins.
AddStage(pc, j) ==
    CASE pc = "start" /\ generate_initrd(j.initrds) -> "dracut"
      [] pc = "dracut" \/ (pc = "start" /\ ~generate_initrd(j.initrds)) -> "copy"
      [] pc = "copy" -> IF j.home = "flat" THEN "index" ELSE "entry"
      [] pc = "entry" -> "index"
      [] pc = "index" -> "plugins"
      [] OTHER -> "done"

\* Mutant: the files of the entry are left.
RemoveStage_entry(pc, j) ==
    CASE pc = "start" -> "index"
      [] pc = "index" -> "plugins"
      [] pc = "plugins" -> "unlink-entry"
      [] OTHER -> "done"

\* What remove does: index and plugins, then the entry, then its files.
RemoveStage(pc, j) ==
    CASE pc = "start" -> "index"
      [] pc = "index" -> "plugins"
      [] pc = "plugins" -> "unlink-entry"
      [] pc = "unlink-entry" -> "unlink-files"
      [] pc = "unlink-files" /\ j.layout # "bls" -> "unlink-image"
      [] OTHER -> "done"

KernelsInit ==
    /\ files = << >> /\ entries = << >> /\ loader \in BOOLEAN
    /\ job = NoJob /\ machine \in {"absent", "empty"} /\ drawing = "idle"
    /\ homes = [v \in Versions |-> {}] /\ unsure = {} /\ installs = 0

NextStage(j) ==
    [j EXCEPT !.pc = IF j.what = "add" THEN AddStage(j.pc, j) ELSE RemoveStage(j.pc, j),
              !.at = 0, !.half = FALSE]

Begin(req, v, what, home) ==
    /\ job.pc = "idle" /\ installs < MaxInstalls
    /\ installs' = installs + 1
    /\ LET ctx == context(req)
       IN  job' = NextStage([NoJob EXCEPT
               !.pc = "start", !.what = what, !.version = v, !.layout = ctx.layout,
               !.token = ctx.token, !.home = home,
               !.initrds = IF what = "add" THEN add_arguments(req, v, ctx.layout) ELSE << >>])
    /\ UNCHANGED <<files, entries, loader, machine, drawing>>

\* add, and add_all one version after the other.  A version that has an
\* entry already is written over in place.
add(req, v) ==
    /\ context(req).token # "none"
    /\ Begin(req, v, "add", IF InEntry(req, context(req)) THEN context(req).token ELSE "flat")
    /\ homes' = [homes EXCEPT ![v] = @ \cup
                    {<<IF InEntry(req, context(req)) THEN "bls" ELSE "other",
                       context(req).token>>}]
    /\ LET e == <<context(req).token, v>>
       IN  unsure' = IF InEntry(req, context(req)) /\ e \in DOMAIN entries
                     THEN unsure \cup {e} ELSE unsure

remove(req, v) ==
    /\ context(req).token # "none"
    /\ Begin(req, v, "remove", "none")
    /\ UNCHANGED <<homes, unsure>>

(* ------------------------------ the steps ------------------------------ *)

AtStage(pc) == job.pc = pc
Count == job' = [job EXCEPT !.at = @ + 1, !.half = FALSE]
Emptied == job' = [job EXCEPT !.half = TRUE]
EntryOf(j) == <<j.token, j.version>>

Put(f, a, x) == [b \in DOMAIN f \cup {a} |-> IF b = a THEN x ELSE f[b]]
Without(f, S) == [b \in DOMAIN f \ S |-> f[b]]

\* fs::copy empties the destination before it fills it; a file copied onto
\* itself, as a generated initrd is, stays empty.
copy_image ==
    /\ AtStage("copy")
    /\ LET file == Image(job, job.at)
       IN  \/ /\ job.at \in Copies(job) /\ ~job.half
              /\ files' = Put(files, file, "torn")
              /\ Emptied
           \/ /\ job.at \in Copies(job) /\ job.half
              /\ files' = Put(files, file, IF file[3] = "generated" /\ job.home # "flat" THEN "torn"
                                        ELSE "whole")
              /\ Count
           \/ /\ job.at \notin Copies(job)
              /\ job' = NextStage(job) /\ UNCHANGED files
    /\ UNCHANGED <<entries, loader, machine, drawing, homes, unsure, installs>>

run_dracut ==
    /\ AtStage("dracut")
    /\ files' = Put(files, <<job.token, job.version, "generated">>, "whole")
    /\ job' = NextStage(job)
    /\ UNCHANGED <<entries, loader, machine, drawing, homes, unsure, installs>>

write_loader_entry ==
    /\ AtStage("entry") /\ loader' = TRUE
    /\ \/ /\ ~job.half
          /\ entries' = Put(entries, EntryOf(job), Torn)
          /\ Emptied /\ UNCHANGED unsure
       \/ /\ job.half
          /\ entries' = Put(entries, EntryOf(job), ToSet(job.initrds))
          /\ unsure' = unsure \ {EntryOf(job)}
          /\ job' = NextStage(job)
    /\ UNCHANGED <<files, machine, drawing, homes, installs>>

\* depmod, or the removal of the module index: nothing on the boot side.
run_module_index ==
    /\ AtStage("index")
    /\ job' = NextStage(job)
    /\ UNCHANGED <<files, entries, loader, machine, drawing, homes, unsure, installs>>

\* Exit code 77 ends the round of plugins early.
run_admin_plugins ==
    /\ AtStage("plugins")
    /\ \/ job.at < Len(install_plugins) /\ Count
       \/ job' = NextStage(job)
    /\ UNCHANGED <<files, entries, loader, machine, drawing, homes, unsure, installs>>

\* remove_path: of a file at once, of a directory file by file.
remove_path ==
    /\ \/ /\ AtStage("unlink-entry") /\ job' = NextStage(job)
          /\ entries' = Without(entries, {EntryOf(job)})
          /\ unsure' = unsure \ {EntryOf(job)} /\ UNCHANGED files
       \/ /\ AtStage("unlink-files") /\ UNCHANGED <<entries, unsure>>
          /\ LET there == {f \in DOMAIN files : <<f[1], f[2]>> = EntryOf(job)}
             IN  IF there = {} THEN job' = NextStage(job) /\ UNCHANGED files
                 ELSE \E f \in there : files' = Without(files, {f}) /\ UNCHANGED job
       \/ /\ AtStage("unlink-image") /\ job' = NextStage(job)
          /\ files' = Without(files, {<<"flat", job.version, "linux">>})
          /\ UNCHANGED <<entries, unsure>>
    /\ UNCHANGED <<loader, machine, drawing, homes, installs>>

KernelDone ==
    /\ AtStage("done")
    /\ job' = NoJob
    /\ UNCHANGED <<files, entries, loader, machine, drawing, homes, unsure, installs>>

\* A step fails, or the tool is killed: nothing is undone.
KernelFails ==
    /\ job.pc \notin {"idle", "done"}
    /\ job' = NoJob
    /\ UNCHANGED <<files, entries, loader, machine, drawing, homes, unsure, installs>>

KernelsNext ==
    \/ ensure_machine_id \/ create_machine_id
    \/ \E req \in Requests, v \in Versions : add(req, v) \/ remove(req, v)
    \/ copy_image \/ run_dracut \/ write_loader_entry \/ run_module_index \/ run_admin_plugins
    \/ remove_path \/ KernelDone \/ KernelFails

(* ------------------------------ properties ----------------------------- *)

Stages == {"idle", "dracut", "copy", "entry", "index", "plugins", "unlink-entry", "unlink-files",
           "unlink-image", "done"}

KernelsTypeOK ==
    /\ \A f \in DOMAIN files : f[2] \in Versions \cup {"all"} /\ files[f] \in {"torn", "whole"}
    /\ \A e \in DOMAIN entries : e[2] \in Versions
    /\ job.pc \in Stages /\ drawing \in {"idle", "create", "write"}

(* What the boot menu offers can be booted: at every instant, also after a *)
(* failed or killed run, an entry that is complete names a kernel and      *)
(* initrds that are there and whole, unless it is being written over       *)
(* or the initrd is a generated one (add, remove and their order).         *)
EntriesBoot ==
    \A e \in DOMAIN entries :
        entries[e] = Torn \/ e \in unsure \/
        \A name \in {"linux"} \cup (entries[e] \ {"generated"}) :
            /\ <<e[1], e[2], name>> \in DOMAIN files
            /\ files[<<e[1], e[2], name>>] = "whole"

(* A removal that reports success leaves nothing of the version, neither   *)
(* an entry nor a file of its own, if the version was only ever added      *)
(* under the layout and the token of the removal (remove).                 *)
RemovedIsGone ==
    [][LET v == job.version
           removed == job.what = "remove" /\ job.pc = "done" /\ job'.pc = "idle"
           known == homes[v] \subseteq {<<IF job.layout = "bls" THEN "bls" ELSE "other", job.token>>}
       IN  removed /\ known => /\ \A f \in DOMAIN files' : f[2] # v
                               /\ \A e \in DOMAIN entries' : e[2] # v]_kernelVars

(* Once the machine has an id it keeps it, and once a boot is no longer    *)
(* the first one it never is again, although the tool runs at every boot   *)
(* and may be killed while it writes (ensure_machine_id).                  *)
MachineIdStays == [][~first_boot_state => machine' = machine]_machine
=============================================================================
