------------------------------ MODULE Packages ------------------------------
(* fractald-package-trigger (crates/fractald-package-trigger/src/main.rs): *)
(* after a package transaction it enables the packaged services of the     *)
(* active boot profile, disables the ones that are gone, and records what  *)
(* the packages declare in an index for the next time.  It may fail or be  *)
(* killed at every step, and the markers it moves are the ones an          *)
(* administrator sets with fractalctl enable and disable.                  *)
(*                                                                         *)
(* A descriptor is [dir, name, profiles, sort]: the place of its directory *)
(* in the overlay, the service it declares (always its file stem), and     *)
(* whether the file is a good one, "unparsable", a "link" or "missing".    *)
EXTENDS Integers, Sequences, SequencesExt, FiniteSetsExt, TLC

CONSTANTS Descriptors,     \* package -> the descriptors it lists
          LocalDescriptors,\* the ones no package owns
          ServiceOrder,    \* the service names, in order
          BootProfiles,    \* the values of profile= in boot.conf
          MaxTransactions  \* bound on what happens outside the tool

ASSUME PackagesAssumption ==
    /\ MaxTransactions \in Nat /\ BootProfiles # {}
    /\ \A d \in LocalDescriptors \cup UNION {Descriptors[p] : p \in DOMAIN Descriptors} :
          d.name \in ToSet(ServiceOrder)

VARIABLES installed,  \* the packages in the package database
          discovery,  \* "package" or "native"
          profile,    \* the profile boot.conf selects
          marker,     \* service -> who enabled it: "none", "user", "sync",
                      \* or "cut", a sync that ended before its index
          index,      \* the services of packages.index
          sync,       \* the run of the tool
          socket,     \* the control socket: "none", "live" or "stale"
          outside     \* how often something else has happened

packageVars == <<installed, discovery, profile, marker, index, sync, socket, outside>>

ServiceNames == ToSet(ServiceOrder)
NoLoops == <<{}, {}, {}>>
NoSync == [pc |-> "idle", loops |-> NoLoops, declared |-> {}, chosen |-> {}]

(* -------------------------------- discovery ---------------------------- *)

OnDisk(ds) == {d \in ds : d.sort # "missing"}

\* Pairs of a package and a descriptor: two packages may list one path.
discover_package_services == UNION {{p} \X OnDisk(Descriptors[p]) : p \in installed}

\* Every file of every directory; a later directory replaces an earlier one.
AllFiles == OnDisk(LocalDescriptors \cup UNION {Descriptors[p] : p \in installed})
discover_native_services ==
    {"filesystem"} \X {d \in AllFiles : \A e \in AllFiles : e.name = d.name => e.dir <= d.dir}

Discovered ==
    IF discovery = "native" THEN discover_native_services ELSE discover_package_services

\* A link is refused even where another directory overrides it.
Refused ==
    IF discovery = "native" THEN \E d \in AllFiles : d.sort = "link"
    ELSE \E s \in discover_package_services : s[2].sort = "link"

\* A service is declared once: by one path, and in one package only.
validate_package_services(services) ==
    /\ \A s \in services : s[2].sort # "unparsable"
    /\ \A s, t \in services : s[2].name = t[2].name => s = t

selected_profile == profile

(* --------------------------------- the run ----------------------------- *)

\* The order of BTreeSet.
First(n, S) ==
    \E k \in DOMAIN ServiceOrder :
        ServiceOrder[k] = n /\ \A j \in DOMAIN ServiceOrder : j < k => ServiceOrder[j] \notin S

\* Mutant: a service that left the profile stays enabled.
Loops_two(previous, current, chosen) ==
    <<previous \ current, chosen, {}>>

\* What the three loops go through: services no package declares any more,
\* which are disabled, the ones of the profile, which are enabled, and the
\* recorded ones that are not in it, which are disabled.
Loops(previous, current, chosen) ==
    <<previous \ current, chosen, previous \ chosen>>

PackagesInit ==
    /\ installed = {} /\ discovery \in {"package", "native"} /\ profile \in BootProfiles
    /\ marker = [n \in ServiceNames |-> "none"]
    /\ index = {} /\ sync = NoSync /\ socket = "none" /\ outside = 0

\* sync or verify: the descriptors are read and validated; verify ends here.
sync_packages ==
    /\ sync.pc = "idle"
    /\ LET ds == {s[2] : s \in Discovered}
           declared == {d.name : d \in ds}
           chosen == {d.name : d \in {e \in ds : selected_profile \in e.profiles}}
           ok == ~Refused /\ validate_package_services(Discovered)
       IN  \E verify \in BOOLEAN :
              sync' = IF ok /\ ~verify
                      THEN [pc |-> "loops", declared |-> declared, chosen |-> chosen,
                            loops |-> Loops(index, declared, chosen)]
                      ELSE [NoSync EXCEPT !.pc = IF ok THEN "verified" ELSE "failed"]
    /\ UNCHANGED <<installed, discovery, profile, marker, index, socket, outside>>

\* The next service of the first loop that is not through: StatePaths::enable
\* and disable.
update_marker ==
    /\ sync.pc = "loops"
    /\ \E k \in 1..3 : \E n \in sync.loops[k] :
          /\ First(n, sync.loops[k]) /\ \A j \in 1 .. k - 1 : sync.loops[j] = {}
          /\ marker' = [marker EXCEPT ![n] = IF k = 2 THEN "sync" ELSE "none"]
          /\ sync' = [sync EXCEPT !.loops[k] = @ \ {n}]
    /\ UNCHANGED <<installed, discovery, profile, index, socket, outside>>

\* The new index replaces the old one in a rename.
write_index ==
    /\ sync.pc = "loops" /\ sync.loops = NoLoops
    /\ index' = sync.declared
    /\ sync' = [sync EXCEPT !.pc = "reload"]
    /\ UNCHANGED <<installed, discovery, profile, marker, socket, outside>>

\* The daemon answers, refuses, or is gone and leaves its socket behind.
request_reload ==
    /\ sync.pc = "reload"
    /\ \E ok \in IF socket = "live" THEN BOOLEAN ELSE {TRUE} :
          sync' = [sync EXCEPT !.pc = IF ok THEN "done" ELSE "failed"]
    /\ socket' = IF socket = "stale" THEN "none" ELSE socket
    /\ UNCHANGED <<installed, discovery, profile, marker, index, outside>>

SyncOver ==
    /\ sync.pc \in {"done", "failed", "verified"} /\ sync' = NoSync
    /\ UNCHANGED <<installed, discovery, profile, marker, index, socket, outside>>

\* The tool is killed or a file operation fails: the index stays behind the
\* markers this run has set.
SyncCut ==
    /\ sync.pc = "loops"
    /\ marker' = [n \in ServiceNames |->
                    IF marker[n] = "sync" /\ n \notin index THEN "cut" ELSE marker[n]]
    /\ sync' = [NoSync EXCEPT !.pc = "failed"]
    /\ UNCHANGED <<installed, discovery, profile, index, socket, outside>>

(* ------------------------------ the host ------------------------------- *)

Outside == outside < MaxTransactions /\ outside' = outside + 1

\* The package manager runs the tool after a transaction and waits for it.
Transaction(p) ==
    /\ Outside /\ sync.pc = "idle"
    /\ installed' = IF p \in installed THEN installed \ {p} ELSE installed \cup {p}
    /\ UNCHANGED <<discovery, profile, marker, index, sync, socket>>

Administrator(n) ==
    /\ Outside
    /\ marker' = [marker EXCEPT ![n] = IF @ = "none" THEN "user" ELSE "none"]
    /\ UNCHANGED <<installed, discovery, profile, index, sync, socket>>

SelectProfile(q) ==
    /\ Outside /\ q # profile /\ profile' = q
    /\ UNCHANGED <<installed, discovery, marker, index, sync, socket>>

DaemonComesOrGoes ==
    /\ Outside
    /\ \E s \in {"none", "live", "stale"} \ {socket} : socket' = s
    /\ UNCHANGED <<installed, discovery, profile, marker, index, sync>>

PackagesNext ==
    \/ sync_packages \/ update_marker \/ write_index \/ request_reload \/ SyncOver \/ SyncCut
    \/ \E p \in DOMAIN Descriptors : Transaction(p)
    \/ \E n \in ServiceNames : Administrator(n)
    \/ \E q \in BootProfiles : SelectProfile(q)
    \/ DaemonComesOrGoes

(* ------------------------------ properties ----------------------------- *)

PackagesTypeOK ==
    /\ sync.pc \in {"idle", "loops", "reload", "done", "failed", "verified"}
    /\ marker \in [ServiceNames -> {"none", "user", "sync", "cut"}]
    /\ index \subseteq ServiceNames

(* A service a sync has enabled does not outlive its package or its        *)
(* profile: when the markers have been moved, the only ones a completed    *)
(* sync set are those of the services it chose, although packages come and *)
(* go, the profile changes and other syncs fail (sync_packages and         *)
(* packages.index).                                                        *)
MarkersFollowPackages ==
    sync.pc \in {"reload", "done"} =>
        \A n \in ServiceNames : marker[n] = "sync" => n \in sync.chosen

(* Whatever a sync does, the index names every service a sync has enabled  *)
(* and not lost by being cut: the next sync can take its markers back.     *)
IndexCoversMarkers ==
    sync.pc # "loops" => \A n \in ServiceNames : marker[n] = "sync" => n \in index

(* A sync never moves the marker of a service that no package declares and *)
(* that the index does not name: what an administrator enabled by hand     *)
(* stays (sync_packages).                                                  *)
ForeignMarkersKept ==
    [][\A n \in ServiceNames :
          outside' = outside /\ marker'[n] # marker[n] /\ marker'[n] # "cut" =>
              n \in sync.declared \cup index]_packageVars
=============================================================================
