------------------------------ MODULE HostTools ------------------------------
(* The tools FractalD brings beside the daemon, on one host: accounts      *)
(* (SysUsers), packaged services (Packages), kernels and the machine id    *)
(* (Kernels), generated storage services and storage-prepare (Storage),    *)
(* the local resolver with resolvectl (Resolver).                          *)
(* Their files are disjoint, apart from the machine id, which is part of   *)
(* Kernels, so a behaviour of the host is one of each side by side; busy   *)
(* is the tool whose steps this behaviour follows.                         *)
EXTENDS SysUsers, Packages, Kernels, Storage, Resolver

VARIABLE busy

hostVars == <<busy, usersVars, packageVars, kernelVars, storageVars, resolverVars>>

\* The choices of the tools that stand still are immaterial.
HostInit ==
    /\ busy \in {"users", "packages", "kernels", "load", "prepare", "resolver"}
    /\ UsersInit /\ PackagesInit /\ KernelsInit /\ StorageInit /\ ResolverInit
    /\ busy # "packages" => discovery = "native" /\ profile = CHOOSE q \in BootProfiles : TRUE
    /\ busy # "kernels" => ~loader /\ machine = "absent"
    /\ busy # "prepare" => present = {}

HostNext ==
    \/ /\ busy = "users" /\ UsersNext
       /\ UNCHANGED <<busy, packageVars, kernelVars, storageVars, resolverVars>>
    \/ /\ busy = "packages" /\ PackagesNext
       /\ UNCHANGED <<busy, usersVars, kernelVars, storageVars, resolverVars>>
    \/ /\ busy = "kernels" /\ KernelsNext
       /\ UNCHANGED <<busy, usersVars, packageVars, storageVars, resolverVars>>
    \/ /\ busy = "load" /\ LoadNext
       /\ UNCHANGED <<busy, usersVars, packageVars, kernelVars, resolverVars>>
    \/ /\ busy = "prepare" /\ PrepareNext
       /\ UNCHANGED <<busy, usersVars, packageVars, kernelVars, resolverVars>>
    \/ /\ busy = "resolver" /\ ResolverNext
       /\ UNCHANGED <<busy, usersVars, packageVars, kernelVars, storageVars>>

HostSpec == HostInit /\ [][HostNext]_hostVars

(* Accounts have numbers of their own, on disk and at every instant,       *)
(* however many runs of sysusers there are and however they end.           *)
AccountsSound == UsersTypeOK /\ IdsUnique /\ OwnGroup

(* The markers a sync sets and the index it keeps follow the packages,     *)
(* although either may be cut from the other.                              *)
MarkersFollow == PackagesTypeOK /\ MarkersFollowPackages /\ IndexCoversMarkers

(* What the next boot needs is there: loader entries name whole files, the *)
(* generated services are those of fstab in an order that can be followed, *)
(* and storage-prepare has done what it reports.                           *)
BootIsPossible ==
    KernelsTypeOK /\ StorageTypeOK /\ EntriesBoot /\ FstabServed /\ MountOrder /\ StorageReady

(* Clients find the resolver that serves, and what it answers and caches   *)
(* is of the servers it has now, for the query asked, and not too old,     *)
(* although requests come while it waits for an upstream.                  *)
ResolverSound == ResolverTypeOK /\ EndpointIsOwn /\ CacheIsCurrent /\ RepliesMatch

(* The tools take nothing that is not theirs: no account, no marker of an  *)
(* administrator and no machine id is lost or changed by a run, failed,    *)
(* killed or run twice at a time.                                          *)
NothingIsTaken == AccountsStay /\ ForeignMarkersKept /\ MachineIdStays

(* A tool that reports success has done all it was asked for: the accounts *)
(* are in all the files, the removed kernel is gone.                       *)
SuccessIsTrue == RunsComplete /\ RemovedIsGone
=============================================================================
