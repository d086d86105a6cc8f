----------------------------- MODULE CgroupTree -----------------------------
(* The tree of control groups below the directory `fractald`, and what the *)
(* supervisor does to it. A group is the sequence of its path components:  *)
(* the slices a service is in and, at the end, the service. <<>> is the    *)
(* directory `fractald` itself, which also stands for the mount point.     *)
(*                                                                         *)
(* A tree is a record: dirs, the groups; enabled[g], the controllers in    *)
(* cgroup.subtree_control of g; filtered, the groups with a device filter; *)
(* procs, the processes, each with its group p.cg, Elsewhere when it is in *)
(* none of these. Rules of the kernel are marked so.                       *)
EXTENDS Naturals, Sequences, FiniteSets, SequencesExt

CONSTANTS
    Controllers,    \* the controllers a descriptor may ask for
    Host,           \* those the kernel offers
    Threaded        \* those that may govern single threads (cpu, pids)

\* Not a path: no component has a slash.
Elsewhere == <<"/">>

Within(g, h) == IsPrefix(g, h)
Below(g, h) == Within(g, h) /\ g # h
Ancestors(g) == {SubSeq(g, 1, i) : i \in 0..(Len(g) - 1)}
Children(t, g) == {h \in t.dirs : h # <<>> /\ Front(h) = g}
Populated(t, g) == \E p \in t.procs : p.cg # Elsewhere /\ Within(g, p.cg)

\* Kernel: a group can be removed when it has neither processes nor children;
\* what it was set to goes with it.
Without(t, gs) ==
    [dirs |-> t.dirs \ gs, filtered |-> t.filtered \ gs, procs |-> t.procs,
     enabled |-> [g \in DOMAIN t.enabled |-> IF g \in gs THEN {} ELSE t.enabled[g]]]

\* Kernel: a process may enter a group that passes no controllers on, or only
\* threaded ones and has no populated children.
MayEnter(t, g) ==
    /\ g \in t.dirs
    /\ \/ t.enabled[g] = {}
       \/ t.enabled[g] \subseteq Threaded /\ ~ \E h \in Children(t, g) : Populated(t, h)

\* Kernel: domain controllers are not passed on by a group with processes.
MayEnable(t, g, cs) ==
    cs \subseteq Threaded \/ cs = {} \/ g = <<>> \/ ~ \E p \in t.procs : p.cg = g

-----------------------------------------------------------------------------
(* What the supervisor does.                                               *)

\* The slice name is taken apart at its dashes; `slice` is the sequence of
\* the parts, each directory on the way is named by the parts up to it.
service_cgroup_path(slice, name) == Append(slice, name)

\* create_dir_all
MakeDirectories(t, g) ==
    [t EXCEPT !.dirs = @ \cup Ancestors(g) \cup {g}]

\* From the root down, each ancestor passes on what it does not yet. A
\* controller that is missing leaves the tree as it is: the first ancestor
\* refuses it before anything is written.
enable_cgroup_controllers(t, g, cs) ==
    [t EXCEPT !.enabled = [a \in DOMAIN @ |->
        IF a \in Ancestors(g) /\ cs \subseteq Host THEN @[a] \cup cs ELSE @[a]]]

CanEnable(t, g, cs) ==
    cs \subseteq Host /\ \A a \in Ancestors(g) : MayEnable(t, a, cs \ t.enabled[a])

\* Delegated controllers are enabled one by one, a missing one is skipped;
\* those enabled are then passed on by the group of the service itself.
enable_delegated_cgroup_controllers(t, g, cs) ==
    [enable_cgroup_controllers(t, g, cs \cap Host)
        EXCEPT !.enabled[g] = @ \cup (cs \cap Host)]

\* Removes the group with everything below it that is empty, and then each
\* slice above it that is empty. Device filters go in any case.
cleanup_cgroup(t, g) ==
    LET gone == {h \in t.dirs : Within(g, h) /\ g # <<>> /\ ~ Populated(t, h)}
        below == [Without(t, gone) EXCEPT !.filtered = {h \in @ : ~ Within(g, h)}]
        up == {a \in Ancestors(g) \ {<<>>} :
                  /\ \A h \in below.dirs : Below(a, h) => h \in Ancestors(g)
                  /\ ~ Populated(below, a)}
    IN  IF g \in below.dirs THEN below ELSE Without(below, up)

attach_to_cgroup(t, p, g) == [t EXCEPT !.procs = (@ \ {p}) \cup {[p EXCEPT !.cg = g]}]

\* Mutant: stale groups are removed when they can be, and nothing is killed.
reconcile_cgroup_gently(t, gs) == t

\* In groups without children: cgroup.kill, or a signal to each process.
reconcile_cgroup(t, gs) == [t EXCEPT !.procs = {p \in @ : p.cg \notin gs}]

\* Depth first: groups with children are not killed, only cleaned up when
\* their children are done. A group can be removed when what was killed in it
\* is gone, which may be too late; device filters go in any case.
Leaves(t) == {g \in t.dirs \ {<<>>} : Children(t, g) = {}}
reconcile_cgroup_tree(t) ==
    LET killed == reconcile_cgroup(t, Leaves(t))
        empty  == {g \in killed.dirs \ {<<>>} : ~ Populated(killed, g)}
    IN  {[Without(killed, gone) EXCEPT !.filtered = {}] :
            gone \in {gs \in SUBSET empty :
                         \A g \in gs : \A h \in killed.dirs : Below(g, h) => h \in gs}}
=============================================================================
