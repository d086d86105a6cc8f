-------------------------- MODULE MCDependencyGraph --------------------------
(***************************************************************************)
(* Registries for TLC over three names: every choice of at most three      *)
(* dependencies of the given kinds and of at most two of any kind, self-   *)
(* dependencies included, with all descriptors present or one missing.     *)
(***************************************************************************)
EXTENDS DependencyGraph

CONSTANT Kinds

AllKinds == {"requires", "binds_to", "mounts", "wants", "wanted_mounts",
             "after", "before", "requisite"}

Labelled(kinds) == kinds \X Names \X Names

EdgeSets ==
  {{a, b} : a, b \in Labelled(AllKinds)} \cup {{a, b, c} : a, b, c \in Labelled(Kinds)} \cup {{}}

Of(kind, es) == [n \in Names |-> {m \in Names : <<kind, n, m>> \in es}]

GraphOf(es, present) ==
  [loaded |-> present,
   requires |-> Of("requires", es), binds_to |-> Of("binds_to", es),
   mounts |-> Of("mounts", es), wants |-> Of("wants", es),
   wanted_mounts |-> Of("wanted_mounts", es), after |-> Of("after", es),
   before |-> Of("before", es), requisite |-> Of("requisite", es)]

MCGraphs ==
  {g \in {GraphOf(es, present) : es \in EdgeSets, present \in {Names, Names \ {2}}} :
     MountsLoaded(g)}

=============================================================================
