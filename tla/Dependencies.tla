---------------------------- MODULE Dependencies ----------------------------
(***************************************************************************)
(* What a registry of descriptors says about its services, and what its    *)
(* plans are (crates/fractald-core/src/graph.rs).  DependencyGraph is the  *)
(* computation of these plans; the supervisor uses their results.          *)
(*                                                                         *)
(* A name is a number: its rank in the order of the BTree containers.      *)
(* Path-derived mount dependencies are given as relations.                 *)
(***************************************************************************)
EXTENDS Integers, FiniteSets, Sequences

CONSTANT Names    \* every name a descriptor may carry or mention

ASSUME NamesAssumption == Names \subseteq Nat /\ IsFiniteSet(Names)

Relation == [Names -> SUBSET Names]

\* A registry: the descriptors present, and what each of them mentions.
Graph == [loaded : SUBSET Names,
          requires : Relation, binds_to : Relation, mounts : Relation,
          wants : Relation, wanted_mounts : Relation,
          after : Relation, before : Relation, requisite : Relation]

\* Path-derived dependencies only ever name other mounts of the registry.
MountsLoaded(g) ==
  \A n \in Names : g.mounts[n] \cup g.wanted_mounts[n] \subseteq g.loaded \ {n}

-----------------------------------------------------------------------------
(***************************************************************************)
(* What the registry says.                                                 *)
(***************************************************************************)

required_dependencies(g, n) ==
  IF n \in g.loaded THEN g.requires[n] \cup g.binds_to[n] \cup g.mounts[n] ELSE {}

wanted_dependencies(g, n) == g.wants[n] \cup g.wanted_mounts[n]

\* What a name pulls into a plan: wanted services only when they exist.
pulled(g, n, what) ==
  required_dependencies(g, n) \cup
    (IF what = "required_closure" THEN {} ELSE wanted_dependencies(g, n) \cap g.loaded)

\* b is started after a.
ordered_before(g, a, b) ==
  \/ a \in required_dependencies(g, b) \cup wanted_dependencies(g, b)
  \/ a \in g.after[b] \cup g.requisite[b]
  \/ b \in g.before[a]

\* add_edge inserts into a set, so several reasons give one edge.
ordering_edges(g, sel) == [a \in sel |-> {b \in sel : ordered_before(g, a, b)}]

\* Mutant: an edge that was already there is counted again.
ordering_indegree_duplicates(g, sel) ==
  [b \in sel |-> Cardinality({a \in sel : ordered_before(g, a, b)}) +
                  Cardinality({a \in sel : a \in g.requires[b] /\ b \in g.before[a]})]

ordering_indegree(g, sel) ==
  [b \in sel |-> Cardinality({a \in sel : ordered_before(g, a, b)})]

pop_first(names) == CHOOSE n \in names : \A m \in names : n <= m

next_back(names) == CHOOSE n \in names : \A m \in names : m <= n

-----------------------------------------------------------------------------
(***************************************************************************)
(* The plans.                                                              *)
(***************************************************************************)

\* What the root pulls in, directly or not.
closure(g, root, what) ==
  LET grown[k \in 0 .. Cardinality(Names)] ==
        IF k = 0 THEN {root}
        ELSE grown[k - 1] \cup UNION {pulled(g, n, what) : n \in grown[k - 1]}
  IN  grown[Cardinality(Names)]

\* Some name that the plan needs is not in the registry.
missing(g, root, what) ==
  ~ (closure(g, root, what) \subseteq g.loaded)

\* The name placed after those of the sequence, if there is one: the first that
\* waits for nobody, or the last of all when cycles are relaxed.
NextPlaced(g, sel, placed, relax) ==
  LET left == sel \ {placed[i] : i \in 1 .. Len(placed)}
      free == {n \in left : \A a \in left : ~ ordered_before(g, a, n)}
  IN  IF free # {} THEN <<pop_first(free)>>
      ELSE IF relax /\ left # {} THEN <<next_back(left)>>
      ELSE <<>>

\* Shorter than sel is large when there is a cycle.
start_order(g, sel, relax) ==
  LET placed[k \in 0 .. Cardinality(Names)] ==
        IF k = 0 THEN <<>>
        ELSE placed[k - 1] \o NextPlaced(g, sel, placed[k - 1], relax)
  IN  placed[Cardinality(Names)]

cyclic(g, sel) == Len(start_order(g, sel, FALSE)) < Cardinality(sel)

=============================================================================
