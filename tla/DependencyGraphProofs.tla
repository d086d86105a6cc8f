------------------------ MODULE DependencyGraphProofs ------------------------
(***************************************************************************)
(* Proofs about DependencyGraph: for every finite set of names and every   *)
(* registry over it, the planner's worklists are exact between two turns   *)
(* of its loops, and its answer is the plan of Dependencies.               *)
(*                                                                         *)
(* The recursive functions of Dependencies are reasoned about with the     *)
(* least counterexample: a property of the numbers that fails somewhere    *)
(* fails somewhere first.                                                  *)
(***************************************************************************)
EXTENDS DependencyGraph, FiniteSetTheorems, SequenceTheorems, TLAPS

-----------------------------------------------------------------------------
(***************************************************************************)
(* The inductive invariant.                                                *)
(***************************************************************************)

BestEffort == goal = "plan_all_stop_best_effort"

\* The selected names that are not placed.
Left == selected \ Placed

\* The sequence that start_order grows by one name in each step.
Growing(g, sel, relax) ==
  CHOOSE placed : placed =
    [k \in 0 .. Cardinality(Names) |->
       IF k = 0 THEN <<>>
       ELSE placed[k - 1] \o NextPlaced(g, sel, placed[k - 1], relax)]

\* start_order goes through the sequence s.
Reached(s, g, sel, relax) == s = Growing(g, sel, relax)[Len(s)]

\* What the closure has taken and what it has still to look at.  A name that
\* some member requires is in the registry, or the call has failed.
ClosureInv ==
  /\ pc = "close" => /\ ready = {} /\ order = <<>> /\ culprits = {}
  /\ pc = "missing" =>
       /\ goal \notin AllGoals
       /\ \/ root \notin graph.loaded
          \/ \E n \in selected : ~ (required_dependencies(graph, n) \subseteq graph.loaded)
  /\ pc \in {"order", "done", "cycle"} => pending = {}
  /\ goal \in AllGoals => selected = graph.loaded /\ pending = {}
  /\ goal \notin AllGoals =>
       /\ root \in selected \cup pending
       /\ selected # {} => root \in graph.loaded
       /\ \A names \in SUBSET Names : IsClosed(names) => selected \cup pending \subseteq names
       /\ pc # "missing" =>
            /\ selected \cup pending \subseteq graph.loaded \cup {root}
            /\ \A n \in selected : /\ required_dependencies(graph, n) \subseteq graph.loaded
                                   /\ pulled(graph, n, goal) \subseteq selected \cup pending

\* No name is placed twice, and what is placed is what start_order places.
PlacedInv ==
  /\ Len(order) = Cardinality(Placed)
  /\ \A i, j \in 1 .. Len(order) : order[i] = order[j] => i = j
  /\ Reached(order, graph, selected, BestEffort)
  /\ ~ BestEffort =>
       /\ \A b \in Placed : \A a \in selected : ordered_before(graph, a, b) => a \in Placed
       /\ \A i, j \in 1 .. Len(order) : ordered_before(graph, order[i], order[j]) => i < j

\* The edges among the names that are left, how many lead into each, and the
\* names that none leads into.  A placed name has no degree, and in the
\* best-effort planner no edge.
EdgesInv ==
  /\ edges \in [selected -> SUBSET selected]
  /\ indegree \in [selected -> Nat]
  /\ \A a \in Left : edges[a] = {b \in Left : ordered_before(graph, a, b)}
  /\ \A b \in Left : indegree[b] = Cardinality({a \in Left : b \in edges[a]})
  /\ \A b \in Placed : indegree[b] = 0
  /\ BestEffort => \A a \in Placed : edges[a] = {}
  /\ ready = {b \in Left : indegree[b] = 0}

AnswerInv ==
  /\ pc \in {"done", "cycle"} => ready = {}
  /\ pc = "done" => Placed = selected
  /\ pc = "cycle" => ~ BestEffort /\ culprits = Left /\ Left # {}

PlannerIInv ==
  /\ TypeOK
  /\ ClosureInv
  /\ goal = "required_closure" => pc \notin {"order", "cycle"}
  /\ pc \in {"order", "done", "cycle"} /\ goal # "required_closure" =>
       PlacedInv /\ EdgesInv /\ AnswerInv

-----------------------------------------------------------------------------
(***************************************************************************)
(* Numbers, finite sets and iteration.                                     *)
(***************************************************************************)

(***************************************************************************)
(* A set of numbers has a least member, which pop_first takes.             *)
(***************************************************************************)
LEMMA PopFirst ==
  ASSUME NEW T \in SUBSET Nat, T # {}
  PROVE  pop_first(T) \in T /\ \A m \in T : pop_first(T) <= m
<1>1. IsWellFoundedOn(OpToRel(<, Nat), Nat)
  BY NatLessThanWellFounded
<1>2. PICK n \in T : \A m \in T : <<m, n>> \notin OpToRel(<, Nat)
  BY <1>1, WFMin
<1>3. \A m \in T : ~ (m < n)
  BY <1>2 DEF OpToRel
<1>4. \A m \in T : n <= m
  BY <1>3
<1> QED BY <1>4 DEF pop_first

(***************************************************************************)
(* Induction: what holds of zero and passes from a number to the next one  *)
(* holds of every number.                                                  *)
(***************************************************************************)
LEMMA InductiveSet ==
  ASSUME NEW T \in SUBSET Nat, 0 \in T, \A n \in T : n + 1 \in T
  PROVE  T = Nat
<1> SUFFICES ASSUME Nat \ T # {} PROVE FALSE
  OBVIOUS
<1> DEFINE n == pop_first(Nat \ T)
<1>1. n \in Nat \ T /\ \A m \in Nat \ T : n <= m
  BY PopFirst
<1> HIDE DEF n
<1>2. n # 0 /\ n - 1 \in Nat /\ n - 1 \in T
  BY <1>1
<1> QED BY <1>1, <1>2

(***************************************************************************)
(* A finite set of numbers has a greatest member, which next_back takes.   *)
(***************************************************************************)
LEMMA NextBack ==
  ASSUME NEW T \in SUBSET Nat, IsFiniteSet(T), T # {}
  PROVE  next_back(T) \in T /\ \A m \in T : m <= next_back(T)
<1> DEFINE HasLast(S) == \E n \in S : \A m \in S : m <= n
           Good == {c \in Nat : \A S \in SUBSET Nat :
                      IsFiniteSet(S) /\ Cardinality(S) = c /\ S # {} => HasLast(S)}
<1>1. 0 \in Good
  BY FS_EmptySet
<1>2. ASSUME NEW c \in Good PROVE c + 1 \in Good
  <2> SUFFICES ASSUME NEW S \in SUBSET Nat, IsFiniteSet(S), Cardinality(S) = c + 1
               PROVE  HasLast(S)
    OBVIOUS
  <2>1. PICK x \in S : TRUE
    <3>1. c \in Nat /\ c + 1 # 0
      OBVIOUS
    <3> QED BY <3>1, FS_EmptySet
  <2>2. IsFiniteSet(S \ {x}) /\ Cardinality(S \ {x}) = c
    <3>1. c \in Nat
      OBVIOUS
    <3>2. IsFiniteSet(S \ {x}) /\ Cardinality(S \ {x}) = Cardinality(S) - 1
      BY <2>1, FS_RemoveElement
    <3> QED BY <3>1, <3>2
  <2>3. CASE S \ {x} = {}
    BY <2>1, <2>3
  <2>4. CASE S \ {x} # {}
    <3>1. HasLast(S \ {x})
      BY <1>2, <2>2, <2>4
    <3>2. PICK y \in S \ {x} : \A m \in S \ {x} : m <= y
      BY <3>1
    <3>3. CASE x <= y
      BY <3>2, <3>3
    <3>4. CASE ~ (x <= y)
      BY <2>1, <3>2, <3>4
    <3> QED BY <3>3, <3>4
  <2> QED BY <2>3, <2>4
<1>3. Good = Nat
  <2> HIDE DEF Good
  <2> QED BY <1>1, <1>2, InductiveSet DEF Good
<1>4. HasLast(T)
  BY <1>3, FS_CardinalityType
<1> QED BY <1>4 DEF next_back

\* f is base, and what step makes of it when it is repeated up to N times.
Iterates(f, N, S, base, step) ==
  /\ f \in [0 .. N -> S]
  /\ f[0] = base
  /\ \A k \in 1 .. N : f[k] = step[f[k - 1]]

(***************************************************************************)
(* A step can be repeated any number of times.                             *)
(***************************************************************************)
LEMMA Iteration ==
  ASSUME NEW S, NEW base \in S, NEW step \in [S -> S], NEW N \in Nat
  PROVE  \E f : Iterates(f, N, S, base, step)
<1> USE DEF Iterates
<1> DEFINE Ok(n) == \E f : Iterates(f, n, S, base, step)
           Good == {n \in Nat : Ok(n)}
<1>1. 0 \in Good
  <2> DEFINE f == [k \in 0 .. 0 |-> base]
  <2>1. f \in [0 .. 0 -> S] /\ f[0] = base
    OBVIOUS
  <2>2. \A k \in 1 .. 0 : f[k] = step[f[k - 1]]
    OBVIOUS
  <2> HIDE DEF f
  <2>3. Ok(0)
    BY <2>1, <2>2
  <2> QED BY <2>3
<1>2. ASSUME NEW n \in Good PROVE n + 1 \in Good
  <2>1. PICK f : Iterates(f, n, S, base, step)
    BY <1>2
  <2> DEFINE h == [k \in 0 .. n + 1 |-> IF k = n + 1 THEN step[f[n]] ELSE f[k]]
  <2>2. h \in [0 .. n + 1 -> S]
    BY <2>1
  <2>3. h[0] = base
    BY <2>1
  <2>4. ASSUME NEW k \in 1 .. n + 1 PROVE h[k] = step[h[k - 1]]
    BY <2>1, <2>4
  <2> HIDE DEF h
  <2>5. Ok(n + 1)
    BY <2>2, <2>3, <2>4
  <2> QED BY <2>5
<1>3. Good = Nat
  <2> HIDE DEF Good
  <2> QED BY <1>1, <1>2, InductiveSet DEF Good
<1> QED BY <1>3

-----------------------------------------------------------------------------
(***************************************************************************)
(* The plans of Dependencies.                                              *)
(***************************************************************************)

\* The sets that closure goes through.
Grown(g, r, what) ==
  CHOOSE grown : grown =
    [k \in 0 .. Cardinality(Names) |->
       IF k = 0 THEN {r}
       ELSE grown[k - 1] \cup UNION {pulled(g, n, what) : n \in grown[k - 1]}]

\* names holds r and what its members pull in.
ClosedUnder(names, g, r, what) ==
  r \in names /\ \A n \in names : pulled(g, n, what) \subseteq names

(***************************************************************************)
(* There are finitely many names.                                          *)
(***************************************************************************)
LEMMA FiniteNames ==
  /\ Cardinality(Names) \in Nat
  /\ \A names \in SUBSET Names : /\ IsFiniteSet(names)
                                 /\ Cardinality(names) \in Nat
                                 /\ Cardinality(names) <= Cardinality(Names)
<1>1. Cardinality(Names) \in Nat
  BY NamesAssumption, FS_CardinalityType
<1>2. ASSUME NEW names \in SUBSET Names
      PROVE  /\ IsFiniteSet(names) /\ Cardinality(names) \in Nat
             /\ Cardinality(names) <= Cardinality(Names)
  BY NamesAssumption, FS_Subset, FS_CardinalityType
<1> QED BY <1>1, <1>2

(***************************************************************************)
(* What a name pulls in is a set of names.                                 *)
(***************************************************************************)
LEMMA PulledType ==
  ASSUME NEW g \in Graph, NEW n \in Names, NEW what
  PROVE  pulled(g, n, what) \subseteq Names
BY DEF Graph, Relation, pulled, required_dependencies, wanted_dependencies

(***************************************************************************)
(* The sets that closure goes through: what each pulls in is added to it.  *)
(***************************************************************************)
LEMMA GrownSteps ==
  ASSUME NEW g \in Graph, NEW r \in Names, NEW what
  PROVE  LET G == Grown(g, r, what) IN
         /\ closure(g, r, what) = G[Cardinality(Names)]
         /\ G[0] = {r}
         /\ \A k \in 0 .. Cardinality(Names) - 1 :
              G[k + 1] = G[k] \cup UNION {pulled(g, n, what) : n \in G[k]}
<1> DEFINE N == Cardinality(Names)
           step == [s \in SUBSET Names |-> s \cup UNION {pulled(g, n, what) : n \in s}]
           IsGrown(f) == f = [k \in 0 .. N |->
                                IF k = 0 THEN {r}
                                ELSE f[k - 1] \cup UNION {pulled(g, n, what) : n \in f[k - 1]}]
<1>1. closure(g, r, what) = Grown(g, r, what)[N]
  BY DEF closure, Grown
<1>2. N \in Nat
  BY FiniteNames
<1>3. step \in [SUBSET Names -> SUBSET Names]
  BY PulledType
<1>4. \A s \in SUBSET Names : step[s] = s \cup UNION {pulled(g, n, what) : n \in s}
  OBVIOUS
<1> HIDE DEF N, step
<1>5. PICK f : Iterates(f, N, SUBSET Names, {r}, step)
  <2> DEFINE S == SUBSET Names
             base == {r}
  <2>1. base \in S /\ step \in [S -> S]
    BY <1>3
  <2> HIDE DEF S, base
  <2>2. \E f : Iterates(f, N, S, base, step)
    BY <1>2, <2>1, Iteration
  <2> QED BY <2>2 DEF S, base
<1>6. \A k \in 0 .. N :
        f[k] = IF k = 0 THEN {r}
               ELSE f[k - 1] \cup UNION {pulled(g, n, what) : n \in f[k - 1]}
  <2> TAKE k \in 0 .. N
  <2>1. f[k] = IF k = 0 THEN {r} ELSE step[f[k - 1]]
    BY <1>2, <1>5 DEF Iterates
  <2>2. k # 0 => f[k - 1] \in SUBSET Names
    <3>1. k # 0 => k - 1 \in 0 .. N
      BY <1>2
    <3> QED BY <3>1, <1>5 DEF Iterates
  <2> QED BY <2>1, <2>2, <1>4
<1>7. IsGrown(f)
  BY <1>5, <1>6 DEF Iterates
<1>8. IsGrown(Grown(g, r, what))
  BY <1>7 DEF Grown, N
<1> DEFINE G == Grown(g, r, what)
<1> HIDE DEF G
<1>9. G = [k \in 0 .. N |->
             IF k = 0 THEN {r} ELSE G[k - 1] \cup UNION {pulled(g, n, what) : n \in G[k - 1]}]
  BY <1>8 DEF G
<1>10. G[0] = {r}
  BY <1>9, <1>2
<1>11. ASSUME NEW k \in 0 .. N - 1
       PROVE  G[k + 1] = G[k] \cup UNION {pulled(g, n, what) : n \in G[k]}
  <2>1. k + 1 \in 0 .. N /\ k + 1 # 0 /\ (k + 1) - 1 = k
    BY <1>2
  <2> QED BY <1>9, <2>1
<1> QED BY <1>1, <1>10, <1>11 DEF G, N

(***************************************************************************)
(* The closure is the least set of names that holds the root and what its  *)
(* members pull in: the sets on the way grow until one is closed, and      *)
(* there are only as many names as steps.                                  *)
(***************************************************************************)
LEMMA ClosureLeast ==
  ASSUME NEW g \in Graph, NEW r \in Names, NEW what
  PROVE  /\ closure(g, r, what) \subseteq Names
         /\ ClosedUnder(closure(g, r, what), g, r, what)
         /\ \A names : ClosedUnder(names, g, r, what) => closure(g, r, what) \subseteq names
<1> DEFINE N == Cardinality(Names)
           G == Grown(g, r, what)
           next(s) == s \cup UNION {pulled(g, n, what) : n \in s}
           Holds(k) == /\ G[k] \subseteq Names
                       /\ r \in G[k]
                       /\ \A names : ClosedUnder(names, g, r, what) => G[k] \subseteq names
                       /\ k < Cardinality(G[k]) \/ ClosedUnder(G[k], g, r, what)
           Good == {k \in Nat : k <= N => Holds(k)}
<1>1. N \in Nat /\ closure(g, r, what) = G[N] /\ G[0] = {r}
      /\ \A k \in 0 .. N - 1 : G[k + 1] = next(G[k])
  BY FiniteNames, GrownSteps
<1> HIDE DEF N, G
<1>2. 0 \in Good
  <2>1. Cardinality({r}) = 1
    BY FS_Singleton
  <2>2. Holds(0)
    BY <1>1, <2>1 DEF ClosedUnder
  <2> QED BY <2>2
<1>3. ASSUME NEW k \in Good PROVE k + 1 \in Good
  <2> SUFFICES ASSUME k + 1 <= N PROVE Holds(k + 1)
    OBVIOUS
  <2>1. k \in 0 .. N - 1 /\ Holds(k)
    BY <1>1
  <2>2. G[k + 1] = next(G[k])
    BY <1>1, <2>1
  <2>3. G[k] \subseteq G[k + 1] /\ G[k + 1] \subseteq Names
    BY <2>1, <2>2, PulledType
  <2>4. \A names : ClosedUnder(names, g, r, what) => G[k + 1] \subseteq names
    BY <2>1, <2>2 DEF ClosedUnder
  <2>5. k + 1 < Cardinality(G[k + 1]) \/ ClosedUnder(G[k + 1], g, r, what)
    <3>1. CASE ClosedUnder(G[k], g, r, what)
      <4>1. G[k + 1] = G[k]
        BY <3>1, <2>2 DEF ClosedUnder
      <4> QED BY <3>1, <4>1
    <3>2. CASE ~ ClosedUnder(G[k], g, r, what)
      <4>1. G[k + 1] # G[k]
        BY <3>2, <2>1, <2>2 DEF ClosedUnder
      <4>2. IsFiniteSet(G[k + 1]) /\ Cardinality(G[k + 1]) \in Nat /\ Cardinality(G[k]) \in Nat
        BY <2>1, <2>3, FiniteNames
      <4>3. Cardinality(G[k]) < Cardinality(G[k + 1])
        BY <4>1, <4>2, <2>3, FS_Subset
      <4>4. k < Cardinality(G[k])
        BY <3>2, <2>1
      <4> QED BY <4>2, <4>3, <4>4, <2>1
    <3> QED BY <3>1, <3>2
  <2> QED BY <2>1, <2>3, <2>4, <2>5
<1>4. Good = Nat
  <2> HIDE DEF Good
  <2> QED BY <1>2, <1>3, InductiveSet DEF Good
<1>5. Holds(N)
  BY <1>1, <1>4
<1>6. Cardinality(G[N]) \in Nat /\ Cardinality(G[N]) <= N
  BY <1>5, FiniteNames DEF N
<1>7. ClosedUnder(G[N], g, r, what)
  BY <1>1, <1>5, <1>6
<1> QED BY <1>1, <1>5, <1>7

(***************************************************************************)
(* start_order places one selected name at a time.                         *)
(***************************************************************************)
LEMMA NextPlacedType ==
  ASSUME NEW g, NEW sel \in SUBSET Names, NEW placed, NEW relax
  PROVE  NextPlaced(g, sel, placed, relax) \in Seq(sel)
<1> DEFINE left == sel \ {placed[i] : i \in 1 .. Len(placed)}
           free == {n \in left : \A a \in left : ~ ordered_before(g, a, n)}
<1>1. NextPlaced(g, sel, placed, relax) =
        IF free # {} THEN <<pop_first(free)>>
        ELSE IF relax /\ left # {} THEN <<next_back(left)>> ELSE <<>>
  BY DEF NextPlaced
<1>2. left \in SUBSET Nat /\ IsFiniteSet(left) /\ free \in SUBSET Nat
      /\ left \subseteq sel /\ free \subseteq sel
  BY FiniteNames, NamesAssumption
<1> HIDE DEF left, free
<1>3. free # {} => pop_first(free) \in sel
  BY <1>2, PopFirst
<1>4. left # {} => next_back(left) \in sel
  BY <1>2, NextBack
<1> QED BY <1>1, <1>3, <1>4

(***************************************************************************)
(* The sequences that start_order goes through.                            *)
(***************************************************************************)
LEMMA GrowingSteps ==
  ASSUME NEW g, NEW sel \in SUBSET Names, NEW relax
  PROVE  /\ start_order(g, sel, relax) = Growing(g, sel, relax)[Cardinality(Names)]
         /\ Growing(g, sel, relax)[0] = <<>>
         /\ \A k \in 0 .. Cardinality(Names) - 1 :
              Growing(g, sel, relax)[k + 1] =
                Growing(g, sel, relax)[k] \o NextPlaced(g, sel, Growing(g, sel, relax)[k], relax)
<1> DEFINE N == Cardinality(Names)
           step == [s \in Seq(sel) |-> s \o NextPlaced(g, sel, s, relax)]
           IsGrowing(f) == f = [k \in 0 .. N |->
                                  IF k = 0 THEN <<>>
                                  ELSE f[k - 1] \o NextPlaced(g, sel, f[k - 1], relax)]
<1>1. start_order(g, sel, relax) = Growing(g, sel, relax)[N]
  BY DEF start_order, Growing
<1>2. N \in Nat
  BY FiniteNames
<1>3. step \in [Seq(sel) -> Seq(sel)]
  <2>1. \A s \in Seq(sel) : NextPlaced(g, sel, s, relax) \in Seq(sel)
    BY NextPlacedType
  <2>2. \A s \in Seq(sel) : s \o NextPlaced(g, sel, s, relax) \in Seq(sel)
    BY <2>1
  <2> QED BY <2>2
<1>4. \A s \in Seq(sel) : step[s] = s \o NextPlaced(g, sel, s, relax)
  OBVIOUS
<1>5. <<>> \in Seq(sel)
  OBVIOUS
<1> HIDE DEF N, step
<1>6. PICK f : Iterates(f, N, Seq(sel), <<>>, step)
  <2> DEFINE S == Seq(sel)
             base == <<>>
  <2>1. base \in S /\ step \in [S -> S]
    BY <1>3, <1>5
  <2> HIDE DEF S, base
  <2>2. \E f : Iterates(f, N, S, base, step)
    BY <1>2, <2>1, Iteration
  <2> QED BY <2>2 DEF S, base
<1>7. \A k \in 0 .. N :
        f[k] = IF k = 0 THEN <<>> ELSE f[k - 1] \o NextPlaced(g, sel, f[k - 1], relax)
  <2> TAKE k \in 0 .. N
  <2>1. f[k] = IF k = 0 THEN <<>> ELSE step[f[k - 1]]
    BY <1>2, <1>6 DEF Iterates
  <2>2. k # 0 => f[k - 1] \in Seq(sel)
    <3>1. k # 0 => k - 1 \in 0 .. N
      BY <1>2
    <3> QED BY <3>1, <1>6 DEF Iterates
  <2> QED BY <2>1, <2>2, <1>4
<1>8. IsGrowing(f)
  BY <1>6, <1>7 DEF Iterates
<1>9. IsGrowing(Growing(g, sel, relax))
  BY <1>8 DEF Growing, N
<1> DEFINE R == Growing(g, sel, relax)
<1> HIDE DEF R
<1>10. R = [k \in 0 .. N |->
              IF k = 0 THEN <<>> ELSE R[k - 1] \o NextPlaced(g, sel, R[k - 1], relax)]
  BY <1>9 DEF R
<1>11. R[0] = <<>>
  BY <1>10, <1>2
<1>12. ASSUME NEW k \in 0 .. N - 1
       PROVE  R[k + 1] = R[k] \o NextPlaced(g, sel, R[k], relax)
  <2>1. k + 1 \in 0 .. N /\ k + 1 # 0 /\ (k + 1) - 1 = k
    BY <1>2
  <2> QED BY <1>10, <2>1
<1> QED BY <1>1, <1>11, <1>12 DEF R, N

(***************************************************************************)
(* Placing the next name of start_order leads to its next sequence.        *)
(***************************************************************************)
LEMMA GrowingNext ==
  ASSUME NEW g, NEW sel \in SUBSET Names, NEW relax, NEW s \in Seq(sel), NEW n \in sel,
         Len(s) < Cardinality(Names),
         Reached(s, g, sel, relax),
         NextPlaced(g, sel, s, relax) = <<n>>
  PROVE  Reached(Append(s, n), g, sel, relax)
<1> DEFINE R == Growing(g, sel, relax)
           N == Cardinality(Names)
<1>1. \A k \in 0 .. N - 1 : R[k + 1] = R[k] \o NextPlaced(g, sel, R[k], relax)
  BY GrowingSteps
<1>2. N \in Nat /\ Len(s) \in 0 .. N - 1 /\ R[Len(s)] = s
  BY FiniteNames DEF Reached
<1> HIDE DEF R, N
<1>3. R[Len(s) + 1] = s \o <<n>>
  BY <1>1, <1>2
<1> QED BY <1>3, AppendIsConcat DEF R, Reached

(***************************************************************************)
(* When start_order has no next name to place, it has its result.          *)
(***************************************************************************)
LEMMA GrowingEnds ==
  ASSUME NEW g, NEW sel \in SUBSET Names, NEW relax, NEW s \in Seq(sel),
         Len(s) <= Cardinality(Names),
         Reached(s, g, sel, relax),
         NextPlaced(g, sel, s, relax) = <<>>
  PROVE  start_order(g, sel, relax) = s
<1> DEFINE N == Cardinality(Names)
           R == Growing(g, sel, relax)
           m == Len(s)
           Good == {d \in Nat : m + d <= N => R[m + d] = R[m]}
<1>1. N \in Nat
  BY FiniteNames
<1>2. /\ start_order(g, sel, relax) = R[N]
      /\ \A k \in 0 .. N - 1 : R[k + 1] = R[k] \o NextPlaced(g, sel, R[k], relax)
  BY GrowingSteps
<1>3. R[m] = s /\ NextPlaced(g, sel, R[m], relax) = <<>> /\ m \in 0 .. N
  BY <1>1 DEF Reached
<1> HIDE DEF N, R, m
<1>4. 0 \in Good
  BY <1>3
<1>5. ASSUME NEW d \in Good PROVE d + 1 \in Good
  <2> SUFFICES ASSUME m + (d + 1) <= N PROVE R[m + (d + 1)] = R[m]
    OBVIOUS
  <2>1. m + d \in 0 .. N - 1 /\ m + (d + 1) = (m + d) + 1
    BY <1>1, <1>3
  <2>2. R[m + d] = R[m]
    BY <1>1, <2>1
  <2>3. R[m + (d + 1)] = R[m] \o <<>>
    BY <1>2, <1>3, <2>1, <2>2
  <2> QED BY <1>3, <2>3, ConcatEmptySeq
<1>6. Good = Nat
  <2> HIDE DEF Good
  <2> QED BY <1>4, <1>5, InductiveSet DEF Good
<1>7. N - m \in Nat /\ m + (N - m) = N
  BY <1>1, <1>3
<1>8. \A d \in Nat : m + d <= N => R[m + d] = R[m]
  BY <1>6
<1>9. R[N] = R[m]
  BY <1>1, <1>7, <1>8
<1> QED BY <1>2, <1>3, <1>9

-----------------------------------------------------------------------------
(***************************************************************************)
(* The invariant is inductive.                                             *)
(***************************************************************************)

(***************************************************************************)
(* A call begins with its root, or with the whole registry.                *)
(***************************************************************************)
LEMMA InitInv == Init => PlannerIInv
<1> SUFFICES ASSUME Init PROVE PlannerIInv
  OBVIOUS
<1>1. graph \in Graph /\ MountsLoaded(graph) /\ graph.loaded \subseteq Names
  BY GraphsAssumption DEF Init, Graph
<1>2. TypeOK
  BY <1>1 DEF Init, TypeOK
<1>3. ClosureInv
  BY <1>1 DEF Init, ClosureInv, IsClosed, AllGoals
<1> QED BY <1>2, <1>3 DEF Init, PlannerIInv

(***************************************************************************)
(* The closure's loop keeps to what the root pulls in.                     *)
(***************************************************************************)
LEMMA CloseInv ==
  ASSUME PlannerIInv, NEW n \in pending, Close(n)
  PROVE  PlannerIInv'
<1>1. /\ pc = "close" /\ goal \notin AllGoals /\ root \in graph.loaded
      /\ UNCHANGED <<graph, goal, root, edges, indegree, ready, order, culprits>>
      /\ TypeOK /\ ClosureInv
  BY DEF PlannerIInv, ClosureInv, Close
<1>2. /\ n \in Names /\ pulled(graph, n, goal) \subseteq Names
      /\ n \in graph.loaded
      /\ graph.loaded \subseteq Names
  BY <1>1, PulledType DEF TypeOK, ClosureInv, Graph
<1>3. required_dependencies(graph, n) \subseteq pulled(graph, n, goal)
      /\ pulled(graph, n, goal) \subseteq required_dependencies(graph, n) \cup graph.loaded
  BY DEF pulled
<1>4. CASE n \in selected
  <2>1. pending' = pending \ {n} /\ UNCHANGED <<pc, selected>>
    BY <1>4 DEF Close
  <2>2. TypeOK'
    BY <1>1, <2>1 DEF TypeOK
  <2>3. ClosureInv'
    BY <1>1, <1>4, <2>1 DEF ClosureInv, IsClosed
  <2> QED BY <1>1, <2>1, <2>2, <2>3 DEF PlannerIInv
<1>5. CASE n \notin selected /\ required_dependencies(graph, n) \subseteq graph.loaded
  <2>1. /\ selected' = selected \cup {n}
        /\ pending' = (pending \ {n}) \cup pulled(graph, n, goal) /\ pc' = pc
    BY <1>5 DEF Close
  <2>2. TypeOK'
    BY <1>1, <1>2, <2>1 DEF TypeOK, ClosureInv
  <2>3. \A names \in SUBSET Names : IsClosed(names)' => selected' \cup pending' \subseteq names
    <3> SUFFICES ASSUME NEW names \in SUBSET Names, IsClosed(names)
                 PROVE  selected' \cup pending' \subseteq names
      BY <1>1 DEF IsClosed
    <3>1. selected \cup pending \subseteq names
      BY <1>1 DEF ClosureInv
    <3>2. pulled(graph, n, goal) \subseteq names
      BY <3>1 DEF IsClosed
    <3> QED BY <2>1, <3>1, <3>2
  <2>4. /\ selected' \cup pending' \subseteq graph.loaded \cup {root}
        /\ root \in selected' \cup pending'
    BY <1>1, <1>2, <1>3, <1>5, <2>1 DEF ClosureInv
  <2>5. \A m \in selected' : /\ required_dependencies(graph, m) \subseteq graph.loaded
                             /\ pulled(graph, m, goal) \subseteq selected' \cup pending'
    BY <1>1, <1>5, <2>1 DEF ClosureInv
  <2>6. ClosureInv'
    BY <1>1, <2>1, <2>3, <2>4, <2>5 DEF ClosureInv
  <2> QED BY <1>1, <2>1, <2>2, <2>6 DEF PlannerIInv
<1>6. CASE n \notin selected /\ ~ (required_dependencies(graph, n) \subseteq graph.loaded)
  <2>1. selected' = selected \cup {n} /\ pending' = pending /\ pc' = "missing"
    BY <1>6 DEF Close
  <2>2. TypeOK'
    BY <1>1, <1>2, <2>1 DEF TypeOK, ClosureInv
  <2>3. ClosureInv'
    BY <1>1, <1>6, <2>1 DEF ClosureInv, IsClosed
  <2> QED BY <1>1, <2>1, <2>2, <2>3 DEF PlannerIInv
<1> QED BY <1>4, <1>5, <1>6

(***************************************************************************)
(* A root that is not in the registry is reported.                         *)
(***************************************************************************)
LEMMA MissingRootInv ==
  ASSUME PlannerIInv, MissingRoot
  PROVE  PlannerIInv'
<1>1. TypeOK'
  BY DEF PlannerIInv, TypeOK, MissingRoot
<1>2. ClosureInv'
  BY DEF PlannerIInv, ClosureInv, IsClosed, MissingRoot
<1> QED BY <1>1, <1>2 DEF PlannerIInv, MissingRoot

(***************************************************************************)
(* The ordering graph is built over the complete closure.                  *)
(***************************************************************************)
LEMMA ClosedInv ==
  ASSUME PlannerIInv, Closed
  PROVE  PlannerIInv'
<1>1. /\ pc = "close" /\ pending = {} /\ TypeOK /\ ClosureInv
      /\ UNCHANGED <<graph, goal, root, selected, pending, order, culprits>>
      /\ order = <<>> /\ ready = {} /\ culprits = {}
  BY DEF PlannerIInv, ClosureInv, Closed
<1>2. ASSUME NEW names \in SUBSET Names
      PROVE  IsClosed(names)' <=> IsClosed(names)
  BY <1>1 DEF IsClosed
<1>3. pc' \in {"order", "done"} => ClosureInv'
  BY <1>1, <1>2 DEF ClosureInv
<1>4. CASE goal = "required_closure"
  <2>1. pc' = "done" /\ UNCHANGED <<edges, indegree, ready>>
    BY <1>4 DEF Closed
  <2> QED BY <1>1, <1>3, <1>4, <2>1 DEF PlannerIInv, TypeOK
<1>5. CASE goal # "required_closure"
  <2>1. /\ pc' = "order"
        /\ edges' = ordering_edges(graph, selected)
        /\ indegree' = ordering_indegree(graph, selected)
        /\ ready' = {n \in selected : indegree'[n] = 0}
    BY <1>5 DEF Closed
  <2>2. Placed' = {} /\ Left' = selected /\ Len(order') = 0 /\ order' = <<>>
    BY <1>1 DEF Placed, Left
  <2>3. /\ edges' \in [selected -> SUBSET selected]
        /\ \A a \in selected : edges'[a] = {b \in selected : ordered_before(graph, a, b)}
    BY <2>1 DEF ordering_edges
  <2>4. ASSUME NEW b \in selected
        PROVE  /\ indegree'[b] = Cardinality({a \in selected : b \in edges'[a]})
               /\ Cardinality({a \in selected : ordered_before(graph, a, b)}) \in Nat
    <3>1. {a \in selected : b \in edges'[a]} = {a \in selected : ordered_before(graph, a, b)}
      BY <2>3
    <3>2. {a \in selected : ordered_before(graph, a, b)} \in SUBSET Names
      BY <1>1 DEF TypeOK
    <3> QED BY <2>1, <3>1, <3>2, FiniteNames DEF ordering_indegree
  <2>5. indegree' \in [selected -> Nat]
    BY <2>1, <2>4 DEF ordering_indegree
  <2>6. EdgesInv'
    BY <1>1, <2>1, <2>2, <2>3, <2>4, <2>5 DEF EdgesInv, BestEffort
  <2>7. PlacedInv'
    <3>1. Growing(graph, selected, BestEffort)[0] = <<>>
      BY <1>1, GrowingSteps DEF TypeOK
    <3>2. Cardinality({}) = 0
      BY FS_EmptySet
    <3>3. BestEffort' = BestEffort
      BY <1>1 DEF BestEffort
    <3> QED BY <1>1, <2>2, <3>1, <3>2, <3>3 DEF PlacedInv, Reached
  <2>8. TypeOK'
    BY <1>1, <2>1, <2>3, <2>5 DEF TypeOK
  <2>9. AnswerInv'
    BY <2>1 DEF AnswerInv
  <2> QED BY <1>1, <1>3, <1>5, <2>1, <2>6, <2>7, <2>8, <2>9 DEF PlannerIInv
<1> QED BY <1>4, <1>5

(***************************************************************************)
(* Placing a name that nothing left is in front of, or that the edges have *)
(* been taken from, leaves exact edges and degrees among the others.       *)
(***************************************************************************)
LEMMA PlaceInv ==
  ASSUME PlannerIInv, pc = "order",
         UNCHANGED <<graph, goal, root, pc, selected, pending, culprits>>,
         NEW n \in Left,
         NEW deps \in [selected -> SUBSET selected],
         NEW degrees \in [selected -> Nat],
         NEW candidates \in SUBSET selected,
         \A a \in Left : deps[a] = {b \in Left \ {n} : ordered_before(graph, a, b)},
         \A b \in Left \ {n} : degrees[b] = Cardinality({a \in Left : b \in deps[a]}),
         \A b \in Placed \cup {n} : degrees[b] = 0,
         candidates \ {n} = {b \in Left \ {n} : degrees[b] = 0},
         BestEffort => \A a \in Placed : deps[a] = {},
         ~ BestEffort => \A a \in Left : ~ ordered_before(graph, a, n),
         NextPlaced(graph, selected, order, BestEffort) = <<n>>,
         Place(n, deps, degrees, candidates)
  PROVE  PlannerIInv'
<1>1. /\ TypeOK /\ ClosureInv /\ PlacedInv /\ goal # "required_closure"
      /\ order \in Seq(selected) /\ selected \subseteq Names /\ n \in selected
  BY DEF PlannerIInv, TypeOK, Left
<1> DEFINE lowered == [d \in selected |-> IF d \in deps[n] THEN degrees[d] - 1 ELSE degrees[d]]
<1>2. /\ order' = Append(order, n)
      /\ indegree' = lowered
      /\ ready' = (candidates \ {n}) \cup {d \in deps[n] : lowered[d] = 0}
      /\ edges' = IF BestEffort THEN [deps EXCEPT ![n] = {}] ELSE deps
  BY DEF Place, BestEffort
<1>3. /\ order' \in Seq(selected) /\ Len(order) \in Nat /\ Len(order') = Len(order) + 1
      /\ \A i \in 1 .. Len(order) : order'[i] = order[i] /\ order[i] \in Placed
      /\ order'[Len(order) + 1] = n
  BY <1>1, <1>2 DEF Placed
<1>4. Placed' = Placed \cup {n} /\ n \notin Placed /\ Left' = Left \ {n}
  <2>1. n \notin Placed
    BY DEF Left
  <2>2. Placed' \subseteq Placed \cup {n}
    BY <1>3 DEF Placed
  <2>3. Placed \cup {n} \subseteq Placed'
    <3>1. \A i \in 1 .. Len(order) : i \in 1 .. Len(order')
      BY <1>3
    <3>2. Placed \subseteq Placed'
      BY <1>3, <3>1 DEF Placed
    <3>3. n \in Placed'
      BY <1>3 DEF Placed
    <3> QED BY <3>2, <3>3
  <2> QED BY <2>1, <2>2, <2>3 DEF Left
<1>5. Placed \subseteq selected
  BY <1>1 DEF Placed
<1>6. BestEffort' = BestEffort
  BY DEF BestEffort
<1>7. ASSUME NEW b \in Left \ {n}
      PROVE  /\ lowered[b] = Cardinality({a \in Left \ {n} : b \in deps[a]})
             /\ lowered[b] \in Nat
             /\ b \in deps[n] \/ lowered[b] = degrees[b]
             /\ degrees[b] = 0 => b \notin deps[n]
  <2> DEFINE P == {a \in Left : b \in deps[a]}
             Q == {a \in Left \ {n} : b \in deps[a]}
  <2>1. IsFiniteSet(P) /\ Cardinality(P) \in Nat /\ Cardinality(Q) \in Nat
    <3>1. P \in SUBSET Names /\ Q \in SUBSET Names
      BY <1>1 DEF Left
    <3> QED BY <3>1, FiniteNames
  <2>2. degrees[b] = Cardinality(P) /\ b \in selected
    BY DEF Left
  <2>3. CASE b \in deps[n]
    <3>1. n \in P /\ Q = P \ {n}
      BY <2>3
    <3> HIDE DEF P, Q
    <3>2. Cardinality(Q) = Cardinality(P) - 1
      BY <2>1, <3>1, FS_RemoveElement
    <3> QED BY <2>1, <2>2, <2>3, <3>2 DEF Q
  <2>4. CASE b \notin deps[n]
    <3>1. Q = P
      BY <2>4
    <3> QED BY <2>1, <2>2, <2>4, <3>1
  <2> QED BY <2>3, <2>4
<1>8. deps[n] \subseteq Left \ {n}
  OBVIOUS
<1>9. \A b \in Placed \cup {n} : lowered[b] = 0
  BY <1>1, <1>5, <1>8 DEF Left
<1>10. indegree' \in [selected -> Nat]
  <2>1. ASSUME NEW b \in selected PROVE lowered[b] \in Nat
    BY <1>7, <1>9 DEF Left
  <2> HIDE DEF lowered
  <2>2. lowered = [b \in selected |-> lowered[b]]
    BY DEF lowered
  <2> QED BY <1>2, <2>1, <2>2
<1>11. edges' \in [selected -> SUBSET selected]
  BY <1>1, <1>2
<1>12. \A a \in Left \ {n} : edges'[a] = deps[a]
  BY <1>2 DEF Left
<1>13. ready' = {b \in Left \ {n} : lowered[b] = 0}
  <2> HIDE DEF lowered
  <2> QED BY <1>2, <1>7, <1>8
<1>14. EdgesInv'
  <2>1. \A a \in Left' : edges'[a] = {b \in Left' : ordered_before(graph', a, b)}
    BY <1>4, <1>12
  <2>2. ASSUME NEW b \in Left'
        PROVE  indegree'[b] = Cardinality({a \in Left' : b \in edges'[a]})
    <3>1. {a \in Left' : b \in edges'[a]} = {a \in Left \ {n} : b \in deps[a]}
      BY <1>4, <1>12
    <3> QED BY <1>2, <1>4, <1>7, <3>1
  <2>3. BestEffort' => \A a \in Placed' : edges'[a] = {}
    BY <1>2, <1>4, <1>5, <1>6 DEF Left
  <2>4. ready' = {b \in Left' : indegree'[b] = 0}
    BY <1>2, <1>4, <1>13
  <2>5. \A b \in Placed' : indegree'[b] = 0
    BY <1>2, <1>4, <1>9
  <2> QED BY <1>10, <1>11, <2>1, <2>2, <2>3, <2>4, <2>5 DEF EdgesInv
<1>15. PlacedInv'
  <2>1. /\ Len(order) = Cardinality(Placed)
        /\ \A i, j \in 1 .. Len(order) : order[i] = order[j] => i = j
        /\ Reached(order, graph, selected, BestEffort)
    BY <1>1 DEF PlacedInv
  <2>2. IsFiniteSet(Placed) /\ Placed' \in SUBSET Names
    BY <1>1, <1>4, <1>5, FiniteNames
  <2>3. Cardinality(Placed') = Cardinality(Placed) + 1
    BY <1>4, <2>2, FS_AddElement
  <2>4. Cardinality(Placed') <= Cardinality(Names) /\ Cardinality(Names) \in Nat
    BY <2>2, FiniteNames
  <2>5. \A i, j \in 1 .. Len(order') : order'[i] = order'[j] => i = j
    BY <1>3, <1>4, <2>1
  <2>6. Len(order) < Cardinality(Names)
    BY <1>3, <2>1, <2>3, <2>4
  <2>7. Reached(order', graph, selected, BestEffort)
    <3>1. selected \in SUBSET Names
      BY <1>1
    <3> QED BY <1>1, <1>2, <2>1, <2>6, <3>1, GrowingNext
  <2>8. ASSUME ~ BestEffort
        PROVE  /\ \A b \in Placed' : \A a \in selected : ordered_before(graph, a, b) => a \in Placed'
               /\ \A i, j \in 1 .. Len(order') : ordered_before(graph, order'[i], order'[j]) => i < j
    <3>1. /\ \A b \in Placed : \A a \in selected : ordered_before(graph, a, b) => a \in Placed
          /\ \A i, j \in 1 .. Len(order) : ordered_before(graph, order[i], order[j]) => i < j
          /\ \A a \in Left : ~ ordered_before(graph, a, n)
      BY <1>1, <2>8 DEF PlacedInv
    <3>2. \A b \in Placed' : \A a \in selected : ordered_before(graph, a, b) => a \in Placed'
      BY <1>4, <3>1 DEF Left
    <3>3. ASSUME NEW i \in 1 .. Len(order'), NEW j \in 1 .. Len(order'),
                 ordered_before(graph, order'[i], order'[j])
          PROVE  i < j
      <4>1. CASE j = Len(order) + 1
        <5>1. i # Len(order) + 1
          BY <1>3, <3>1, <3>3, <4>1
        <5> QED BY <1>3, <4>1, <5>1
      <4>2. CASE j \in 1 .. Len(order)
        <5>1. order'[j] = order[j] /\ order[j] \in Placed
          BY <1>3, <4>2
        <5>2. i # Len(order) + 1
          BY <1>1, <1>3, <1>4, <3>1, <3>3, <5>1
        <5>3. i \in 1 .. Len(order)
          BY <1>3, <5>2
        <5> QED BY <1>3, <3>1, <3>3, <4>2, <5>3
      <4> QED BY <1>3, <4>1, <4>2
    <3> QED BY <3>2, <3>3
  <2> QED BY <1>3, <1>6, <2>1, <2>3, <2>5, <2>7, <2>8 DEF PlacedInv
<1>16. TypeOK'
  <2>1. ready' \subseteq selected
    BY <1>13 DEF Left
  <2> QED BY <1>1, <1>3, <1>10, <1>11, <2>1 DEF TypeOK
<1>17. ClosureInv'
  BY <1>1 DEF ClosureInv, IsClosed
<1> QED BY <1>14, <1>15, <1>16, <1>17 DEF PlannerIInv, AnswerInv

(***************************************************************************)
(* What the loop places is what start_order places next: the free names    *)
(* are the ready ones.                                                     *)
(***************************************************************************)
LEMMA FreeIsReady ==
  ASSUME PlannerIInv, pc \in {"order", "done", "cycle"}, goal # "required_closure"
  PROVE  /\ ready = {n \in Left : \A a \in Left : ~ ordered_before(graph, a, n)}
         /\ NextPlaced(graph, selected, order, BestEffort) =
              IF ready # {} THEN <<pop_first(ready)>>
              ELSE IF BestEffort /\ Left # {} THEN <<next_back(Left)>> ELSE <<>>
<1>1. EdgesInv /\ TypeOK
  BY DEF PlannerIInv
<1>2. ASSUME NEW b \in Left
      PROVE  indegree[b] = 0 <=> \A a \in Left : ~ ordered_before(graph, a, b)
  <2> DEFINE P == {a \in Left : b \in edges[a]}
  <2>1. P = {a \in Left : ordered_before(graph, a, b)}
    BY <1>1 DEF EdgesInv
  <2>2. P \in SUBSET Names
    BY <1>1 DEF TypeOK, Left
  <2>3. indegree[b] = Cardinality(P)
    BY <1>1 DEF EdgesInv
  <2> HIDE DEF P
  <2>4. Cardinality(P) = 0 <=> P = {}
    BY <2>2, FiniteNames, FS_EmptySet
  <2> QED BY <2>1, <2>3, <2>4
<1>3. ready = {n \in Left : \A a \in Left : ~ ordered_before(graph, a, n)}
  BY <1>1, <1>2 DEF EdgesInv
<1> QED BY <1>3 DEF NextPlaced, Left, Placed

(***************************************************************************)
(* The first ready name is placed.                                         *)
(***************************************************************************)
LEMMA PlaceReadyInv ==
  ASSUME PlannerIInv, PlaceReady
  PROVE  PlannerIInv'
<1> DEFINE n == pop_first(ready)
<1>1. /\ pc = "order" /\ ready # {} /\ Place(n, edges, indegree, ready)
      /\ UNCHANGED <<graph, goal, root, pc, selected, pending, culprits>>
  BY DEF PlaceReady
<1>2. TypeOK /\ EdgesInv /\ goal # "required_closure"
  BY <1>1 DEF PlannerIInv
<1>3. ready \in SUBSET Nat /\ ready \subseteq Left /\ ready \in SUBSET selected
  BY <1>2, NamesAssumption DEF TypeOK, EdgesInv
<1>4. n \in ready
  BY <1>1, <1>3, PopFirst
<1>5. NextPlaced(graph, selected, order, BestEffort) = <<n>>
  BY <1>1, <1>2, FreeIsReady
<1>6. \A a \in Left : ~ ordered_before(graph, a, n)
  BY <1>1, <1>2, <1>4, FreeIsReady
<1> HIDE DEF n
<1>7. n \in Left /\ indegree[n] = 0
  BY <1>2, <1>4 DEF EdgesInv
<1>8. /\ edges \in [selected -> SUBSET selected]
      /\ indegree \in [selected -> Nat]
      /\ \A b \in Left \ {n} : indegree[b] = Cardinality({a \in Left : b \in edges[a]})
      /\ \A b \in Placed \cup {n} : indegree[b] = 0
      /\ BestEffort => \A a \in Placed : edges[a] = {}
  BY <1>2, <1>7 DEF EdgesInv
<1>9. \A a \in Left : edges[a] = {b \in Left \ {n} : ordered_before(graph, a, b)}
  BY <1>2, <1>6 DEF EdgesInv
<1>10. ready \ {n} = {b \in Left \ {n} : indegree[b] = 0}
  BY <1>2 DEF EdgesInv
<1> QED BY <1>1, <1>3, <1>5, <1>6, <1>7, <1>8, <1>9, <1>10, PlaceInv

(***************************************************************************)
(* The best-effort planner frees the last name that is left: it is left    *)
(* because a placed name has no degree, and nothing leads into it any more *)
(* because placed names have no edges.                                     *)
(***************************************************************************)
LEMMA BreakCycleInv ==
  ASSUME PlannerIInv, BreakCycle
  PROVE  PlannerIInv'
<1> DEFINE n == CycleEndpoint
           deps == [a \in selected |-> edges[a] \ {n}]
           into == {a \in selected : n \in edges[a]}
           degrees == [indegree EXCEPT ![n] = @ - Cardinality(into)]
<1>1. /\ pc = "order" /\ BestEffort /\ ready = {} /\ Len(order) < Cardinality(selected)
      /\ Place(n, deps, degrees, {})
      /\ UNCHANGED <<graph, goal, root, pc, selected, pending, culprits>>
  BY DEF BreakCycle, Stuck, BestEffort
<1>2. TypeOK /\ EdgesInv /\ PlacedInv /\ goal # "required_closure"
  BY <1>1 DEF PlannerIInv
<1>3. Placed \subseteq selected
  BY <1>2 DEF TypeOK, Placed
<1>4. Left # {}
  <2>1. Placed # selected
    BY <1>1, <1>2 DEF PlacedInv
  <2> QED BY <1>3, <2>1 DEF Left
<1>5. {b \in selected : indegree[b] > 0} = Left
  <2>1. ASSUME NEW b \in selected PROVE indegree[b] > 0 <=> b \in Left
    <3>1. indegree[b] \in Nat
      BY <1>2 DEF EdgesInv
    <3>2. b \in Left => indegree[b] # 0
      BY <1>1, <1>2 DEF EdgesInv
    <3>3. b \notin Left => indegree[b] = 0
      BY <1>2 DEF EdgesInv, Left
    <3> QED BY <3>1, <3>2, <3>3
  <2> QED BY <2>1 DEF Left
<1>6. n = next_back(Left)
  BY <1>5 DEF CycleEndpoint
<1>7. Left \in SUBSET Nat /\ IsFiniteSet(Left)
  BY <1>2, NamesAssumption, FiniteNames DEF TypeOK, Left
<1>8. n \in Left
  BY <1>4, <1>6, <1>7, NextBack
<1>9. NextPlaced(graph, selected, order, BestEffort) = <<n>>
  BY <1>1, <1>2, <1>4, <1>6, FreeIsReady
<1> HIDE DEF n
<1>10. indegree[n] = Cardinality(into)
  <2>1. into = {a \in Left : n \in edges[a]}
    BY <1>1, <1>2 DEF EdgesInv, Left
  <2> QED BY <1>2, <1>8, <2>1 DEF EdgesInv
<1>11. Cardinality(into) \in Nat
  <2>1. into \in SUBSET Names
    BY <1>2 DEF TypeOK
  <2> HIDE DEF into
  <2> QED BY <2>1, FiniteNames
<1> HIDE DEF into
<1>12. degrees = [indegree EXCEPT ![n] = 0]
  <2>1. indegree[n] - Cardinality(into) = 0
    BY <1>10, <1>11
  <2> QED BY <2>1
<1>13. /\ degrees \in [selected -> Nat]
       /\ \A b \in Left \ {n} : degrees[b] = indegree[b]
       /\ \A b \in Placed \cup {n} : degrees[b] = 0
  BY <1>2, <1>3, <1>8, <1>12 DEF EdgesInv, Left
<1>14. /\ deps \in [selected -> SUBSET selected]
       /\ \A a \in Left : deps[a] = {b \in Left \ {n} : ordered_before(graph, a, b)}
       /\ \A a \in Placed : deps[a] = {}
  BY <1>1, <1>2, <1>3 DEF EdgesInv, Left
<1>15. ASSUME NEW b \in Left \ {n}
       PROVE  degrees[b] = Cardinality({a \in Left : b \in deps[a]}) /\ degrees[b] # 0
  <2>1. {a \in Left : b \in deps[a]} = {a \in Left : b \in edges[a]}
    BY <1>2 DEF EdgesInv, Left
  <2>2. degrees[b] = indegree[b]
    BY <1>13
  <2> QED BY <1>1, <1>2, <2>1, <2>2 DEF EdgesInv
<1> HIDE DEF deps, degrees
<1>16. {} \in SUBSET selected /\ {} \ {n} = {b \in Left \ {n} : degrees[b] = 0}
  BY <1>15
<1> QED BY <1>1, <1>8, <1>9, <1>13, <1>14, <1>15, <1>16, PlaceInv

(***************************************************************************)
(* The loop ends with everything placed, or with names that all have one   *)
(* of them in front.                                                       *)
(***************************************************************************)
LEMMA FinishInv ==
  ASSUME PlannerIInv, Finish
  PROVE  PlannerIInv'
<1>1. /\ pc = "order" /\ ready = {}
      /\ UNCHANGED <<graph, goal, root, selected, pending, edges, indegree, ready, order>>
      /\ TypeOK /\ ClosureInv /\ PlacedInv /\ EdgesInv /\ goal # "required_closure"
  BY DEF Finish, PlannerIInv
<1>2. Placed \subseteq selected /\ Placed' = Placed /\ Left' = Left /\ BestEffort' = BestEffort
  BY <1>1 DEF TypeOK, Placed, Left, BestEffort
<1>3. PlacedInv' /\ EdgesInv'
  BY <1>1, <1>2 DEF PlacedInv, EdgesInv
<1>4. IsFiniteSet(selected)
  BY <1>1, FiniteNames DEF TypeOK
<1>5. CASE Len(order) = Cardinality(selected)
  <2>1. pc' = "done" /\ culprits' = culprits
    BY <1>5 DEF Finish
  <2>2. Placed = selected
    BY <1>1, <1>2, <1>4, <1>5, FS_Subset DEF PlacedInv
  <2>3. TypeOK' /\ ClosureInv'
    BY <1>1, <2>1 DEF TypeOK, ClosureInv, IsClosed
  <2> QED BY <1>1, <1>2, <1>3, <2>1, <2>2, <2>3 DEF PlannerIInv, AnswerInv
<1>6. CASE Len(order) # Cardinality(selected)
  <2>1. pc' = "cycle" /\ culprits' = {n \in selected : indegree[n] # 0} /\ ~ BestEffort
    BY <1>6 DEF Finish, BestEffort
  <2>2. culprits' = Left
    BY <1>1, <1>2, <2>1 DEF EdgesInv, Left
  <2>3. Left # {}
    BY <1>1, <1>2, <1>6 DEF PlacedInv, Left
  <2>4. TypeOK' /\ ClosureInv'
    BY <1>1, <2>1, <2>2 DEF TypeOK, ClosureInv, IsClosed, Left
  <2> QED BY <1>1, <1>2, <1>3, <2>1, <2>2, <2>3, <2>4 DEF PlannerIInv, AnswerInv
<1> QED BY <1>5, <1>6

(***************************************************************************)
(* Between two turns the planner is in a state of the inductive invariant, *)
(* for every set of names and every registry.                              *)
(***************************************************************************)
THEOREM PlannerInductive == Spec => []PlannerIInv
<1>1. Init => PlannerIInv
  BY InitInv
<1>2. PlannerIInv /\ [Next]_vars => PlannerIInv'
  <2> SUFFICES ASSUME PlannerIInv, [Next]_vars PROVE PlannerIInv'
    OBVIOUS
  <2>1. CASE MissingRoot
    BY <2>1, MissingRootInv
  <2>2. ASSUME NEW n \in pending, Close(n) PROVE PlannerIInv'
    BY <2>2, CloseInv
  <2>3. CASE Closed
    BY <2>3, ClosedInv
  <2>4. CASE PlaceReady
    BY <2>4, PlaceReadyInv
  <2>5. CASE BreakCycle
    BY <2>5, BreakCycleInv
  <2>6. CASE Finish
    BY <2>6, FinishInv
  <2>7. CASE UNCHANGED vars
    <3>1. TypeOK' = TypeOK /\ ClosureInv' = ClosureInv
      BY <2>7 DEF vars, TypeOK, ClosureInv, IsClosed
    <3>2. PlacedInv' = PlacedInv /\ EdgesInv' = EdgesInv /\ AnswerInv' = AnswerInv
      BY <2>7 DEF vars, PlacedInv, EdgesInv, AnswerInv, Placed, Left, BestEffort
    <3> QED BY <2>7, <3>1, <3>2 DEF vars, PlannerIInv
  <2> QED BY <2>1, <2>2, <2>3, <2>4, <2>5, <2>6, <2>7 DEF Next, Return
<1> QED BY <1>1, <1>2, PTL DEF Spec

(***************************************************************************)
(* The worklists of the planner are exact between any two turns of its     *)
(* loops: the closure holds only what the root pulls in, and the degrees   *)
(* count what is still in front of each name (select_start_closure,        *)
(* topological_order, best_effort_order).                                  *)
(***************************************************************************)
THEOREM PlannerIsExact == Spec => []PlannerInv
<1>1. PlannerIInv => PlannerInv
  <2> SUFFICES ASSUME PlannerIInv PROVE PlannerInv
    OBVIOUS
  <2>1. TypeOK /\ ClosureInv
    BY DEF PlannerIInv
  <2>2. ClosureIsLeast
    <3> SUFFICES ASSUME goal \notin AllGoals PROVE ClosureIsLeast
      BY DEF ClosureIsLeast
    <3>1. ASSUME pc \in {"order", "done", "cycle"}
          PROVE  IsClosed(selected) /\ selected \subseteq graph.loaded
      BY <2>1, <3>1 DEF ClosureInv, IsClosed
    <3>2. \A names \in SUBSET Names : IsClosed(names) => selected \subseteq names
      BY <2>1 DEF ClosureInv
    <3> QED BY <2>1, <3>1, <3>2 DEF ClosureIsLeast, ClosureInv
  <2>3. DegreesExact
    <3> SUFFICES ASSUME pc = "order" PROVE DegreesExact
      BY DEF DegreesExact
    <3>1. EdgesInv
      BY DEF PlannerIInv
    <3> QED BY <3>1 DEF EdgesInv, Left, DegreesExact
  <2> QED BY <2>1, <2>2, <2>3 DEF PlannerInv
<1> QED BY <1>1, PlannerInductive, PTL

(***************************************************************************)
(* The answer of a planning call is right, whatever it is: a complete      *)
(* order that respects the dependencies, a cycle only when there is one,   *)
(* and in every case the plan that Dependencies defines.                   *)
(***************************************************************************)
THEOREM PlannerIsRight == Spec => []AnswerIsRight
<1>1. ASSUME PlannerIInv PROVE PlanRespectsOrder
  <2> SUFFICES ASSUME pc = "done", goal # "required_closure" PROVE PlanRespectsOrder
    BY DEF PlanRespectsOrder
  <2>1. PlacedInv /\ AnswerInv
    BY <1>1 DEF PlannerIInv
  <2> QED BY <2>1 DEF PlacedInv, AnswerInv, BestEffort, PlanRespectsOrder
<1>2. ASSUME PlannerIInv PROVE CycleIsReal
  <2> SUFFICES ASSUME pc = "cycle" PROVE CycleIsReal
    BY DEF CycleIsReal
  <2>1. AnswerInv /\ goal # "required_closure"
    BY <1>2 DEF PlannerIInv
  <2>2. ready = {} /\ culprits = Left /\ Left # {}
    BY <2>1 DEF AnswerInv
  <2>3. \A b \in Left : \E a \in Left : ordered_before(graph, a, b)
    BY <1>2, <2>1, <2>2, FreeIsReady
  <2> QED BY <2>2, <2>3 DEF CycleIsReal
<1>3. ASSUME PlannerIInv PROVE PlanIsReference
  <2> DEFINE C == closure(graph, root, goal)
             chosen == IF goal \in AllGoals THEN graph.loaded ELSE C
             relax == goal = "plan_all_stop_best_effort"
  <2>1. TypeOK /\ ClosureInv
    BY <1>3 DEF PlannerIInv
  <2>2. /\ C \subseteq Names
        /\ root \in C /\ \A n \in C : pulled(graph, n, goal) \subseteq C
        /\ \A names : ClosedUnder(names, graph, root, goal) => C \subseteq names
    BY <2>1, ClosureLeast DEF TypeOK, ClosedUnder
  <2>3. goal \notin AllGoals => selected \subseteq C
    BY <2>1, <2>2 DEF ClosureInv, IsClosed
  <2>4. ASSUME goal \notin AllGoals, pc \in {"order", "done", "cycle"}
        PROVE  selected = C /\ C \subseteq graph.loaded
    <3>1. ClosedUnder(selected, graph, root, goal) /\ selected \subseteq graph.loaded
      BY <2>1, <2>4 DEF ClosureInv, ClosedUnder
    <3> QED BY <2>2, <2>3, <2>4, <3>1
  <2>5. ASSUME pc = "missing" PROVE goal \notin AllGoals /\ ~ (C \subseteq graph.loaded)
    <3>1. goal \notin AllGoals
      BY <2>1, <2>5 DEF ClosureInv
    <3>2. CASE root \notin graph.loaded
      BY <2>2, <3>1, <3>2
    <3>3. ASSUME NEW n \in selected, ~ (required_dependencies(graph, n) \subseteq graph.loaded)
          PROVE  ~ (C \subseteq graph.loaded)
      BY <2>2, <2>3, <3>1, <3>3 DEF pulled
    <3> QED BY <2>1, <2>5, <3>1, <3>2, <3>3 DEF ClosureInv
  <2>6. pc = "missing" <=> pc # "close" /\ goal \notin AllGoals /\ missing(graph, root, goal)
    BY <2>1, <2>4, <2>5 DEF TypeOK, missing
  <2>7. pc \in {"order", "done", "cycle"} => selected = chosen
    BY <2>1, <2>4 DEF ClosureInv
  <2>8. ASSUME pc \in {"done", "cycle"}, goal # "required_closure"
        PROVE  start_order(graph, selected, BestEffort) = order
    <3>1. PlacedInv /\ AnswerInv /\ selected \in SUBSET Names /\ order \in Seq(selected)
      BY <1>3, <2>1, <2>8 DEF PlannerIInv, TypeOK
    <3>2. ready = {} /\ (BestEffort => Left = {})
      BY <2>8, <3>1 DEF AnswerInv, Left
    <3>3. NextPlaced(graph, selected, order, BestEffort) = <<>>
      BY <1>3, <2>8, <3>2, FreeIsReady
    <3>4. Placed \in SUBSET Names
      BY <3>1 DEF Placed
    <3>5. Len(order) <= Cardinality(Names)
      BY <3>1, <3>4, FiniteNames DEF PlacedInv
    <3> QED BY <3>1, <3>3, <3>5, GrowingEnds DEF PlacedInv
  <2>9. ASSUME pc = "cycle" PROVE cyclic(graph, selected)
    <3>1. goal # "required_closure" /\ PlacedInv /\ AnswerInv /\ TypeOK
      BY <1>3, <2>9 DEF PlannerIInv
    <3>2. start_order(graph, selected, BestEffort) = order /\ BestEffort = FALSE
      BY <2>8, <2>9, <3>1 DEF AnswerInv, BestEffort
    <3>3. start_order(graph, selected, FALSE) = order
      BY <3>2
    <3>4. Placed \subseteq selected /\ Placed # selected
      BY <2>9, <3>1 DEF AnswerInv, Left, TypeOK, Placed
    <3>5. Cardinality(Placed) < Cardinality(selected)
      BY <3>1, <3>4, FiniteNames, FS_Subset DEF TypeOK
    <3> QED BY <3>1, <3>3, <3>5 DEF cyclic, PlacedInv
  <2>10. pc = "done" /\ goal # "required_closure" => order = start_order(graph, selected, relax)
    BY <2>8 DEF BestEffort
  <2> QED BY <2>6, <2>7, <2>9, <2>10 DEF PlanIsReference
<1>4. PlannerIInv => AnswerIsRight
  BY <1>1, <1>2, <1>3 DEF AnswerIsRight
<1> QED BY <1>4, PlannerInductive, PTL

=============================================================================
