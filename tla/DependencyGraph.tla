--------------------------- MODULE DependencyGraph ---------------------------
(***************************************************************************)
(* The planner of crates/fractald-core/src/graph.rs: the closure of a root *)
(* over its dependencies, Kahn's algorithm over the ordering edges, and    *)
(* the best-effort order used when a shutdown meets a cycle.  One action   *)
(* is one turn of a loop.                                                  *)
(*                                                                         *)
(* The work queue of the closure is a set: the order in which it is        *)
(* drained decides only which of several missing services is named in the  *)
(* error.                                                                  *)
(***************************************************************************)
EXTENDS Dependencies

CONSTANT Graphs    \* the registries to plan for

ASSUME GraphsAssumption == Graphs \subseteq Graph /\ \A g \in Graphs : MountsLoaded(g)

\* The planning entry points.
StartGoals == {"plan_start", "plan_stop"}
AllGoals == {"plan_all_start", "plan_all_stop", "plan_all_stop_best_effort"}
Goals == StartGoals \cup AllGoals \cup {"required_closure"}

VARIABLES
  graph,      \* the registry
  goal,       \* the entry point called
  root,       \* its argument
  pc,         \* "close", "order", "done", "missing" or "cycle"
  selected,   \* names the closure has taken
  pending,    \* names the closure still has to look at
  edges,      \* ordering edges, by source
  indegree,   \* edges left into each selected name
  ready,      \* names with none left
  order,      \* names placed so far
  culprits    \* names reported with a cycle error

vars == <<graph, goal, root, pc, selected, pending, edges, indegree, ready, order, culprits>>

-----------------------------------------------------------------------------
Placed == {order[i] : i \in 1 .. Len(order)}

-----------------------------------------------------------------------------
Init ==
  /\ graph \in Graphs
  /\ goal \in Goals
  /\ root \in Names
  /\ pc = "close"
  /\ selected = IF goal \in AllGoals THEN graph.loaded ELSE {}
  /\ pending = IF goal \in AllGoals THEN {} ELSE {root}
  /\ edges = <<>> /\ indegree = <<>> /\ ready = {} /\ order = <<>> /\ culprits = {}

MissingRoot ==
  /\ pc = "close"
  /\ goal \notin AllGoals
  /\ root \notin graph.loaded
  /\ pc' = "missing"
  /\ UNCHANGED <<graph, goal, root, selected, pending, edges, indegree, ready, order, culprits>>

\* Mutant: a name that was seen before is looked at again.
CloseAgain(n) ==
  /\ pc = "close"
  /\ goal \in AllGoals \/ root \in graph.loaded
  /\ n \in pending
  /\ selected' = selected \cup {n}
  /\ IF required_dependencies(graph, n) \subseteq graph.loaded
     THEN /\ pending' = (pending \ {n}) \cup pulled(graph, n, goal)
          /\ UNCHANGED pc
     ELSE /\ pc' = "missing"
          /\ UNCHANGED pending
  /\ UNCHANGED <<graph, goal, root, edges, indegree, ready, order, culprits>>

\* One turn of the closure's loop.
Close(n) ==
  /\ pc = "close"
  /\ goal \in AllGoals \/ root \in graph.loaded
  /\ n \in pending
  /\ IF n \in selected
     THEN /\ pending' = pending \ {n}
          /\ UNCHANGED <<pc, selected>>
     ELSE /\ selected' = selected \cup {n}
          /\ IF required_dependencies(graph, n) \subseteq graph.loaded
             THEN /\ pending' = (pending \ {n}) \cup pulled(graph, n, goal)
                  /\ UNCHANGED pc
             ELSE /\ pc' = "missing"
                  /\ UNCHANGED pending
  /\ UNCHANGED <<graph, goal, root, edges, indegree, ready, order, culprits>>

\* The closure is complete: return it, or build the ordering graph.
Closed ==
  /\ pc = "close"
  /\ pending = {}
  /\ IF goal = "required_closure"
     THEN /\ pc' = "done"
          /\ UNCHANGED <<edges, indegree, ready>>
     ELSE /\ pc' = "order"
          /\ edges' = ordering_edges(graph, selected)
          /\ indegree' = ordering_indegree(graph, selected)
          /\ ready' = {n \in selected : ordering_indegree(graph, selected)[n] = 0}
  /\ UNCHANGED <<graph, goal, root, selected, pending, order, culprits>>

\* Mutant: a dependent is ready as soon as one of its predecessors is placed.
PlaceEager(n, deps, degrees, candidates) ==
  LET lowered == [d \in selected |-> IF d \in deps[n] THEN degrees[d] - 1 ELSE degrees[d]]
  IN  /\ order' = Append(order, n)
      /\ indegree' = lowered
      /\ ready' = (candidates \ {n}) \cup deps[n]
      /\ edges' = deps

\* Place n: its dependents lose an edge, and those without any become ready.
\* The best-effort planner takes the edges out of the map, the other keeps them.
Place(n, deps, degrees, candidates) ==
  LET lowered == [d \in selected |-> IF d \in deps[n] THEN degrees[d] - 1 ELSE degrees[d]]
  IN  /\ order' = Append(order, n)
      /\ indegree' = lowered
      /\ ready' = (candidates \ {n}) \cup {d \in deps[n] : lowered[d] = 0}
      /\ edges' = IF goal = "plan_all_stop_best_effort"
                  THEN [deps EXCEPT ![n] = {}] ELSE deps

PlaceReady ==
  /\ pc = "order"
  /\ ready # {}
  /\ Place(pop_first(ready), edges, indegree, ready)
  /\ UNCHANGED <<graph, goal, root, pc, selected, pending, culprits>>

\* The name the best-effort planner frees when nothing is ready.
CycleEndpoint == next_back({n \in selected : indegree[n] > 0})

\* Nothing is ready and the best-effort order is not complete.
Stuck ==
  /\ pc = "order"
  /\ goal = "plan_all_stop_best_effort"
  /\ ready = {}
  /\ Len(order) < Cardinality(selected)

BreakCycle ==
  /\ Stuck
  /\ Place(CycleEndpoint,
           [a \in selected |-> edges[a] \ {CycleEndpoint}],
           [indegree EXCEPT ![CycleEndpoint] =
              @ - Cardinality({a \in selected : CycleEndpoint \in edges[a]})],
           {})
  /\ UNCHANGED <<graph, goal, root, pc, selected, pending, culprits>>

Finish ==
  /\ pc = "order"
  /\ ready = {}
  /\ IF Len(order) = Cardinality(selected)
     THEN pc' = "done" /\ UNCHANGED culprits
     ELSE /\ goal # "plan_all_stop_best_effort"
          /\ pc' = "cycle"
          /\ culprits' = {n \in selected : indegree[n] # 0}
  /\ UNCHANGED <<graph, goal, root, selected, pending, edges, indegree, ready, order>>

\* The caller has its answer.
Return ==
  /\ pc \in {"done", "missing", "cycle"}
  /\ UNCHANGED vars

Next ==
  \/ MissingRoot
  \/ \E n \in pending : Close(n)
  \/ Closed \/ PlaceReady \/ BreakCycle \/ Finish \/ Return

Spec == Init /\ [][Next]_vars

\* The planner is one sequential call: it keeps running until it returns.
FairSpec == Spec /\ WF_vars(Next)

\* The sequence handed to the caller.
plan ==
  IF goal \in {"plan_start", "plan_all_start"}
  THEN order
  ELSE [i \in 1 .. Len(order) |-> order[Len(order) + 1 - i]]

-----------------------------------------------------------------------------
(***************************************************************************)
(* Properties.                                                             *)
(***************************************************************************)

\* The registry, the goal and the worklists of the call.
TypeOK ==
  /\ graph \in Graph /\ MountsLoaded(graph)
  /\ goal \in Goals /\ root \in Names
  /\ pc \in {"close", "order", "done", "missing", "cycle"}
  /\ selected \subseteq Names /\ pending \subseteq Names
  /\ ready \subseteq selected /\ culprits \subseteq selected
  /\ order \in Seq(selected)
  /\ pc = "order" => /\ edges \in [selected -> SUBSET selected]
                     /\ indegree \in [selected -> Nat]

\* A set that a plan for the root may not leave.
IsClosed(names) ==
  /\ root \in names
  /\ \A n \in names : pulled(graph, n, goal) \subseteq names

(***************************************************************************)
(* The closure is the least set that contains the root and what its        *)
(* members pull in, every required service in it exists, and a missing     *)
(* service is reported only when some member really requires one           *)
(* (select_start_closure, required_closure).                               *)
(***************************************************************************)
ClosureIsLeast ==
  goal \notin AllGoals =>
    /\ \A names \in SUBSET Names : IsClosed(names) => selected \subseteq names
    /\ pc \in {"order", "done", "cycle"} =>
         /\ IsClosed(selected)
         /\ selected \subseteq graph.loaded
    /\ pc = "missing" =>
         \/ root \notin graph.loaded
         \/ \E n \in selected : ~ (required_dependencies(graph, n) \subseteq graph.loaded)

(***************************************************************************)
(* The degree of a name is the number of its predecessors that are not     *)
(* placed, and exactly the unplaced names of degree zero are ready.  The   *)
(* subtraction of a usize never goes below zero and the lookup of a cycle  *)
(* endpoint never fails.                                                   *)
(***************************************************************************)
DegreesExact ==
  pc = "order" =>
    /\ \A b \in selected \ Placed :
         indegree[b] = Cardinality({a \in selected \ Placed : b \in edges[a]})
    /\ ready = {b \in selected \ Placed : indegree[b] = 0}

(***************************************************************************)
(* A complete plan names every selected service once, and starts each      *)
(* after (or stops each before) all it is ordered after.  The best-effort  *)
(* plan is complete too, and it keeps every edge when there is no cycle.   *)
(***************************************************************************)
PlanRespectsOrder ==
  pc = "done" /\ goal # "required_closure" =>
    /\ Placed = selected
    /\ \A i, j \in 1 .. Len(order) : order[i] = order[j] => i = j
    /\ goal # "plan_all_stop_best_effort" =>
         \A i, j \in 1 .. Len(order) :
           ordered_before(graph, order[i], order[j]) => i < j

(***************************************************************************)
(* A cycle is reported only when there is one: each name reported waits    *)
(* for another name reported (topological_order).                          *)
(***************************************************************************)
CycleIsReal ==
  pc = "cycle" =>
    /\ culprits # {}
    /\ \A b \in culprits : \E a \in culprits : ordered_before(graph, a, b)

(***************************************************************************)
(* The call computes the plan of Dependencies, which the supervisor's      *)
(* model uses: the closure, the order, the relaxed order of a shutdown     *)
(* and the two errors.                                                     *)
(***************************************************************************)
PlanIsReference ==
  LET chosen == IF goal \in AllGoals THEN graph.loaded ELSE closure(graph, root, goal)
      relax == goal = "plan_all_stop_best_effort"
  IN  /\ pc = "missing" <=> pc # "close" /\ goal \notin AllGoals /\ missing(graph, root, goal)
      /\ pc = "cycle" => cyclic(graph, chosen)
      /\ pc = "done" => /\ selected = chosen
                        /\ goal # "required_closure" => order = start_order(graph, chosen, relax)

(***************************************************************************)
(* Between two turns of a loop the worklist, the degrees and the ready set *)
(* are right: the closure has nothing in it that is not needed, and the    *)
(* degrees count what is still in front of each name.                      *)
(***************************************************************************)
PlannerInv == TypeOK /\ ClosureIsLeast /\ DegreesExact

(***************************************************************************)
(* The answer of a planning call is right, whatever it is: an order that   *)
(* respects the dependencies, a cycle that is one, and in each case the    *)
(* plan the supervisor counts on.                                          *)
(***************************************************************************)
AnswerIsRight == PlanRespectsOrder /\ CycleIsReal /\ PlanIsReference

(***************************************************************************)
(* Planning ends, also over cyclic dependencies.                           *)
(***************************************************************************)
PlanningEnds == <>(pc \in {"done", "missing", "cycle"})

=============================================================================
