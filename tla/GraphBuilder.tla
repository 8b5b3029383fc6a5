----------------------------- MODULE GraphBuilder -----------------------------
(***************************************************************************)
(* The graph builder (C4) and its use of the DAG library (C5), as spec 4.4 *)
(* describes them: compilation is pure, so the builder is an operator from *)
(* a ResourceGraphDefinition to its compiled graph or its error.           *)
(*                                                                         *)
(* Expressions are abstracted to the variables they reference and, for a  *)
(* forEach dimension, whether the expression is list-typed (what the       *)
(* expression environment, C3, would infer).  A resource declaration is    *)
(*   [id, refs, ready, forEach]                                            *)
(* where refs are the variables of its template and includeWhen, ready     *)
(* those of readyWhen, and forEach a sequence of dimensions                *)
(* [name, refs, list].  Variables are "schema", resource ids and iterator  *)
(* names.                                                                  *)
(***************************************************************************)
EXTENDS Naturals, Sequences, SequencesExt, Functions

CONSTANTS
  NameOrder,   \* every resource id, in ascending string order (the tie-break)
  Inputs       \* the ResourceGraphDefinitions the builder is checked on

LOCAL Gr == INSTANCE Graphs

DeclIds(g)      == {g[k].id : k \in DOMAIN g}
Decl(g, id)     == g[CHOOSE k \in DOMAIN g : g[k].id = id]
IteratorsOf(d)  == {d.forEach[j].name : j \in DOMAIN d.forEach}
AllIterators(g) == UNION {IteratorsOf(g[k]) : k \in DOMAIN g}
DimRefs(d)      == UNION {d.forEach[j].refs : j \in DOMAIN d.forEach}

(***************************************************************************)
(* Step 4c/4d: the resource's dependencies are the ids its expressions    *)
(* reference (forEach dimensions included); readyWhen may name the        *)
(* resource itself, which is no dependency.                               *)
(***************************************************************************)

\* mutant: the forEach expressions are left out of the dependencies
DependenciesTemplateOnly(d, g) == (d.refs \cup (d.ready \ {d.id})) \cap DeclIds(g)

Dependencies(d, g) == (d.refs \cup DimRefs(d) \cup (d.ready \ {d.id})) \cap DeclIds(g)

(***************************************************************************)
(* Step 4a: each dimension is compiled in the environment of the resources *)
(* compiled so far, without its sibling iterators: naming one of them is   *)
(* rejected, naming another resource's iterator is an unknown variable,    *)
(* and the result must be a list.                                          *)
(***************************************************************************)

\* mutant: a dimension sees the iterators declared before it
DimensionErrorSequential(d, g, j) ==
  LET dim == d.forEach[j]
      earlier == {d.forEach[i].name : i \in 1..(j - 1)}
  IN CASE dim.refs \cap (IteratorsOf(d) \ earlier) # {} -> "IteratorCrossRef"
       [] dim.refs \cap (AllIterators(g) \ earlier) # {} -> "UnresolvedReference"
       [] ~dim.list -> "ForEachNotList"
       [] OTHER -> "none"

DimensionError(d, g, j) ==
  LET dim == d.forEach[j] IN
  CASE dim.refs \cap IteratorsOf(d) # {} -> "IteratorCrossRef"
    [] dim.refs \cap AllIterators(g) # {} -> "UnresolvedReference"
    [] ~dim.list -> "ForEachNotList"
    [] OTHER -> "none"

\* steps 4a-4d for one resource: the first failing dimension, then the
\* template, includeWhen and readyWhen, which see the resource's own
\* iterators and no other
CompileError(d, g) ==
  LET bad == {j \in DOMAIN d.forEach : DimensionError(d, g, j) # "none"} IN
  CASE bad # {} -> DimensionError(d, g, Min(bad))
    [] ((d.refs \cup d.ready) \cap AllIterators(g)) \ IteratorsOf(d) # {} ->
         "UnresolvedReference"
    [] OTHER -> "none"

(***************************************************************************)
(* Step 3: passes.  Each pass compiles the first declared resource whose   *)
(* dependencies are all compiled; a pass that finds none while resources   *)
(* remain reports a cycle with its members: the remaining resources that   *)
(* lie on a cycle, not those only waiting behind one.                      *)
(***************************************************************************)
Outcome(err, members) == [err |-> err, members |-> members]

\* the resources of rest from which a chain of dependencies inside rest
\* leads back to themselves
RECURSIVE Reach(_, _, _)
Reach(g, rest, from) ==
  LET next == from \cup UNION {Dependencies(Decl(g, v), g) \cap rest : v \in from}
  IN  IF next = from THEN from ELSE Reach(g, rest, next)

CycleMembers(g, rest) ==
  {v \in rest : v \in Reach(g, rest, Dependencies(Decl(g, v), g) \cap rest)}

\* mutant: a resource that references itself counts as ready
RECURSIVE PassesSelfReady(_, _)
PassesSelfReady(g, done) ==
  LET ready == {k \in DOMAIN g : g[k].id \notin done /\
                                 Dependencies(g[k], g) \subseteq done \cup {g[k].id}}
      k == Min(ready)
  IN CASE done = DeclIds(g) -> Outcome("none", {})
       [] ready = {} -> Outcome("CycleDetected", CycleMembers(g, DeclIds(g) \ done))
       [] CompileError(g[k], g) # "none" -> Outcome(CompileError(g[k], g), {g[k].id})
       [] OTHER -> PassesSelfReady(g, done \cup {g[k].id})

RECURSIVE Passes(_, _)
Passes(g, done) ==
  LET ready == {k \in DOMAIN g : g[k].id \notin done /\ Dependencies(g[k], g) \subseteq done}
      k == Min(ready)
  IN CASE done = DeclIds(g) -> Outcome("none", {})
       [] ready = {} -> Outcome("CycleDetected", CycleMembers(g, DeclIds(g) \ done))
       [] CompileError(g[k], g) # "none" -> Outcome(CompileError(g[k], g), {g[k].id})
       [] OTHER -> Passes(g, done \cup {g[k].id})

(***************************************************************************)
(* Step 5 and the DAG library's topological sort: among the resources      *)
(* whose dependencies are placed, the least id comes next.                 *)
(***************************************************************************)
Rank(id) == CHOOSE k \in DOMAIN NameOrder : NameOrder[k] = id

\* mutant: the greatest id is placed first
RECURSIVE TopoSortGreatest(_, _)
TopoSortGreatest(deps, placed) ==
  LET free == {v \in DOMAIN deps \ ToSet(placed) : deps[v] \subseteq ToSet(placed)}
  IN IF free = {} THEN placed
     ELSE TopoSortGreatest(deps, Append(placed, CHOOSE v \in free : \A u \in free : Rank(u) <= Rank(v)))

RECURSIVE TopoSort(_, _)
TopoSort(deps, placed) ==
  LET free == {v \in DOMAIN deps \ ToSet(placed) : deps[v] \subseteq ToSet(placed)}
  IN IF free = {} THEN placed
     ELSE TopoSort(deps, Append(placed, CHOOSE v \in free : \A u \in free : Rank(v) <= Rank(u)))

\* the builder: the compiled graph's order, dependencies and collections,
\* or the error of the first pass that fails
Build(g) ==
  LET p    == Passes(g, {})
      deps == [id \in DeclIds(g) |-> Dependencies(Decl(g, id), g)]
  IN [err |-> p.err, members |-> p.members, deps |-> deps,
      order |-> IF p.err = "none" THEN TopoSort(deps, <<>>) ELSE <<>>,
      collections |-> {g[k].id : k \in {k \in DOMAIN g : g[k].forEach # <<>>}}]

(***************************************************************************)
(* Properties, over every input graph                                      *)
(***************************************************************************)

DepGraph(g) ==
  [node |-> DeclIds(g),
   edge |-> UNION {{<<g[k].id, x>> : x \in Dependencies(g[k], g)} : k \in DOMAIN g}]

\* the orders in which every resource comes after those it depends on
TopoOrders(g) ==
  {p \in SetToSeqs(DeclIds(g)) :
     \A i \in DOMAIN p : Dependencies(Decl(g, p[i]), g) \subseteq {p[j] : j \in 1..(i - 1)}}

LexBefore(p, q) ==
  \E i \in DOMAIN p :
     /\ \A j \in 1..(i - 1) : p[j] = q[j]
     /\ Rank(p[i]) < Rank(q[i])

\* Cycle detection is sound and complete (spec 8 property 3), against
\* Warshall reachability: a graph with a cycle is never accepted, and a
\* reported cycle lists exactly the resources that lie on a cycle (spec
\* 4.4 step 3, S7), neither one that only depends on a cycle nor one that
\* could have been compiled.
CycleDetectionExact ==
  \A g \in Inputs :
     LET r    == Build(g)
         G    == DepGraph(g)
         C    == Gr!ConnectionsIn(G)
         cyc  == {v \in G.node : \E u \in G.node : <<v, u>> \in G.edge /\ C[u, v]}
     IN /\ cyc # {} => r.err # "none"
        /\ r.err = "CycleDetected" => cyc # {} /\ r.members = cyc

\* An accepted graph is what the runtime relies on (spec 3, invariants 1
\* and 3; spec 8 properties 1 and 2): its order lists every resource once,
\* after every other resource any of its expressions names (forEach
\* included); a resource names itself only in readyWhen; no forEach
\* dimension sees an iterator and other expressions see only their own
\* resource's; and the order is the least one by id among all valid
\* orders, so compiling again gives the same order.
CompiledGraphWellFormed ==
  \A g \in Inputs :
     LET r == Build(g) IN
     r.err = "none" =>
        /\ IsInjective(r.order) /\ ToSet(r.order) = DeclIds(g)
        /\ \A i \in DOMAIN r.order :
              LET d == Decl(g, r.order[i]) IN
              /\ \A x \in ((d.refs \cup DimRefs(d) \cup d.ready) \cap DeclIds(g)) \ {d.id} :
                    \E j \in 1..(i - 1) : r.order[j] = x
              /\ d.id \notin d.refs \cup DimRefs(d)
              /\ DimRefs(d) \cap AllIterators(g) = {}
              /\ (d.refs \cup d.ready) \cap AllIterators(g) \subseteq IteratorsOf(d)
        /\ \A p \in TopoOrders(g) : ~LexBefore(p, r.order)

=============================================================================
