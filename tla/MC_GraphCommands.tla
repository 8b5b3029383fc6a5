--------------------------- MODULE MC_GraphCommands ---------------------------
(***************************************************************************)
(* A ResourceGroup of four resources: two deployments, the second         *)
(* referencing the first, a service and a config map naming the service.  *)
(* The graph the commands work on is the one the graph builder compiles    *)
(* from it.  Two resources share a kind, two kinds share the core group,   *)
(* and the core group sorts before "apps", which comes first: every branch *)
(* of addGVR and the sort matter.  Two instances, in list order.           *)
(*                                                                         *)
(* The builder is checked on the repository's tests and on every graph of  *)
(* three resources whose templates and readyWhen reference any of them,   *)
(* and on two resources, the second a collection of up to two dimensions, *)
(* whose expressions reference the first resource, either's iterators or  *)
(* their own.                                                              *)
(***************************************************************************)
EXTENDS GraphCommands, GraphBuilderTests

MCRgd ==
  << Res("db", {"schema"}, <<>>),
     Res("svc", {"schema"}, <<>>),
     Res("cm", {"schema", "svc"}, <<>>),
     Res("app", {"schema", "db"}, <<>>) >>

MCIds == DeclIds(MCRgd)
\* the order and dependencies the builder compiles from MCRgd, written out
\* so that TLC evaluates them once; the ASSUME below checks them
MCOrder == <<"db", "app", "svc", "cm">>
MCDependsOn == ("db" :> {}) @@ ("svc" :> {}) @@ ("cm" :> {"svc"}) @@ ("app" :> {"db"})
MCGvr ==
  ("db" :> [group |-> "apps", resource |-> "deployments"])
  @@ ("app" :> [group |-> "apps", resource |-> "deployments"])
  @@ ("svc" :> [group |-> "", resource |-> "services"])
  @@ ("cm" :> [group |-> "", resource |-> "configmaps"])
MCGroupOrder == <<"", "apps">>
MCInstances == {"i1", "i2"}
MCInstanceOrder == <<"i1", "i2">>
MCScopes == {"cluster", "namespace", "clusterrole"}
MCOutputs == {"json", "yaml", "table"}

\* every id used above and in the tests, in Go's string order
MCNameOrder ==
  <<"a", "app", "b", "badPod", "badSubnet", "c", "chainedSubnets", "cm", "db",
    "filteredSecurityGroups", "regionTierSubnet", "securityGroups", "subnets",
    "svc", "vpc", "workerSubnet", "zonedSubnet">>

Plain(id, refs, ready) == [id |-> id, refs |-> refs, ready |-> ready, forEach |-> <<>>]

Shapes ==
  {<<Plain("a", ra, {}), Plain("b", rb, {}), Plain("c", rc, yc)>> :
     ra \in SUBSET {"a", "b", "c"}, rb \in SUBSET {"a", "b", "c"},
     rc \in SUBSET {"a", "b", "c"}, yc \in {{}, {"c"}}}

Dims == [refs : SUBSET {"a", "i", "j"}, list : BOOLEAN]

CollectionShapes ==
  {<<Res("a", {}, da), Res("b", rb, db)>> :
     da \in {<<>>, <<Dim("x", {}, TRUE)>>},
     rb \in SUBSET {"a", "i", "x"},
     db \in {<<>>} \cup {<<Dim("i", d.refs, d.list)>> : d \in Dims}
            \cup {<<Dim("i", d.refs, d.list), Dim("j", e.refs, e.list)>> : d, e \in Dims}}

MCInputs == Shapes \cup CollectionShapes

(***************************************************************************)
(* The builder's properties, checked in the states where an invocation is *)
(* about to run the builder on its ResourceGroup.                         *)
(***************************************************************************)

\* Every case of the builder's collection test tables gets the verdict and
\* the graph it asserts (GraphBuilderTests!BuilderPassesTests).
BuilderTestsPass == pc = "start" => BuilderPassesTests

BuilderOrderWellFormed == pc = "start" => CompiledGraphWellFormed

ASSUME LET r == Build(MCRgd) IN
       r.err = "none" /\ r.order = MCOrder /\ r.deps = MCDependsOn

====
