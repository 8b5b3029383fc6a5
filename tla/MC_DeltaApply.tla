---------------------------- MODULE MC_DeltaApply ----------------------------
(***************************************************************************)
(* Small universe of objects for DeltaApply: metadata labels (empty, which *)
(* cleanMetadata and the server both treat as absent, or one label) and a *)
(* spec field that is nil, a primitive, a                                  *)
(* map (empty, with a nil, with a nested empty map, one or two keys) or a  *)
(* list (empty, one or two elements, a list of maps).  The live objects   *)
(* are every desired object merged over a base that may carry a status     *)
(* written by another manager, normalised and stamped by the server.       *)
(***************************************************************************)
EXTENDS DeltaApply

MCServerManagedFields == {"uid"}
MCStamps == {"s1"}

X == Prim("x")
Y == Prim("y")

LabelValues == {EmptyMap, MapV("a" :> X)}

SpecValues ==
  { NilV, X, Y,
    EmptyMap, MapV("a" :> X), MapV("a" :> Y), MapV(("a" :> X) @@ ("b" :> Y)),
    MapV("a" :> NilV), MapV("a" :> EmptyMap),
    ListV(<<>>), ListV(<<X>>), ListV(<<Y>>), ListV(<<X, Y>>),
    ListV(<<MapV("a" :> X)>>) }

Meta(labels) == IF labels = NilV THEN EmptyMap ELSE MapV("labels" :> labels)

Obj(labels, spec) == MapV(("metadata" :> Meta(labels)) @@ ("spec" :> spec))

MCDesiredObjects == {Obj(l, v) : l \in LabelValues, v \in SpecValues}

Bases == {EmptyMap, MapV("status" :> X)}

MCLiveObjects ==
  {ServerApply(d, b, NilV, s) : d \in MCDesiredObjects, b \in Bases, s \in MCStamps}

\* a typed binding whose CEL result is a double of integral value, e.g.
\* replicas: ${schema.spec.size * 1.0}, and one that yields an int
Replicas(n) == Obj(EmptyMap, MapV("replicas" :> n))
Numbers == {Replicas(Num("float64", 2)), Replicas(Num("int64", 2))}

MCDesiredObjectsNum == MCDesiredObjects \cup Numbers

MCLiveObjectsNum ==
  MCLiveObjects \cup {ServerApply(d, b, NilV, s) : d \in Numbers, b \in Bases, s \in MCStamps}

=============================================================================
