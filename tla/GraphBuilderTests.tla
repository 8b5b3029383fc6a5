--------------------------- MODULE GraphBuilderTests ---------------------------
(***************************************************************************)
(* The table-driven tests of the graph builder's collections               *)
(* (TestGraphBuilder_CollectionChaining and                                *)
(* TestGraphBuilder_CollectionValidation), run against the builder of      *)
(* GraphBuilder.  Each test's resources are written as declarations: the  *)
(* variables of the template's ${...} expressions, and per forEach         *)
(* dimension its iterator, its variables and whether its expression is    *)
(* list-typed.  A test passes when the builder fails exactly when wantErr  *)
(* says, with the error errMsg names, and every assertion of checkGraph    *)
(* holds of the graph.                                                     *)
(***************************************************************************)
EXTENDS GraphBuilder

Res(id, refs, dims) == [id |-> id, refs |-> refs, ready |-> {}, forEach |-> dims]
Dim(name, refs, list) == [name |-> name, refs |-> refs, list |-> list]

\* the checkGraph assertions
IsCollection(id)    == [assert |-> "collection", id |-> id]
DependsOnId(id, on) == [assert |-> "dependsOn", id |-> id, on |-> on]
Before(a, b)        == [assert |-> "before", id |-> a, on |-> b]

Case(name, rgd, wantErr, errMsg, checks) ==
  [name |-> name, rgd |-> rgd, wantErr |-> wantErr, errMsg |-> errMsg, checks |-> checks]

\* the subnets collection both chaining tests start from
Subnets == Res("subnets", {"schema", "cidr"}, <<Dim("cidr", {"schema"}, TRUE)>>)

\* TestGraphBuilder_CollectionChaining
DynamicForEachCase ==
  Case("collection with forEach referencing another resource (dynamic forEach)",
       << Res("vpc", {"schema"}, <<>>),
          Res("chainedSubnets", {"schema", "cidr", "vpc"},
              <<Dim("cidr", {"vpc", "schema"}, TRUE)>>) >>,
       FALSE, "",
       {IsCollection("chainedSubnets"), DependsOnId("chainedSubnets", "vpc")})

CollectionChainingCase ==
  Case("collection-to-collection chaining (forEach iterating over another collection)",
       << Subnets,
          Res("securityGroups", {"schema", "subnet"},
              <<Dim("subnet", {"subnets"}, TRUE)>>) >>,
       FALSE, "",
       {IsCollection("subnets"), IsCollection("securityGroups"),
        DependsOnId("securityGroups", "subnets"), Before("subnets", "securityGroups")})

FilteredCollectionCase ==
  Case("collection with filter on another collection",
       << Subnets,
          Res("filteredSecurityGroups", {"schema", "subnet"},
              <<Dim("subnet", {"subnets"}, TRUE)>>) >>,
       FALSE, "",
       {IsCollection("filteredSecurityGroups"),
        DependsOnId("filteredSecurityGroups", "subnets")})

ChainingCases == {DynamicForEachCase, CollectionChainingCase, FilteredCollectionCase}

\* TestGraphBuilder_CollectionValidation
SingleIteratorCase ==
  Case("valid collection with single iterator from schema list",
       << Res("zonedSubnet", {"schema", "cidr"}, <<Dim("cidr", {"schema"}, TRUE)>>) >>,
       FALSE, "", {})

CartesianCase ==
  Case("valid collection with multiple iterators (cartesian product)",
       << Res("regionTierSubnet", {"schema", "cidr", "vpcID"},
              <<Dim("cidr", {"schema"}, TRUE), Dim("vpcID", {"schema"}, TRUE)>>) >>,
       FALSE, "", {})

NotAListCase ==
  Case("invalid collection - forEach expression does not return a list",
       << Res("badSubnet", {"schema", "element"}, <<Dim("element", {"schema"}, FALSE)>>) >>,
       TRUE, "must return a list", {})

IteratorInTemplateCase ==
  Case("collection with iterator variable used in template",
       << Res("workerSubnet", {"schema", "worker"}, <<Dim("worker", {"schema"}, TRUE)>>) >>,
       FALSE, "", {})

IteratorCrossRefCase ==
  Case("invalid collection - forEach iterator references another iterator",
       << Res("badPod", {"schema", "element", "derived"},
              <<Dim("element", {"schema"}, TRUE), Dim("derived", {"element"}, FALSE)>>) >>,
       TRUE, "cannot reference other iterators", {})

ValidationCases ==
  {SingleIteratorCase, CartesianCase, NotAListCase, IteratorInTemplateCase, IteratorCrossRefCase}

\* the error whose message contains the text a test expects
MessageOf == ("must return a list" :> "ForEachNotList")
             @@ ("cannot reference other iterators" :> "IteratorCrossRef")

Position(r, id) == CHOOSE i \in DOMAIN r.order : r.order[i] = id

Holds(a, r) ==
  CASE a.assert = "collection" -> a.id \in r.collections
    [] a.assert = "dependsOn"  -> a.on \in r.deps[a.id]
    [] OTHER                   -> Position(r, a.id) < Position(r, a.on)

\* the t.Run body: require.Error and the errMsg check, or require.NoError
\* and checkGraph
RunCase(tc) ==
  LET r == Build(tc.rgd) IN
  IF tc.wantErr
  THEN r.err # "none" /\ (tc.errMsg # "" => r.err = MessageOf[tc.errMsg])
  ELSE r.err = "none" /\ \A a \in tc.checks : Holds(a, r)

\* The builder of the spec passes the repository's collection tests: every
\* case of both tables fails exactly when it expects an error, with that
\* error, and otherwise yields a graph whose collections, dependencies
\* (forEach expressions included) and order are as checkGraph asserts.
BuilderPassesTests == \A tc \in ChainingCases \cup ValidationCases : RunCase(tc)

=============================================================================
