---------------------------- MODULE GraphCommands ----------------------------
(***************************************************************************)
(* The kubectl-kro commands that run a ResourceGroup through the graph     *)
(* builder: `validate rg` (validate/resourcegroup, part_003), `generate    *)
(* rbac` (rbac.go), `generate crd` (crd.go) and `get instance`             *)
(* (instance.go).  One invocation per behaviour.  The first three make no  *)
(* cluster writes and read nothing that changes, so each is one step.      *)
(* `get instance` lists the instances, then reads each instance and each   *)
(* of its resources in turn, while users and the controller delete them.   *)
(* What the builder decides about the file (graph builder, C4) is an input *)
(* of the run, as are the outcomes of the client calls.                    *)
(***************************************************************************)
EXTENDS Naturals, Sequences, SequencesExt, Functions

CONSTANTS
  Ids,            \* resource ids of the ResourceGroup
  Order,          \* processedRG.TopologicalOrder, a sequence over Ids
  DependsOn,      \* id -> the ids its templates reference
  Gvr,            \* id -> [group, resource] of the resource's kind
  GroupOrder,     \* the API groups in sort.Strings order
  Instances,      \* instance names in the target namespace
  InstanceOrder,  \* the same names in the order List returns them
  Scopes,         \* values given to --scope (the two handled ones and others)
  Outputs         \* values given to --output

VARIABLES
  flags,    \* the command and its flags
  env,      \* [file, stored, client, discovery, valid]: outcomes of the calls
  cluster,  \* [ins: instance -> "none" | "live" | "deleting", objs: instance -> SUBSET Ids]
  pc,       \* "start", "list", "instance", "walk", "render", "exit"
  exit,     \* "running", "ok" (RunE returned nil) or "err"
  built,    \* builder.NewResourceGroup accepted the ResourceGroup (history)
  out,      \* what was printed on stdout
  names,    \* get: the instance names to show
  ni,       \* get: index into names
  ri,       \* get: index into Order while walking an instance's resources
  seenIds,  \* get: ids whose observed object was given to rt.SetResource
  cur,      \* get: the InstanceInfo being collected
  infos     \* get: the InstanceInfos collected so far

vars == <<flags, env, cluster, pc, exit, built, out, names, ni, ri, seenIds, cur, infos>>

Printed(kind) == [kind |-> kind, rules |-> <<>>, table |-> <<>>]

Args == {<<>>} \cup {<<i>> : i \in Instances}

\* cobra's defaults for the flags a command does not have
Flags ==
  {[cmd |-> "validate", scope |-> "namespace", output |-> "yaml", args |-> <<>>, fromFile |-> TRUE]}
  \cup {[cmd |-> "rbac", scope |-> s, output |-> o, args |-> <<>>, fromFile |-> TRUE] :
          s \in Scopes, o \in Outputs}
  \cup {[cmd |-> "crd", scope |-> "namespace", output |-> o, args |-> <<>>, fromFile |-> TRUE] :
          o \in Outputs}
  \cup {[cmd |-> "get", scope |-> "namespace", output |-> "yaml", args |-> a, fromFile |-> f] :
          a \in Args, f \in BOOLEAN}

(***************************************************************************)
(* Shared steps                                                            *)
(***************************************************************************)

\* RunE: os.ReadFile, then yaml.UnmarshalStrict into a ResourceGroup
readResourceGroup == env.file = "ok"

\* validateResourceGroup / generateRBAC / generateCRD up to the processed
\* graph: a NewSet error returns nil, a NewBuilder or NewResourceGroup error
\* is returned
buildGraph ==
  CASE ~env.client    -> "noClient"
    [] ~env.discovery -> "err"
    [] ~env.valid     -> "err"
    [] OTHER          -> "built"

\* marshalObject (rbac.go): only json and yaml are accepted
marshalObject(o) == o \in {"json", "yaml"}

\* marshalObject (crd.go), the same switch
crdMarshalObject(o) == o \in {"json", "yaml"}

Finish(status, printed) ==
  /\ exit' = status /\ out' = printed /\ pc' = "exit"

(***************************************************************************)
(* validate rg                                                             *)
(***************************************************************************)

Validate ==
  /\ pc = "start" /\ flags.cmd = "validate"
  /\ IF ~readResourceGroup THEN Finish("err", Printed("none")) /\ built' = FALSE
     ELSE LET b == buildGraph IN
          /\ built' = (b = "built")
          /\ IF b = "err" THEN Finish("err", Printed("invalid"))
             ELSE Finish("ok", Printed("valid"))
  /\ UNCHANGED <<flags, env, cluster, names, ni, ri, seenIds, cur, infos>>

(***************************************************************************)
(* generate rbac                                                           *)
(***************************************************************************)

\* mutant: gvr.Group is appended where gvr.Resource belongs
addGVRAppendGroup(rbg, gvr) ==
  IF gvr.group \notin DOMAIN rbg THEN rbg @@ (gvr.group :> <<gvr.resource>>)
  ELSE IF \E k \in 1..Len(rbg[gvr.group]) : rbg[gvr.group][k] = gvr.resource THEN rbg
  ELSE [rbg EXCEPT ![gvr.group] = Append(@, gvr.group)]

\* mutant: the linear search for an existing entry is left out
addGVRNoDedup(rbg, gvr) ==
  IF gvr.group \notin DOMAIN rbg THEN rbg @@ (gvr.group :> <<gvr.resource>>)
  ELSE [rbg EXCEPT ![gvr.group] = Append(@, gvr.resource)]

\* resourcesByGroup.addGVR: a group's resources in first-seen order, each once
addGVR(rbg, gvr) ==
  IF gvr.group \notin DOMAIN rbg THEN rbg @@ (gvr.group :> <<gvr.resource>>)
  ELSE IF \E k \in 1..Len(rbg[gvr.group]) : rbg[gvr.group][k] = gvr.resource THEN rbg
  ELSE [rbg EXCEPT ![gvr.group] = Append(@, gvr.resource)]

\* resourcesByGroup.groups: the keys, sorted
groups(rbg) == SelectSeq(GroupOrder, LAMBDA g : g \in DOMAIN rbg)

\* one PolicyRule per API group over the GVRs in topological order (the
\* verbs are the same six for every rule and are left out)
policyRules ==
  LET rbg == FoldLeft(addGVR, <<>>, [k \in 1..Len(Order) |-> Gvr[Order[k]]])
  IN [k \in 1..Len(groups(rbg)) |->
        [apiGroup |-> groups(rbg)[k], resources |-> rbg[groups(rbg)[k]]]]

\* newClusterRole / newRole: the object printed, with its rules
newRoleObject(kind, rules) == [kind |-> kind, rules |-> rules, table |-> <<>>]

GenerateRBAC ==
  /\ pc = "start" /\ flags.cmd = "rbac"
  /\ IF ~readResourceGroup THEN Finish("err", Printed("none")) /\ built' = FALSE
     ELSE LET b == buildGraph IN
          /\ built' = (b = "built")
          /\ CASE b = "noClient" -> Finish("ok", Printed("none"))
               [] b = "err" -> Finish("err", Printed("none"))
               [] flags.scope \notin {"cluster", "namespace"} ->
                    Finish("ok", Printed("blank"))
               [] ~marshalObject(flags.output) -> Finish("err", Printed("none"))
               [] flags.scope = "cluster" ->
                    Finish("ok", newRoleObject("ClusterRole", policyRules))
               [] OTHER -> Finish("ok", newRoleObject("Role", policyRules))
  /\ UNCHANGED <<flags, env, cluster, names, ni, ri, seenIds, cur, infos>>

(***************************************************************************)
(* generate crd                                                            *)
(***************************************************************************)

GenerateCRD ==
  /\ pc = "start" /\ flags.cmd = "crd"
  /\ IF ~readResourceGroup THEN Finish("err", Printed("none")) /\ built' = FALSE
     ELSE LET b == buildGraph IN
          /\ built' = (b = "built")
          /\ CASE b = "noClient" -> Finish("ok", Printed("none"))
               [] b = "err" -> Finish("err", Printed("none"))
               [] ~crdMarshalObject(flags.output) -> Finish("err", Printed("none"))
               [] OTHER -> Finish("ok", Printed("crd"))
  /\ UNCHANGED <<flags, env, cluster, names, ni, ri, seenIds, cur, infos>>

(***************************************************************************)
(* get instance                                                            *)
(***************************************************************************)

\* instance runtime (spec 4.6): a resource resolves once every resource it
\* references has an observed object in the runtime
Resolved(id, observedIds) == DependsOn[id] \subseteq observedIds

\* RunE up to getInstancesInfo's builder: NewSet first (its error returns
\* nil), then the ResourceGroup from the file or from the cluster
GetLoad ==
  /\ pc = "start" /\ flags.cmd = "get"
  /\ CASE ~env.client -> Finish("ok", Printed("none")) /\ built' = FALSE
       [] flags.fromFile /\ ~readResourceGroup -> Finish("err", Printed("none")) /\ built' = FALSE
       [] ~flags.fromFile /\ ~env.stored -> Finish("err", Printed("none")) /\ built' = FALSE
       [] buildGraph = "err" -> Finish("err", Printed("none")) /\ built' = FALSE
       [] OTHER -> pc' = "list" /\ built' = TRUE /\ UNCHANGED <<exit, out>>
  /\ UNCHANGED <<flags, env, cluster, names, ni, ri, seenIds, cur, infos>>

\* no names given: List the instances of the RG's kind (the call may fail)
ListInstances ==
  /\ pc = "list"
  /\ \/ /\ flags.args = <<>>
        /\ Finish("err", Printed("none"))
        /\ UNCHANGED <<names, ni>>
     \/ /\ names' = IF flags.args = <<>>
                    THEN SelectSeq(InstanceOrder, LAMBDA i : cluster.ins[i] # "none")
                    ELSE flags.args
        /\ ni' = 1
        /\ pc' = IF names' = <<>> THEN "render" ELSE "instance"
        /\ UNCHANGED <<exit, out>>
  /\ UNCHANGED <<flags, env, cluster, built, ri, seenIds, cur, infos>>

\* getInstanceInfo: Get the instance (NotFound if it is gone) and build its
\* runtime (NewGraphRuntime may reject its spec); any error ends the command
GetInstance ==
  /\ pc = "instance"
  /\ LET i == names[ni] IN
       \/ /\ cluster.ins[i] = "none"          \* Get: NotFound
          /\ Finish("err", Printed("none"))
          /\ UNCHANGED <<ri, seenIds, cur>>
       \/ /\ cluster.ins[i] # "none"          \* NewGraphRuntime: spec rejected
          /\ Finish("err", Printed("none"))
          /\ UNCHANGED <<ri, seenIds, cur>>
       \/ /\ cluster.ins[i] # "none"
          /\ cur' = [name |-> i,
                     state |-> IF cluster.ins[i] = "deleting" THEN "DELETING" ELSE "ACTIVE",
                     resources |-> <<>>]
          /\ ri' = 1 /\ seenIds' = {}
          /\ pc' = "walk"
          /\ UNCHANGED <<exit, out>>
  /\ UNCHANGED <<flags, env, cluster, built, names, ni, infos>>

\* one resource in topological order: unresolved is PENDING; otherwise Get
\* it: NotFound is PENDING, another error ERROR, found is ACTIVE and handed
\* to rt.SetResource before rt.Synchronize
GetResourceRow ==
  /\ pc = "walk" /\ ri <= Len(Order)
  /\ LET id == Order[ri]
         Row(st) == cur' = [cur EXCEPT !.resources = Append(@, [id |-> id, state |-> st])]
     IN \/ /\ ~Resolved(id, seenIds)
           /\ Row("PENDING") /\ UNCHANGED seenIds
        \/ /\ Resolved(id, seenIds)
           /\ id \notin cluster.objs[cur.name]
           /\ Row("PENDING") /\ UNCHANGED seenIds
        \/ /\ Resolved(id, seenIds)
           /\ Row("ERROR") /\ UNCHANGED seenIds
        \/ /\ Resolved(id, seenIds)
           /\ id \in cluster.objs[cur.name]
           /\ Row("ACTIVE") /\ seenIds' = seenIds \cup {id}
  /\ ri' = ri + 1
  /\ UNCHANGED <<flags, env, cluster, pc, exit, built, out, names, ni, infos>>

\* the loop over names: keep the InstanceInfo and go to the next name
AppendInfo ==
  /\ pc = "walk" /\ ri > Len(Order)
  /\ infos' = Append(infos, cur)
  /\ IF ni < Len(names) THEN ni' = ni + 1 /\ pc' = "instance"
     ELSE pc' = "render" /\ UNCHANGED ni
  /\ UNCHANGED <<flags, env, cluster, exit, built, out, names, ri, seenIds, cur>>

\* the table: one row per instance followed by one row per resource
Render ==
  /\ pc = "render"
  /\ Finish("ok", [kind |-> "table", rules |-> <<>>, table |-> infos])
  /\ UNCHANGED <<flags, env, cluster, built, names, ni, ri, seenIds, cur, infos>>

(***************************************************************************)
(* Other actors: users delete instances; the controller removes resources  *)
(* and, once they are gone, the finalizer; anyone may delete a resource.   *)
(* Only their steps while `get instance` reads the cluster are kept: one   *)
(* before is another initial cluster, one after is seen by nobody.         *)
(***************************************************************************)

Reading == pc \in {"list", "instance", "walk"}

StartDelete(i) ==
  /\ Reading
  /\ cluster.ins[i] = "live"
  /\ cluster' = [cluster EXCEPT !.ins[i] = "deleting"]
  /\ UNCHANGED <<flags, env, pc, exit, built, out, names, ni, ri, seenIds, cur, infos>>

DeleteResource(i, id) ==
  /\ Reading
  /\ id \in cluster.objs[i]
  /\ cluster' = [cluster EXCEPT !.objs[i] = @ \ {id}]
  /\ UNCHANGED <<flags, env, pc, exit, built, out, names, ni, ri, seenIds, cur, infos>>

FinishDelete(i) ==
  /\ Reading
  /\ cluster.ins[i] = "deleting" /\ cluster.objs[i] = {}
  /\ cluster' = [cluster EXCEPT !.ins[i] = "none"]
  /\ UNCHANGED <<flags, env, pc, exit, built, out, names, ni, ri, seenIds, cur, infos>>

(***************************************************************************)
(* Specification                                                           *)
(***************************************************************************)

\* objects the controller has created: every resource after those it needs
Created == {S \in SUBSET Ids : \A id \in S : DependsOn[id] \subseteq S}

Clusters ==
  {c \in [ins : [Instances -> {"none", "live", "deleting"}],
          objs : [Instances -> Created]] :
     \A i \in Instances : c.ins[i] = "none" => c.objs[i] = {}}

NoCluster == [ins |-> [i \in Instances |-> "none"], objs |-> [i \in Instances |-> {}]]

\* the file is read unless `get instance` takes the ResourceGroup from the
\* cluster (-r), which reads nothing else
Envs(f) ==
  LET stored == f.cmd = "get" /\ ~f.fromFile IN
  [file : IF stored THEN {"ok"} ELSE {"absent", "badYaml", "ok"},
   stored : IF stored THEN BOOLEAN ELSE {TRUE},
   client : BOOLEAN, discovery : BOOLEAN, valid : BOOLEAN]

\* the instances matter only to a `get instance` that reaches its List
Reaches(f, e) == f.cmd = "get" /\ e.client /\ e.discovery /\ e.valid

Init ==
  /\ flags \in Flags
  /\ env \in Envs(flags)
  /\ cluster \in IF Reaches(flags, env) THEN Clusters ELSE {NoCluster}
  /\ pc = "start" /\ exit = "running" /\ built = FALSE
  /\ out = Printed("none")
  /\ names = <<>> /\ ni = 0 /\ ri = 0 /\ seenIds = {}
  /\ cur = [name |-> "none", state |-> "none", resources |-> <<>>]
  /\ infos = <<>>

Next ==
  \/ Validate \/ GenerateRBAC \/ GenerateCRD
  \/ GetLoad \/ ListInstances \/ GetInstance \/ GetResourceRow \/ AppendInfo \/ Render
  \/ \E i \in Instances : StartDelete(i) \/ FinishDelete(i)
                          \/ \E id \in Ids : DeleteResource(i, id)

Spec == Init /\ [][Next]_vars

(***************************************************************************)
(* Properties                                                              *)
(***************************************************************************)

States == {"ACTIVE", "PENDING", "ERROR"}

Rule == [apiGroup : ToSet(GroupOrder), resources : Seq({Gvr[id].resource : id \in Ids})]

Info == [name : Instances, state : {"ACTIVE", "DELETING"},
         resources : Seq([id : Ids, state : States])]

TypeOK ==
  /\ flags \in Flags
  /\ pc \in {"start", "list", "instance", "walk", "render", "exit"}
  /\ exit \in {"running", "ok", "err"}
  /\ out.kind \in {"none", "valid", "invalid", "blank", "crd", "ClusterRole", "Role", "table"}
  /\ \A k \in DOMAIN out.rules : out.rules[k] \in Rule
  /\ \A k \in DOMAIN out.table : out.table[k] \in Info
  /\ seenIds \subseteq Ids

\* The (group, resource) pairs a rule list grants
Granted(rules) ==
  UNION {{[group |-> rules[k].apiGroup, resource |-> r] : r \in ToSet(rules[k].resources)} :
           k \in DOMAIN rules}

\* The generated Role or ClusterRole grants exactly the kinds of the graph's
\* resources, against the reference {Gvr[id]}: one rule per API group, and
\* each resource listed once in its group's rule, however many resources
\* of the graph share a kind and in whatever topological order they come.
RulesCoverGVRs ==
  out.kind \in {"ClusterRole", "Role"} =>
     /\ Granted(out.rules) = {Gvr[id] : id \in Ids}
     /\ IsInjective([k \in DOMAIN out.rules |-> out.rules[k].apiGroup])
     /\ \A k \in DOMAIN out.rules : IsInjective(out.rules[k].resources)

\* A command that exits 0 did its job: `validate rg` printed "valid" only
\* for a ResourceGroup the graph builder accepted, `generate rbac` printed a
\* Role or ClusterRole, `generate crd` a CRD, and `get instance` its table.
ExitHonest ==
  exit = "ok" =>
     /\ built
     /\ out.kind \in CASE flags.cmd = "validate" -> {"valid"}
                       [] flags.cmd = "rbac"     -> {"ClusterRole", "Role"}
                       [] flags.cmd = "crd"      -> {"crd"}
                       [] OTHER                  -> {"table"}

====
