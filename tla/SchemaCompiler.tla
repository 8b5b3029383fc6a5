--------------------------- MODULE SchemaCompiler ---------------------------
(***************************************************************************)
(* The schema compiler's transformer (pkg/simpleschema, markers.go: the    *)
(* transformer with loadCustomTypes, buildSchema, buildFieldFromString and *)
(* applyMarkers).  Named custom types are built first, in a topological    *)
(* order of their references; then the fields of the spec are built one by *)
(* one, in Go's map iteration order, which is any order.                   *)
(*                                                                         *)
(* Marker values are sequences of words: a word stands for a run of runes  *)
(* that strconv and regexp treat alike ("1", "1.5", "true", "True", "x",   *)
(* "(" ...), and "," and " " are kept because strings.Split and            *)
(* strings.TrimSpace look at them.  A schema keeps what the properties     *)
(* read: its type, default, x-kubernetes-validations, required list and    *)
(* properties, and the set of other keywords the markers set.              *)
(***************************************************************************)
EXTENDS Naturals, SequencesExt

CONSTANTS
  CustomNames,   \* names of the custom types a "types:" section may declare
  TypeDecls,     \* possible "types:" sections: name -> [base, markers]
  SpecDecls      \* possible "spec:" sections: field -> leaf or nested object

Primitives == {"string", "integer", "number", "boolean", "array"}

NoDefault == <<>>     \* Default == nil (a default value is never empty here)
NoError   == "none"

ImmutableRule == <<"self == oldSelf">>   \* the rule, as a word sequence like the others

\* the schema typ.Schema(t) returns for a primitive (the types package)
PrimitiveSchema(t) ==
  [type |-> t, default |-> NoDefault, xvalidations |-> <<>>, kw |-> {},
   required |-> <<>>, properties |-> [f \in {} |-> "none"]]

(***************************************************************************)
(* strconv, strings and regexp on word sequences                           *)
(***************************************************************************)
BoolTrueWords  == {"1", "t", "T", "TRUE", "true", "True"}
BoolFalseWords == {"0", "f", "F", "FALSE", "false", "False"}
IntWords       == {"1"}
FloatWords     == {"1", "1.5"}

ParsesBool(v)  == Len(v) = 1 /\ v[1] \in BoolTrueWords \cup BoolFalseWords
BoolValue(v)   == v[1] \in BoolTrueWords
ParsesInt(v)   == Len(v) = 1 /\ v[1] \in IntWords
ParsesFloat(v) == Len(v) = 1 /\ v[1] \in FloatWords
CompilesRegex(v) == "(" \notin ToSet(v)     \* an unbalanced group

TrimWords(v) ==
  LET keep == {i \in DOMAIN v : v[i] # " "}
  IN  IF keep = {} THEN <<>> ELSE SubSeq(v, Min(keep), Max(keep))

\* strings.Split(v, ",")
RECURSIVE SplitComma(_)
SplitComma(v) ==
  IF "," \notin ToSet(v) THEN <<v>>
  ELSE LET i == Min({j \in DOMAIN v : v[j] = ","})
       IN  <<SubSeq(v, 1, i - 1)>> \o SplitComma(SubSeq(v, i + 1, Len(v)))

(***************************************************************************)
(* applyMarkers: one marker at a time, in order; the first error returns.  *)
(* The result carries the schema and the parent's Required list.           *)
(***************************************************************************)
Ok(s, req)  == [err |-> NoError, schema |-> s, required |-> req]
Err(e, s, req) == [err |-> e, schema |-> s, required |-> req]

\* the schema types a type-restricted marker is valid for
AllowedTypes(kind) ==
  CASE kind \in {"minLength", "maxLength", "pattern"} -> {"string"}
    [] kind \in {"uniqueItems", "minItems", "maxItems"} -> {"array"}
    [] OTHER -> Primitives \cup {"object"}

\* enum values: every comma-separated item must be non-empty; only string
\* and integer schemas allow enum, and integer items must parse as integers
EnumOk(s, v) ==
  LET parts == SplitComma(v)
      items == [i \in DOMAIN parts |-> TrimWords(parts[i])]
  IN  /\ \A i \in DOMAIN items : items[i] # <<>>
      /\ s.type \in {"string", "integer"}
      /\ s.type = "integer" => \A i \in DOMAIN items : ParsesInt(items[i])

SetKw(s, k) == [s EXCEPT !.kw = @ \cup {k}]

\* the marker m applied to schema s of the field key under a parent whose
\* Required list is req
ApplyMarker(s, req, m, key) ==
  LET v == m.value IN
  CASE m.key = "required" ->
         IF ~ParsesBool(v) THEN Err("required", s, req)
         ELSE Ok(s, IF BoolValue(v) THEN Append(req, key) ELSE req)
    [] m.key = "default" -> Ok([s EXCEPT !.default = v], req)
    [] m.key = "description" -> Ok(SetKw(s, "description"), req)
    [] m.key \in {"minimum", "maximum"} ->
         IF ~ParsesFloat(v) THEN Err(m.key, s, req) ELSE Ok(SetKw(s, m.key), req)
    [] m.key = "validation" ->
         IF TrimWords(v) = <<>> THEN Err("validation", s, req)
         ELSE Ok([s EXCEPT !.xvalidations = <<v>>], req)
    [] m.key = "immutable" ->
         IF ~ParsesBool(v) THEN Err("immutable", s, req)
         ELSE Ok(IF BoolValue(v)
                 THEN [s EXCEPT !.xvalidations = Append(@, ImmutableRule)]
                 ELSE s, req)
    [] m.key = "enum" ->
         IF ~EnumOk(s, v) THEN Err("enum", s, req)
         ELSE Ok(SetKw(s, "enum"), req)
    [] m.key \in {"minLength", "maxLength", "minItems", "maxItems"} ->
         IF s.type \notin AllowedTypes(m.key) \/ ~ParsesInt(v) THEN Err(m.key, s, req)
         ELSE Ok(SetKw(s, m.key), req)
    [] m.key = "pattern" ->
         IF v = <<>> \/ s.type \notin AllowedTypes("pattern") \/ ~CompilesRegex(v)
         THEN Err("pattern", s, req) ELSE Ok(SetKw(s, "pattern"), req)
    [] m.key = "uniqueItems" ->
         CASE ~ParsesBool(v) -> Err("uniqueItems", s, req)
           [] s.type \notin AllowedTypes("uniqueItems") -> Err("uniqueItems", s, req)
           [] BoolValue(v) -> Ok(SetKw(s, "listType"), req)
           [] OTHER -> Ok(s, req)

RECURSIVE ApplyFrom(_, _, _, _)
ApplyFrom(r, ms, key, i) ==
  IF r.err # NoError \/ i > Len(ms) THEN r
  ELSE ApplyFrom(ApplyMarker(r.schema, r.required, ms[i], key), ms, key, i + 1)

applyMarkers(schema, markers, key, parentRequired) ==
  ApplyFrom(Ok(schema, parentRequired), markers, key, 1)

(***************************************************************************)
(* The transformer                                                         *)
(***************************************************************************)
VARIABLES
  types,          \* the "types:" section being compiled
  spec,           \* the "spec:" section being compiled
  phase,          \* "sort", "load", "build", "done" or "failed"
  order,          \* custom type names still to load, in topological order
  customTypes,    \* t.customTypes: name -> [schema, required]
  pending,        \* spec fields the map iteration has not reached yet
  root,           \* the object schema buildSchema is building
  childHasDefault,
  error           \* the error returned, once phase = "failed"

vars == <<types, spec, phase, order, customTypes, pending, root, childHasDefault, error>>

ObjectSchema == PrimitiveSchema("object")
ObjectDefault == <<"{}">>

\* the custom names a declaration refers to (typ.Deps())
Deps(d) == IF d.base \in CustomNames THEN {d.base} ELSE {}

\* the orders graph.TopologicalSort may return: every name after its deps;
\* there is none exactly when the references are cyclic
TopoOrders(ts) ==
  {o \in SetToSeqs(DOMAIN ts) :
     \A i, j \in DOMAIN o : o[j] \in Deps(ts[o[i]]) => j < i}

\* Resolve: a copy of the stored schema, or "unknown type"
Resolvable(name) == name \in Primitives \/ name \in DOMAIN customTypes
Resolve(name) ==
  IF name \in Primitives THEN PrimitiveSchema(name) ELSE customTypes[name].schema

IsRequired(name) == name \in DOMAIN customTypes /\ customTypes[name].required

\* mutant: only the last field's default is remembered
HasDefaultAfterLast(acc, fs) == fs.default # NoDefault

\* childHasDefault after the field schema fs has been built
HasDefaultAfter(acc, fs) == acc \/ fs.default # NoDefault

\* mutant: the type's name instead of the field's is made required
buildFieldFromStringTypeName(name, d, req) ==
  IF ~Resolvable(d.type) THEN Err("unknownType", PrimitiveSchema("object"), req)
  ELSE applyMarkers(Resolve(d.type), d.markers, name,
                    IF d.type \in CustomNames /\ IsRequired(d.type)
                    THEN Append(req, d.type) ELSE req)

\* buildFieldFromString: the custom type's required flag is appended to the
\* parent first, then the field's own markers are applied
buildFieldFromString(name, d, req) ==
  IF ~Resolvable(d.type) THEN Err("unknownType", PrimitiveSchema("object"), req)
  ELSE applyMarkers(Resolve(d.type), d.markers, name,
                    IF d.type \in CustomNames /\ IsRequired(d.type)
                    THEN Append(req, name) ELSE req)

\* buildSchema of a nested object whose fields are strings (taken here in
\* one fixed order of its map)
RECURSIVE BuildFrom(_, _, _, _)
BuildFrom(fields, names, obj, hasDefault) ==
  IF names = <<>>
  THEN Ok(IF hasDefault THEN [obj EXCEPT !.default = ObjectDefault] ELSE obj, <<>>)
  ELSE LET f  == Head(names)
           fs == buildFieldFromString(f, fields[f], obj.required)
       IN  IF fs.err # NoError THEN fs
           ELSE BuildFrom(fields, Tail(names),
                          [obj EXCEPT !.properties = (f :> fs.schema) @@ @,
                                      !.required = fs.required],
                          HasDefaultAfter(hasDefault, fs.schema))

\* buildFieldSchema: a string is a field, a map a nested object
buildFieldSchema(name, d, req) ==
  IF d.kind = "object"
  THEN LET r == BuildFrom(d.fields, SetToSeq(DOMAIN d.fields), ObjectSchema, FALSE)
       IN  [r EXCEPT !.required = req]
  ELSE buildFieldFromString(name, d, req)

Fail(e) ==
  /\ phase' = "failed"
  /\ error' = e

Init ==
  /\ types \in TypeDecls
  /\ spec \in SpecDecls
  /\ phase = "sort"
  /\ order = <<>>
  /\ customTypes = [n \in {} |-> "none"]
  /\ pending = DOMAIN spec
  /\ root = ObjectSchema
  /\ childHasDefault = FALSE
  /\ error = NoError

\* loadCustomTypes up to the topological sort: nothing to do without types;
\* a cycle is an error
SortTypes ==
  /\ phase = "sort"
  /\ CASE DOMAIN types = {} -> phase' = "build" /\ UNCHANGED <<order, error>>
       [] TopoOrders(types) = {} -> Fail("cyclicDependency") /\ UNCHANGED order
       [] OTHER -> /\ order' \in TopoOrders(types)
                   /\ phase' = "load"
                   /\ UNCHANGED error
  /\ UNCHANGED <<types, spec, customTypes, pending, root, childHasDefault>>

\* one iteration of the loop over the order: build the type's schema, track
\* required from a marker whose value is exactly "true", apply the markers
\* against a dummy parent and store the result
LoadType ==
  /\ phase = "load"
  /\ LET name == Head(order)
         d    == types[name]
         r    == applyMarkers(Resolve(d.base), d.markers, name, <<>>)
         req  == \E i \in DOMAIN d.markers :
                   d.markers[i].key = "required" /\ d.markers[i].value = <<"true">>
     IN  IF ~Resolvable(d.base) THEN Fail("unknownType") /\ UNCHANGED <<order, customTypes>>
         ELSE IF r.err # NoError THEN Fail(r.err) /\ UNCHANGED <<order, customTypes>>
         ELSE /\ customTypes' = (name :> [schema |-> r.schema, required |-> req]) @@ customTypes
              /\ order' = Tail(order)
              /\ phase' = IF Tail(order) = <<>> THEN "build" ELSE "load"
              /\ UNCHANGED error
  /\ UNCHANGED <<types, spec, pending, root, childHasDefault>>

\* one iteration of buildSchema's loop over the spec map, in any order
BuildField ==
  /\ phase = "build"
  /\ \E f \in pending :
       LET fs == buildFieldSchema(f, spec[f], root.required) IN
       IF fs.err # NoError THEN Fail(fs.err) /\ UNCHANGED <<pending, root, childHasDefault>>
       ELSE /\ root' = [root EXCEPT !.properties = (f :> fs.schema) @@ @,
                                     !.required = fs.required]
            /\ childHasDefault' = HasDefaultAfter(childHasDefault, fs.schema)
            /\ pending' = pending \ {f}
            /\ UNCHANGED <<phase, error>>
  /\ UNCHANGED <<types, spec, order, customTypes>>

\* after the loop: a child with a default gives the object the default {}
FinishSchema ==
  /\ phase = "build"
  /\ pending = {}
  /\ root' = IF childHasDefault THEN [root EXCEPT !.default = ObjectDefault] ELSE root
  /\ phase' = "done"
  /\ UNCHANGED <<types, spec, order, customTypes, pending, childHasDefault, error>>

Next == SortTypes \/ LoadType \/ BuildField \/ FinishSchema

Spec == Init /\ [][Next]_vars

(***************************************************************************)
(* Properties                                                              *)
(***************************************************************************)
Phases == {"sort", "load", "build", "done", "failed"}

Props(o) == {o.properties[f] : f \in DOMAIN o.properties}

\* the compiled spec schema and every schema below it
Tree == {root} \cup Props(root) \cup UNION {Props(c) : c \in Props(root)}

Leaves == {f \in DOMAIN spec : spec[f].kind = "leaf"}

\* a bool-true marker of kind k on the field f or on its custom type
Marked(f, k) ==
  LET ms == spec[f].markers \o
              (IF spec[f].type \in DOMAIN types THEN types[spec[f].type].markers ELSE <<>>)
  IN  \E i \in DOMAIN ms : ms[i].key = k /\ ParsesBool(ms[i].value) /\ BoolValue(ms[i].value)

TypeOK ==
  /\ phase \in Phases
  /\ order \in Seq(CustomNames)
  /\ DOMAIN customTypes \subseteq CustomNames
  /\ pending \subseteq DOMAIN spec
  /\ root.type = "object"
  /\ root.required \in Seq(DOMAIN spec)
  /\ childHasDefault \in BOOLEAN

\* Defaults propagate through optional containers (spec 4.1 step 4): after
\* buildSchema, whatever order the map was walked in, an object has a
\* default exactly when one of its direct children has one.
DefaultPropagates ==
  phase = "done" =>
    \A o \in Tree :
      o.type = "object" =>
        (o.default # NoDefault <=>
           \E f \in DOMAIN o.properties : o.properties[f].default # NoDefault)

\* required propagates to the parent (spec 4.1 step 3): the parent's
\* Required list names each field that it or its custom type marks
\* required with a value that parses as true (as applyMarkers parses it),
\* each exactly once, and no other field.
RequiredExact ==
  phase = "done" =>
    /\ \A f \in Leaves : (f \in ToSet(root.required)) <=> Marked(f, "required")
    /\ \A i, j \in DOMAIN root.required : i # j => root.required[i] # root.required[j]

\* A field marked immutable (itself or through its custom type) keeps the
\* self == oldSelf validation rule, whatever other markers it carries.
ImmutableKept ==
  phase = "done" =>
    \A f \in Leaves :
      Marked(f, "immutable") => ImmutableRule \in ToSet(root.properties[f].xvalidations)


\* Every marker written on a field reaches the compiled schema: required
\* fields are listed once each in the parent's Required list, and immutable
\* fields keep their validation rule (RequiredExact and ImmutableKept).
MarkersHonoured == RequiredExact /\ ImmutableKept

=============================================================================
