------------------------------- MODULE Delta -------------------------------
(***************************************************************************)
(* The delta computer of the instance controller                           *)
(* (pkg/controller/instance/delta/delta.go).  Compare strips server-owned  *)
(* metadata from copies of the desired and the observed object and walks  *)
(* them, returning the differences that make the controller re-apply.      *)
(*                                                                         *)
(* Structured values (Go's interface{} trees of an unstructured object)    *)
(* are tagged records: nil, a primitive, a map (a function from a set of   *)
(* keys) or a list (a sequence).  Go iterates maps in random order, so the *)
(* differences are a set; the path of a difference is the sequence of the  *)
(* keys and indices that fmt.Sprintf joins into "a.b[0]".                  *)
(***************************************************************************)
EXTENDS Naturals, Sequences, FiniteSets, Functions

CONSTANT ServerManagedFields   \* the metadata fields cleanMetadata deletes

NilV       == [kind |-> "nil"]
Prim(p)    == [kind |-> "prim", val |-> p]
\* a number as an unstructured tree holds it: Go's int64 or float64 of value n
Num(type, n) == [kind |-> "prim", val |-> n, type |-> type]
MapV(f)    == [kind |-> "map", fields |-> f]
ListV(s)   == [kind |-> "list", elems |-> s]
NoFields   == [k \in {} |-> NilV]
EmptyMap   == MapV(NoFields)

\* observed[k] on a key the map lacks yields Go's nil interface
Lookup(f, k) == IF k \in DOMAIN f THEN f[k] ELSE NilV

\* type Difference struct {Path, Desired, Observed}
Difference(path, d, o) == [path |-> path, desired |-> d, observed |-> o]

(***************************************************************************)
(* cleanMetadata: drop empty annotations and labels, then every field of   *)
(* fieldsToRemove.  An object whose metadata is not a map is left alone.   *)
(***************************************************************************)
IsEmptyMap(v) == v.kind = "map" /\ DOMAIN v.fields = {}

\* mutant: empty annotations and labels are kept
cleanMetadataKeepEmpty(obj) ==
  IF "metadata" \notin DOMAIN obj.fields \/ obj.fields["metadata"].kind # "map"
  THEN obj
  ELSE LET md == obj.fields["metadata"].fields
       IN  MapV([obj.fields EXCEPT !["metadata"] =
                    MapV(Restrict(md, DOMAIN md \ ServerManagedFields))])

cleanMetadata(obj) ==
  IF "metadata" \notin DOMAIN obj.fields \/ obj.fields["metadata"].kind # "map"
  THEN obj
  ELSE LET md    == obj.fields["metadata"].fields
           empty == {k \in {"annotations", "labels"} \cap DOMAIN md :
                        IsEmptyMap(md[k])}
       IN  MapV([obj.fields EXCEPT !["metadata"] =
                    MapV(Restrict(md, DOMAIN md \ (empty \cup ServerManagedFields)))])

(***************************************************************************)
(* walkCompare / walkMap / walkSlice.  A map or list against a value of    *)
(* another shape is one difference; any other value is compared with Go's *)
(* interface equality.  A key only the observed side has is ignored; a key *)
(* only the desired side has is a difference unless its value is nil.     *)
(* Lists of different lengths are one difference at the list's path.      *)
(***************************************************************************)
RECURSIVE walkCompare(_, _, _), walkMap(_, _, _), walkSlice(_, _, _)

walkCompare(desired, observed, path) ==
  CASE desired.kind = "map" ->
         IF observed.kind # "map" THEN {Difference(path, desired, observed)}
         ELSE walkMap(desired.fields, observed.fields, path)
    [] desired.kind = "list" ->
         IF observed.kind # "list" THEN {Difference(path, desired, observed)}
         ELSE walkSlice(desired.elems, observed.elems, path)
    [] OTHER ->
         IF desired # observed THEN {Difference(path, desired, observed)} ELSE {}

walkMap(desired, observed, path) ==
  UNION { IF k \notin DOMAIN observed /\ desired[k] # NilV
          THEN {Difference(Append(path, k), desired[k], NilV)}
          ELSE walkCompare(desired[k], Lookup(observed, k), Append(path, k))
        : k \in DOMAIN desired }

walkSlice(desired, observed, path) ==
  IF Len(desired) # Len(observed)
  THEN {Difference(path, ListV(desired), ListV(observed))}
  ELSE UNION { walkCompare(desired[i], observed[i], Append(path, i))
             : i \in 1..Len(desired) }

\* Compare(desired, observed): the differences between the cleaned copies
Compare(desired, observed) ==
  walkCompare(cleanMetadata(desired), cleanMetadata(observed), <<>>)

=============================================================================
