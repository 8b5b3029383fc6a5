------------------------------ MODULE ApiServer ------------------------------
(***************************************************************************)
(* The cluster API server as the delta computer meets it: what a           *)
(* server-side apply of a desired object leaves stored.  This is the       *)
(* external collaborator of spec section 6 (serverSideApply), not code of  *)
(* the repository.                                                         *)
(*                                                                         *)
(*  - Merge: maps merge key by key.  A key the applier sets is merged, a  *)
(*    nil desired value removes it, a key the applier set in its previous  *)
(*    apply and now leaves out is removed (it owned the field), and every  *)
(*    other key stays (owned by other managers).  Lists and primitives     *)
(*    are replaced.                                                        *)
(*  - Normalise: the stored object is re-encoded from Go types.  Metadata  *)
(*    is always ObjectMeta, whose labels and annotations are omitempty, so *)
(*    empty ones vanish.  When DropsEmpty holds (built-in kinds such as    *)
(*    ConfigMap, whose fields are omitempty), every empty map or list      *)
(*    vanishes; custom resources (DropsEmpty false) keep them.             *)
(*  - Decode: the client reads the stored object back as JSON through the *)
(*    unstructured decoder, which yields int64 for a number written        *)
(*    without a fraction; encoding/json writes a float64 of integral value *)
(*    that way, so such a float64 comes back as an int64.                  *)
(*  - Stamp: the server writes its own metadata (uid, resourceVersion).    *)
(***************************************************************************)
EXTENDS Delta, TLC

CONSTANT DropsEmpty   \* BOOLEAN: the kind's Go type omits empty fields

IsEmptyValue(v) == IsEmptyMap(v) \/ (v.kind = "list" /\ v.elems = <<>>)

\* the JSON round trip of every number below v (numbers are integral here).
\* Merge applies it to every value the desired object sets; the values it
\* keeps from the stored object have been through it already.
RECURSIVE Decode(_)
Decode(v) ==
  CASE v.kind = "map"  -> MapV([k \in DOMAIN v.fields |-> Decode(v.fields[k])])
    [] v.kind = "list" -> ListV([i \in DOMAIN v.elems |-> Decode(v.elems[i])])
    [] "type" \in DOMAIN v -> Num("int64", v.val)
    [] OTHER -> v

\* the keys of a map value (none for anything else)
Keys(v) == IF v.kind = "map" THEN DOMAIN v.fields ELSE {}

\* d merged over the stored value o, where a is what the same applier sent
\* at this place in its previous apply (NilV: nothing)
RECURSIVE Merge(_, _, _)
Merge(d, o, a) ==
  IF d.kind = "map"
  THEN LET base  == IF o.kind = "map" THEN o.fields ELSE NoFields
           prior == IF a.kind = "map" THEN a.fields ELSE NoFields
           set   == {k \in DOMAIN d.fields : d.fields[k] # NilV}
           owned == {k \in Keys(a) : prior[k] # NilV}
           keep  == DOMAIN base \ (DOMAIN d.fields \cup owned)
       IN  MapV([k \in set \cup keep |->
                   IF k \in set THEN Merge(d.fields[k], Lookup(base, k), Lookup(prior, k))
                   ELSE base[k]])
  ELSE Decode(d)

\* every empty map or list below v is dropped
RECURSIVE Prune(_)
Prune(v) ==
  CASE v.kind = "map" ->
         LET f == [k \in DOMAIN v.fields |-> Prune(v.fields[k])]
         IN  MapV(Restrict(f, {k \in DOMAIN f : ~IsEmptyValue(f[k])}))
    [] v.kind = "list" -> ListV([i \in DOMAIN v.elems |-> Prune(v.elems[i])])
    [] OTHER -> v

\* ObjectMeta drops empty labels and annotations, whatever the kind
PruneMeta(obj) ==
  IF "metadata" \notin DOMAIN obj.fields \/ obj.fields["metadata"].kind # "map"
  THEN obj
  ELSE LET md == obj.fields["metadata"].fields
       IN  MapV([obj.fields EXCEPT !["metadata"] =
                   MapV(Restrict(md, {k \in DOMAIN md :
                      ~(k \in {"labels", "annotations"} /\ IsEmptyMap(md[k]))}))])

Normalise(obj) == IF DropsEmpty THEN PruneMeta(Prune(obj)) ELSE PruneMeta(obj)

\* the server sets each of its metadata fields to the value s
Stamp(obj, s) ==
  LET md == Lookup(obj.fields, "metadata")
      f  == IF md.kind = "map" THEN md.fields ELSE NoFields
  IN  MapV(("metadata" :> MapV([k \in DOMAIN f \cup ServerManagedFields |->
                   IF k \in ServerManagedFields THEN Prim(s) ELSE f[k]]))
            @@ obj.fields)

\* the object stored after a server-side apply of d over o (NilV: absent)
\* by the applier whose previous apply sent a
ServerApply(d, o, a, s) == Stamp(Normalise(Merge(d, IF o = NilV THEN EmptyMap ELSE o, a)), s)

\* the object with every server-written metadata field removed
WithoutServerFields(obj) ==
  LET md == obj.fields["metadata"].fields
  IN  MapV([obj.fields EXCEPT !["metadata"] =
             MapV(Restrict(md, DOMAIN md \ ServerManagedFields))])

=============================================================================
