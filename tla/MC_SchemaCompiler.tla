------------------------- MODULE MC_SchemaCompiler -------------------------
(***************************************************************************)
(* Small "types:" and "spec:" sections.  Types: none; one type T1 over a   *)
(* string or an array; a chain T2 -> T1; a cycle T1 <-> T2.  Spec: two     *)
(* fields f and g, or a field f and a nested object o with one field c.    *)
(* Each field is a string, integer or array, or of type T1, with at most   *)
(* one marker (the violation runs pick the pairs of markers they need).    *)
(***************************************************************************)
EXTENDS SchemaCompiler

M(k, v) == [key |-> k, value |-> v]
T(w) == <<w>>

Leaf(t, ms) == [kind |-> "leaf", type |-> t, markers |-> ms]
TypeDecl(b, ms) == [base |-> b, markers |-> ms]

TypeMarkers ==
  {<<>>, <<M("required", T("true"))>>, <<M("required", T("True"))>>,
   <<M("default", T("x"))>>,
   <<M("immutable", T("true"))>>, <<M("minLength", T("1"))>>,
   <<M("uniqueItems", T("true"))>>}

FieldMarkers ==
  {<<>>, <<M("required", T("true"))>>, <<M("required", T("x"))>>,
   <<M("default", T("x"))>>, <<M("minLength", T("1"))>>,
   <<M("uniqueItems", T("true"))>>, <<M("enum", <<"x", ",", "1">>)>>,
   <<M("enum", <<"1", ",", " ">>)>>, <<M("pattern", T("("))>>,
   <<M("validation", T("x"))>>, <<M("immutable", T("true"))>>,
   <<M("maximum", T("1.5"))>>}

FieldTypes == {"string", "integer", "array", "T1"}

MCCustomNames == {"T1", "T2"}

MCTypeDecls ==
  {[n \in {} |-> TypeDecl("string", <<>>)]}
  \cup {"T1" :> TypeDecl(b, ms) : b \in {"string", "array"}, ms \in TypeMarkers}
  \cup {("T1" :> TypeDecl("string", ms)) @@ ("T2" :> TypeDecl("T1", <<>>)) : ms \in TypeMarkers}
  \cup {("T1" :> TypeDecl("T2", <<>>)) @@ ("T2" :> TypeDecl("T1", <<>>))}

Leaves2 == {Leaf(t, ms) : t \in FieldTypes, ms \in FieldMarkers}

MCSpecDecls ==
  {("f" :> l1) @@ ("g" :> l2) : l1, l2 \in Leaves2}
  \cup {("f" :> l1) @@ ("o" :> [kind |-> "object", fields |-> "c" :> l2]) : l1, l2 \in Leaves2}

=============================================================================
