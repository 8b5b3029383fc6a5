\* The compiler stops once the spec schema is built or an error returns.
CONSTANTS
  CustomNames <- MCCustomNames
  TypeDecls <- MCTypeDecls
  SpecDecls <- MCSpecDecls
SPECIFICATION Spec
CHECK_DEADLOCK FALSE
INVARIANT MarkersHonoured
