\* Built-in kinds with omitempty fields: the server drops empty maps and lists,
\* and a typed binding may yield a double that the server returns as an int.
CONSTANTS
  ServerManagedFields <- MCServerManagedFields
  DropsEmpty = TRUE
  DesiredObjects <- MCDesiredObjectsNum
  LiveObjects <- MCLiveObjectsNum
  Stamps <- MCStamps
SPECIFICATION Spec
INVARIANT ApplyIffDifferent
