\* Custom-resource kinds: the server keeps empty maps and lists.
CONSTANTS
  ServerManagedFields <- MCServerManagedFields
  DropsEmpty = FALSE
  DesiredObjects <- MCDesiredObjects
  LiveObjects <- MCLiveObjects
  Stamps <- MCStamps
SPECIFICATION Spec
INVARIANT TypeOK
PROPERTY ApplyConverges
