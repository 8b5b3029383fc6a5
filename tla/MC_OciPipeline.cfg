\* Both install revisions, every reference form, any registry refusal.
CONSTANTS
  RGs <- MCRGs
  Refs <- MCRefs
  Tags <- MCTags
  Pubs <- MCPubs
  Installs <- MCInstalls
  InstallVersions = {1, 2}
  CredFiles <- MCCredFiles
SPECIFICATION Spec
\* every invocation ends, so the model stops when all have run
CHECK_DEADLOCK FALSE
INVARIANT TypeOK
INVARIANT ManifestBlobsPresent
