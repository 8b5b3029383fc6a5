\* One command at a time; a login may be killed inside os.WriteFile.
CONSTANTS
  Logins <- MCLogins
  Publishes <- MCPublishes
  Registries <- MCRegistries
  Tokens <- MCTokens
  Serial = TRUE
  Crashes = TRUE
SPECIFICATION Spec
\* every invocation ends, so the model stops when all have run
CHECK_DEADLOCK FALSE
INVARIANT TypeOK
PROPERTY ImplementsCredentialStore
