\* Two terminals: logins and publishes run at the same time.
CONSTANTS
  Logins <- MCLogins
  Publishes <- MCPublishes
  Registries <- MCRegistries
  Tokens <- MCTokens
  Serial = FALSE
  Crashes = FALSE
SPECIFICATION Spec
\* every invocation ends, so the model stops when all have run
CHECK_DEADLOCK FALSE
INVARIANT NoLostLogin
