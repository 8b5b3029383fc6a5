\* An invocation ends; only deletions by other actors may follow it.
CONSTANTS
  Ids <- MCIds
  Order <- MCOrder
  DependsOn <- MCDependsOn
  Gvr <- MCGvr
  GroupOrder <- MCGroupOrder
  Instances <- MCInstances
  InstanceOrder <- MCInstanceOrder
  Scopes <- MCScopes
  Outputs <- MCOutputs
  NameOrder <- MCNameOrder
  Inputs <- MCInputs
SPECIFICATION Spec
INVARIANT TypeOK
INVARIANT RulesCoverGVRs
INVARIANT BuilderTestsPass
 
INVARIANT BuilderOrderWellFormed
CHECK_DEADLOCK FALSE
