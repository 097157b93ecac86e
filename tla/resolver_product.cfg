SPECIFICATION Spec
CONSTANTS
  Capabilities <- MCCapabilities
  Preferences <- MCPreferences
  MaxHint = 100
INVARIANTS
  Optimal
  FailsOnlyForCause
  AutoResolves
  FillsMost
  ConstraintExplained
CHECK_DEADLOCK FALSE
