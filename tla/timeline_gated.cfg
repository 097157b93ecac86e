CONSTANTS
  Ring <- MCRing
  ShaderFlow = FALSE
  CnnInterop = TRUE
  PackPass = TRUE
  Gated = TRUE
  SubmitMayFail = FALSE
  MaxCalls <- MCMaxCalls
SPECIFICATION FairSpec
CHECK_DEADLOCK FALSE
INVARIANTS
  OutputStable
  NeverStuck
PROPERTIES
  SyncReached
  HostReturns
  ImplementsFrameOrder
