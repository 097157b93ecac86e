CONSTANTS
  Ring <- MCRing
  ShaderFlow = TRUE
  CnnInterop = FALSE
  PackPass = FALSE
  Gated = FALSE
  SubmitMayFail = FALSE
  MaxCalls <- MCMaxCalls
SPECIFICATION Spec
CHECK_DEADLOCK FALSE
PROPERTIES
  SyncMeansOutput
