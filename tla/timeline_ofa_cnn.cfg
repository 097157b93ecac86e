CONSTANTS
  Ring <- MCRing
  ShaderFlow = FALSE
  CnnInterop = TRUE
  PackPass = TRUE
  Gated = FALSE
  SubmitMayFail = FALSE
  MaxCalls <- MCMaxCalls
SPECIFICATION Spec
CHECK_DEADLOCK FALSE
INVARIANTS
  NoRace
  InFlightChain
  FusionReadsItsPack
PROPERTIES
  ReuseSafe
  SignalsIncrease
  SyncMeansOutput
