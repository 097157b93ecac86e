CONSTANTS
  Second = 4
  DisplayHz = 2
  Multipliers = {0, 3}
  Hints = {"balanced", "perf"}
  DefaultHints = "balanced"
  MaxTime = 11
SPECIFICATION FairSpec
CHECK_DEADLOCK FALSE
INVARIANTS
  SlotsSpaced
  NoBurst
  WaitBounded
PROPERTIES
  TargetsKept
  WaitReturns
