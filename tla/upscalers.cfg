\* One creation failure of each kind that matters.
SPECIFICATION Spec
CONSTANTS
  Failing <- MCFailing
  Retries = FALSE
  MaxCalls = 5
INVARIANTS
  HistoryChained
  NothingLeft
CHECK_DEADLOCK FALSE
