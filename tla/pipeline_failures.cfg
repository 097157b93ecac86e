CONSTANTS
  TheDevice <- Hardware
  Info <- TierB
  Reregister = FALSE
  AuxVaries = FALSE
  MayFail = TRUE
SPECIFICATION Spec
CHECK_DEADLOCK FALSE
VIEW WithoutHistory
INVARIANTS
  BuiltComplete
PROPERTIES
  IdleFirst
