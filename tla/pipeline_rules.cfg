CONSTANTS
  TheDevice <- Hardware
  Info <- TierA
  Reregister = FALSE
  AuxVaries = FALSE
  MayFail = FALSE
SPECIFICATION Spec
CHECK_DEADLOCK FALSE
INVARIANTS
  ReadsRegistered
  NoLeak
  NoDoubleFree
