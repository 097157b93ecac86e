CONSTANTS
  TheDevice <- Hardware
  Info <- NoMotion
  Reregister = FALSE
  AuxVaries = FALSE
  MayFail = TRUE
SPECIFICATION Spec
CHECK_DEADLOCK FALSE
INVARIANTS
  NoDoubleFree
