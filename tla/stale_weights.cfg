\* The allocator hands out the address of a deleted model again.
SPECIFICATION Spec
CONSTANTS
  Contexts = {c1}
  Addresses = {a1, a2}
  Weights = {w1, w2}
  InputFirst = TRUE
  MaxFrames = 2
  NetExtents = {1, 2, 7, 8, 9, 16, 18, 32}
  NetBases = {1, 24}
INVARIANT UsesLoadedWeights
CHECK_DEADLOCK FALSE
