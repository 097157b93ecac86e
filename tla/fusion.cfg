\* Two contexts that share the stream, an allocator that hands out the addresses of
\* deleted models again, and frame sizes that halve evenly, oddly and down to one
\* pixel, on both sides of what k_im2col can index.
SPECIFICATION Spec
CONSTANTS
  Contexts = {c1, c2}
  Addresses = {a1, a2}
  Weights = {w1, w2}
  InputFirst = TRUE
  MaxFrames = 2
  NetExtents = {1, 2, 7, 8, 9, 16, 18, 32, 1080, 1440, 1920, 2560}
  NetBases = {1, 24}
INVARIANTS
  StaleOnlyByReuse
  InteropUnused
  SameNetwork
  TemporariesReturned
  NeverStuck
PROPERTY
  CallReturns
CHECK_DEADLOCK FALSE
