SPECIFICATION Spec
CONSTANTS
  MantBits = 4
  Bias = 3
  Floats <- MCFloats
  Precisions <- MCPrecisions
INVARIANTS
  PartsExact
  RoundedNearest
  HalfToEven
