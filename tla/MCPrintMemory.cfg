SPECIFICATION MemorySpec
CONSTANTS
  LongBits = 6
  IntBits = 5
  ShortBits = 4
  CharBits = 3
  MantBits = 2
  Conversion <- MCConversion
INVARIANTS
  AllOrNothing
  BlocksRespected
  LeaksKnown
