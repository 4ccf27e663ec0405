SPECIFICATION Spec
CONSTANTS
  LongBits = 5
  IntBits = 4
  ShortBits = 3
  CharBits = 2
  Formats <- MCFormats
  Slots <- MCSlots
  Strings <- MCStrings
  FloatTexts <- MCFloatTexts
  Colors <- MCColors
INVARIANTS
  TypeOK
  CounterCounts
  FieldKept
  ValueKept
PROPERTIES
  EndsAtTerminator
