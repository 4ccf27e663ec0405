SPECIFICATION SortSpec
CONSTANTS
  Names <- MCNames
  MaxSyms <- MCMaxSyms
INVARIANTS
  SortTypeOK
  SortInv
  SortedWhenDone
  BuffersHeld
PROPERTIES
  SortsStably
  Terminates
