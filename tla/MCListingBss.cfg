SPECIFICATION Spec
CONSTANTS
  Dotted <- MCDotted
  NameRank <- MCNameRank
  Names <- MCNames
  MaxSyms <- MCMaxSyms
  Files <- KindFiles
INVARIANTS
  BssHasBothFlags
