SPECIFICATION Spec
CONSTANTS
  Dotted <- MCDotted
  NameRank <- MCNameRank
  Names <- MCNames
  MaxSyms <- MCMaxSyms
  Files <- MCFiles
INVARIANTS
  TypeOK
  ListsExactly
  ListsExternal
  OutSorted
  LettersAgree
  SectionLetters
