SPECIFICATION Spec
CONSTANTS
  Chars = {"a"}
  Texts <- MCTexts
  Fds = {0, 1, 2, 3}
  TableSize = 2
  BUFF_SIZE = 2
  MaxOpens = 2
  MaxFailures = 2
INVARIANTS
  TypeOK
  Lossless
  LinesWhole
  PiecesInOrder
  MemorySafe
PROPERTIES
  CallsReturn
