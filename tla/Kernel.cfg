SPECIFICATION FairSpec
CONSTANTS
  d1 = d1
  d2 = d2
  Units <- MCUnits
  Ours = 0
  LBA = {0, 1}
  Data <- MCData
  NOISE = NOISE
  LIMIT = 2
  ID_LIMIT = 2
  Bytes <- MCBytes
  NUL = "NUL"
  ONES = "ones"
  LOOP = "loop"
  Messages <- MCMessages
  BUFFER = 3
  FIFO = 2
  INT_BITS = 5
  JUNK <- MCJunk
  Sessions <- MCSessions
  Expressions <- MCExpressions
INVARIANTS
  TypeOK
  PrintedInOrder
  ReadInOrder
  CalcExact
PROPERTIES
  OnlyOursWritten
  ImplementsSectorDrive
  ComesBack
