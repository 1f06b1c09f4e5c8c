SPECIFICATION Spec
CONSTANTS
  MAX_FILES = 2
  MAX_FILE_SIZE = 1
  SECTOR_SIZE = 64
  COUNT_MOD = 3
  NUL = "0"
  Part <- MCPart
  ShortPart <- MCShortPart
  Names <- MCTwoNames
  LongNames = {}
  Trunc <- MCNoTrunc
  Block = {"Z", "A", "B"}
  ZERO = "Z"
  WILD = "?"
  Contents <- MCContents2
  README <- MCREADME
  README_TEXT <- MCText1
  InitDisks <- MCOwnDisks
  Strays <- MCStrays
  Faults = {"read"}
INVARIANTS
  DurableOnDisk
