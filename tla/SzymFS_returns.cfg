SPECIFICATION FairSpec
CONSTANTS
  MAX_FILES = 1
  MAX_FILE_SIZE = 1
  SECTOR_SIZE = 36
  COUNT_MOD = 3
  NUL = "0"
  Part <- MCPart
  ShortPart <- MCShortPart
  Names <- MCTwoNames
  LongNames <- MCTooLong
  Trunc <- MCTrunc
  Block = {"Z", "A", "B"}
  ZERO = "Z"
  WILD = "?"
  Contents <- MCOneText
  README <- MCREADME
  README_TEXT <- MCText1
  InitDisks <- MCZeroDisk
  Strays <- MCJunkStrays
  Faults = {"read", "write", "late", "probe", "lost", "power"}
INVARIANTS
  TypeOK
PROPERTIES
  CallsReturn
