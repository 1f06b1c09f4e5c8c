SPECIFICATION Spec
CONSTANTS
  MAX_FILES = 2
  MAX_FILE_SIZE = 1
  SECTOR_SIZE = 52
  COUNT_MOD = 8
  NUL = "0"
  Part <- MCPart
  ShortPart <- MCAllShort
  Names <- MCShortNames
  LongNames = {}
  Trunc <- MCNoTrunc
  Block = {"Z", "A", "B"}
  ZERO = "Z"
  WILD = "?"
  Contents <- MCOneText
  README <- MCREADME
  README_TEXT <- MCText1
  InitDisks <- MCZeroDisk
  Strays <- MCStrays
  Faults = {"power"}
INVARIANTS
  ListsAllFiles
