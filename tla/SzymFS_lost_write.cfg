SPECIFICATION Spec
CONSTANTS
  MAX_FILES = 2
  MAX_FILE_SIZE = 1
  SECTOR_SIZE = 64
  COUNT_MOD = 3
  NUL = "0"
  Part <- MCPart
  ShortPart <- MCShortPart
  Names <- MCOneName
  LongNames = {}
  Trunc <- MCNoTrunc
  Block = {"Z", "A", "B"}
  ZERO = "Z"
  WILD = "?"
  Contents <- MCOneText
  README <- MCREADME
  README_TEXT <- MCText1
  InitDisks <- MCZeroDisk
  Strays <- MCStrays
  Faults = {"lost"}
INVARIANTS
  SavedMeansOnDisk
