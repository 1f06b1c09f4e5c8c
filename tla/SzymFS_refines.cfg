SPECIFICATION CallSpec
CONSTANTS
  MAX_FILES = 2
  MAX_FILE_SIZE = 1
  SECTOR_SIZE = 128
  COUNT_MOD = 3
  NUL = "0"
  Part <- MCPart
  ShortPart <- MCAllShort
  Names <- MCShortNames
  LongNames = {}
  Trunc <- MCNoTrunc
  Block = {"Z", "A", "B"}
  ZERO = "Z"
  WILD = "?"
  Contents <- MCContents3
  README <- MCREADME
  README_TEXT <- MCText1
  InitDisks <- MCForeignDisk
  Strays <- MCStrays
  Faults = {}
INVARIANTS
  CountMatches
PROPERTIES
  ImplementsFileStore
