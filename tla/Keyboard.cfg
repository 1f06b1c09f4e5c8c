SPECIFICATION Spec
CONSTANTS
  Keys <- MCKeys
  CodeOf <- MCCodeOf
  Prefixed <- MCPrefixed
  Fakers <- MCFakers
  ShiftCodes <- MCShiftCodes
  LSHIFT = "2a"
  E0 = "e0"
  PlainChars <- MCPlainChars
  ShiftedChars <- MCShiftedChars
  QUEUE = 4
  Typists <- MCTypists
INVARIANTS
  TypeOK
  AnswersMeant
  NothingLost
  NoStuckShift
