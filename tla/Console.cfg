SPECIFICATION Spec
CONSTANTS
  VGA_WIDTH = 3
  VGA_HEIGHT = 2
  Glyphs <- MCGlyphs
  BLANK = " "
  NL = "newline"
  BS = "backspace"
  TAB = "tab"
  MAX_COMMAND_LENGTH = 7
  MAX_FILENAME = 3
  WRITE = "w"
  PROMPT <- MCPrompt
  Outputs <- MCOutputs
INVARIANTS
  TypeOK
  LineShown
  RowShown

PROPERTY
  WriteAsTyped
