SPECIFICATION Spec
CONSTANTS
  VGA_WIDTH = 5
  VGA_HEIGHT = 2
  Glyphs <- MCGlyphs
  BLANK = " "
  NL = "newline"
  BS = "backspace"
  TAB = "tab"
  MAX_GONE = 1
INVARIANTS
  TypeOK
PROPERTIES
  ImplementsPaper
