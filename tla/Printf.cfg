SPECIFICATION Spec
CONSTANTS
  WordBits = 5
  IntBits = 4
  NtoaSize = 4
  SizeMax = 31
  Memory = {0, 1, 2, 3, 4, 5, 6, 7, 8, 9}
  Characters <- AllCharacters
  Calls <- Both
  NULL = NULL
  FONT_WIDTH = 8
  FONT_HEIGHT = 16
  FbWidth = 93
  FbHeight = 118
  Margin = 32
INVARIANTS
  NumbersAsInC
  OutputContract
  TextOnScreen
CHECK_DEADLOCK FALSE
