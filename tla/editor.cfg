SPECIFICATION Spec
CONSTANTS
  None = None
  Typed <- MCTyped
  Texts <- MCTexts
  MaxUndo = 1
  IndentWidth = 2
  MaxEdits = 2
  MaxLine = 2
  MaxLines = 2
INVARIANTS
  PositionsInside
PROPERTIES
  EditsCanBeUndone
