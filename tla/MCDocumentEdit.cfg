CONSTANTS
  Char = {a, b}
  Attribute = {bold}
  SP = SP
  NL = NL
  MaxText = 3
  MaxClip = 1
SPECIFICATION Spec
SYMMETRY Letters
INVARIANTS
  CursorWordExists
  LooseMarkInDocument
  DeleteIsExact
  CutAndPaste
PROPERTY
  ImplementsTextBuffer
CONSTRAINT
  CopyIsPlain
CHECK_DEADLOCK FALSE
