CONSTANTS
  Char = {a, b}
  Attribute = {bold, italic}
  MaxChars = 3
SPECIFICATION Spec
SYMMETRY Letters
INVARIANTS
  InsertIsExact
  DeleteIsExact
  SplitJoins
  ApplyIsExact
  BuffersSuffice
  StepsOverOneChar
