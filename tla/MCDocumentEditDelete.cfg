CONSTANTS
  Char = {a, b}
  Attribute = {}
  SP = SP
  NL = NL
  MaxText = 3
  MaxClip = 1
SPECIFICATION Spec
INVARIANT
  DeleteRemovesSelection
CHECK_DEADLOCK FALSE
