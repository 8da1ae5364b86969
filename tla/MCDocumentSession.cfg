CONSTANTS
  Text = {Blank, t1, t2}
  Blank = Blank
  Path = {p1, p2}
  None = None
  Absent = Absent
  Foreign = Foreign
SPECIFICATION Spec
SYMMETRY Paths
INVARIANTS
  UnsavedIsExplained
  EveryTouchCounted
