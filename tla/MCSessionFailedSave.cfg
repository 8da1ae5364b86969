CONSTANTS
  Text = {Blank, t1, t2}
  Blank = Blank
  Path = {p1, p2}
  None = None
  Absent = Absent
  Foreign = Foreign
SPECIFICATION Spec
INVARIANT
  AskedAfterFailedSave
