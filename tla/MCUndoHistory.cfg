CONSTANTS
  Paragraph = {p1, p2, p3, p4, p5, p6, p7}
  STACKSIZE = 4
  MaxParas = 2
SYMMETRY ParagraphSymmetry
SPECIFICATION Spec
INVARIANTS
  StackBound
  NeighboursDiffer
PROPERTIES
  NoRedoAfterEdit
  ImplementsTimeline
