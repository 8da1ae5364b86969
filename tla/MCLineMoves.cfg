CONSTANTS
  Paragraphs <- MCAll
  Documents <- MCDocuments
  Widths = {4, 6}
  FullStops = TRUE
SPECIFICATION FairSpec
INVARIANTS
  LinesPartition
  LinesFit
  LinesFull
  KeyMovesOneLine
  LandsAtColumn
PROPERTIES
  KeyEnds
