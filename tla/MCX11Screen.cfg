CONSTANTS
  Glyphs <- MCGlyphs
  Wide = {}
  Sizes <- MCSizes
  Keys <- MCKeys
  Presses <- MCPresses
  Places <- MCPlaces
  ZeroWidth = {"zw"}
  QueueSize = 2
  MaxEvents = 2
SPECIFICATION FairSpec
CHECK_DEADLOCK FALSE
INVARIANTS
  TypeOK
  WindowShowsBuffer
  KeysInOrder
  ResizeIsTold
PROPERTY
  EventsAreAnswered
