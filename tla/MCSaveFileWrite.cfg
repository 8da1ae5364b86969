CONSTANTS
  Version = {v1, v2, v3}
  NoFile = NoFile
SPECIFICATION SaveSpec
INVARIANT
  NewFileIsWhole
