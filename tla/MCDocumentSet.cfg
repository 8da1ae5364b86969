CONSTANTS
  Doc = {d1, d2, d3, d4}
  Main = main
  note = note
  note1 = note1
  Name = {main, note, note1}
  NoDoc = NoDoc
  NoName = NoName
  Suffixed <- SuffixedDef
  MaxDocs = 3
SPECIFICATION Spec
SYMMETRY Objects
INVARIANTS
  IndexConsistent
  SelectedIsOpen
PROPERTIES
  OthersStay
  ImplementsDocumentList
