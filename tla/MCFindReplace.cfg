CONSTANTS
  c1 = c1
  c2 = c2
  Char = {c1, c2}
  Attribute = {}
  SP = SP
  NL = NL
  MaxText = 4
  MaxClip = 0
  Documents <- MCDocuments
  Texts <- MCTexts
  Replacements <- MCReplacements
SPECIFICATION FairSearch
INVARIANTS
  FoundIsText
  NothingOverlooked
  ReplaceIsExact
PROPERTY
  SearchEnds
CHECK_DEADLOCK FALSE
