SPECIFICATION FairSpec
CONSTANTS
  Recorded = {response}
  Copies = {}
  Replacements = {replacement}
  Limits = {2}
  Pipe = 1
  MaxChunks = 2
  MaxLayout = 1
INVARIANTS
  TypeOK
  BudgetBalances
  CompleteIsWhole
PROPERTIES
  RecordingSettles
  BuildEnds
CHECK_DEADLOCK FALSE
