SPECIFICATION Spec
CONSTANTS
  Recorded = {response}
  Copies = {}
  Replacements = {replacement}
  Limits = {3}
  Pipe = 1
  MaxChunks = 2
  MaxLayout = 1
INVARIANT
  BudgetCountsRetained
CHECK_DEADLOCK FALSE
