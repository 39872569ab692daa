SPECIFICATION FairSpec
CONSTANTS
  BufferSize = 2
  ScanBytes = 3
  Sessions <- MCSessions
  MaxReads = 2
  MaxSearches = 2
  Nothing = Nothing
INVARIANTS
  SearchIsRight
  PageIsOfOffset
PROPERTIES
  SearchEnds
  PageSettles
CHECK_DEADLOCK FALSE
