SPECIFICATION FairSpec
CONSTANTS
  Exchanges = {e1}
  Fetches = {f1, f2}
  MaxMounts = 2
  MaxSignals = 1
  MaxNews = 2
  Nothing = Nothing
INVARIANTS
  HigherIsNewer
  CommandsStay
PROPERTIES
  WindowCatchesUp
  NoListenerStays
CHECK_DEADLOCK FALSE
