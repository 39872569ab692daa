SPECIFICATION FairSpec
CONSTANTS
  Clients = {browser}
  Starts = {start}
  Calls = {call}
  Connections = {tunnel}
  NoProof = NoProof
  MaxCas = 2
  MaxChecks = 2
INVARIANTS
  TypeOK
  BridgesAreTrusted
  CancelDiscards
PROPERTIES
  WaitingSettles
CHECK_DEADLOCK FALSE
