SPECIFICATION Spec
CONSTANTS
  Clients = {browser}
  Starts = {start}
  Calls = {call}
  Connections = {tunnel}
  NoProof = NoProof
  MaxCas = 2
  MaxChecks = 2
INVARIANTS
  BridgesOfCurrentCa
CHECK_DEADLOCK FALSE
