SPECIFICATION FairSpec
CONSTANTS
  Clients = {c1}
  Replays = {}
  Targets = {"dev"}
  Requests = {"json", "other"}
  Profiles = {profile}
  NoProfile = NoProfile
  Configs <- WaitConfigs
INVARIANTS
  RulesApplyToListed
PROPERTIES
  StopCompletes
  RequestsAnswered
  KeepsCaptures
