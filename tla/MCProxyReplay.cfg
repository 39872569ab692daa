SPECIFICATION Spec
CONSTANTS
  Clients = {c1}
  Replays = {r1}
  Targets = {"dev"}
  Requests = {"none", "json"}
  Profiles = {profile}
  NoProfile = NoProfile
  Configs <- ReplayConfigs
INVARIANTS
  ReplayMarkedDevelopment
  OrphansAreRemoved
