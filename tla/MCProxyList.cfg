SPECIFICATION Spec
CONSTANTS
  Clients = {c1, c2}
  Replays = {}
  Targets = {"dev", "far"}
  Requests = {"none"}
  Profiles = {profile}
  NoProfile = NoProfile
  Configs <- ListConfigs
SYMMETRY Clients_
INVARIANTS
  TypeOK
  RetentionBound
  ConnectionCap
  KeptForListed
  ModifyOnlyDevelopment
PROPERTIES
  OldestFirst
