SPECIFICATION Spec
CONSTANTS
  Labels = {"a", "b"}
  MaxRules = 2
  Hosts <- MCHosts
  RuleLists <- MCRuleLists
  Loopback <- MCLoopback
INVARIANTS
  Unambiguous
  OverlapIsCommonHost
  ActiveOnlyOnListed
