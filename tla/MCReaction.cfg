SPECIFICATION Spec
CONSTANTS
  Cgroups = {own, c1}
  AgentCgroup = own
  SyncBudget = 1
  ScanMax = 1
  MaxTime = 2
  MaxChanges = 2
  ProofTtl = 2
  TrackedMax = 1
  Setups <- MCSetups
  Rules <- MCRules
  MaxRecords = 2
  MaxWaiting = 1
INVARIANTS
  MissingPodIsVisible
  SignalHitsItsTarget
  EveryReactionCounted
  SettledPodIsNoHost
CHECK_DEADLOCK FALSE
