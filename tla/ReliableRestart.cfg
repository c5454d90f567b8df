CONSTANTS
  Routers = {1, 2}
  Upstreams = {1}
  tree1 = tree1
  Trees = {tree1}
  Scenarios = {"restart", "silence"}
  SyncFragmentation = 1
  MaxSequenceNumber = 3
  MaxUpdateSN = 2
  MaxBootTime = 2
  MaxFaults = 4
  AckFailureThreshold = 1
SPECIFICATION ScenarioFairSpec
INVARIANTS
  SettledIsKnown
  SyncedViewIsCurrent
  SyncedPairsAgree
PROPERTIES
  SilenceIsNotWaitedFor
CHECK_DEADLOCK FALSE
