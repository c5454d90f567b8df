CONSTANTS
  Routers = {1, 2}
  Upstreams = {1, 2}
  tree1 = tree1
  tree2 = tree2
  Trees = {tree1, tree2}
  MaxUpdates = 4
  SyncFragmentation = 1
  MaxSequenceNumber = 6
  MaxUpdateSN = 4
  MaxBootTime = 3
  MaxFaults = 1
SPECIFICATION ScenarioSpec
INVARIANTS
  TypeOK
  SyncedHasSnapshot
  SyncedViewIsCurrent
  SyncedPairsAgree
PROPERTIES
  UpdatesEndConsistent
CHECK_DEADLOCK FALSE
