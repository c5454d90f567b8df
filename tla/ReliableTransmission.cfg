CONSTANTS
  Routers = {1, 2, 3}
  Upstreams = {1, 2}
  tree1 = tree1
  Trees = {tree1}
  Scenarios = {"updates", "failures", "multicast"}
  SyncFragmentation = 1
  MaxSequenceNumber = 9
  MaxUpdateSN = 3
  MaxBootTime = 1
  MaxFaults = 1
  AckFailureThreshold = 1
SPECIFICATION ScenarioSpec
INVARIANTS
  TransmissionTypeOK
  SettledIsKnown
  CheckpointHidesNoNews
CHECK_DEADLOCK FALSE
