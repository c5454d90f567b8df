CONSTANTS
  Routers = {1, 2}
  Upstreams = {1}
  tree1 = tree1
  tree2 = tree2
  Trees = {tree1, tree2}
  SyncFragmentation = 1
  MaxSequenceNumber = 6
  MaxUpdateSN = 2
  MaxBootTime = 1
  MaxFaults = 0
SPECIFICATION RaceSpec
SYMMETRY TreeSymmetry
INVARIANTS
  RetransmissionRepeatsSync
CHECK_DEADLOCK FALSE
