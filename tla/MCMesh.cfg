SPECIFICATION FairSpec
CONSTANTS
  Nodes <- ThreeNodes
  Devices = {"a", "b", "x"}
  BadNames = {"x"}
  Topologies <- Clusters
  MaxAttempts = 2
CHECK_DEADLOCK FALSE
INVARIANTS TypeOK CountedOnce PassWins
PROPERTY Reported
