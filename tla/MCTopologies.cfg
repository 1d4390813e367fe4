SPECIFICATION Spec
CONSTANTS
  n1 = n1
  n2 = n2
  Nodes = {n1, n2}
  Kind = "numa_known"
  Clusters <- MCClusters
  Speeds = {0, 1, 2}
  EfaCounts = {2, 3}
INVARIANTS TypeOK PairsComplete NoCloserPair Balanced ProbeQuality GuessNeverPasses SameEndpoints EveryNICTested
CHECK_DEADLOCK FALSE
