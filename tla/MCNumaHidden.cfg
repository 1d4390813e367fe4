SPECIFICATION Spec
CONSTANTS
  n1 = n1
  n2 = n2
  Nodes = {n1, n2}
  Kind = "numa_hidden"
  Clusters <- MCClusters
  Speeds = {0, 1}
  EfaCounts = {2}
INVARIANTS MappingReachesJobs
CHECK_DEADLOCK FALSE
