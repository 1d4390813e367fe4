SPECIFICATION Spec
CONSTANTS
  n1 = n1
  n2 = n2
  Nodes <- TwoNodes
  Modes = {"all", "gpu"}
  NodeSets <- BothNodes
  GpuOutcomes = {"pass"}
  NetOutcomes = {"topo"}
  OpenShift = TRUE
  MaxRuns = 2
  MaxFaults = 0
SYMMETRY Symmetry
PROPERTY ClusterChecksStay
