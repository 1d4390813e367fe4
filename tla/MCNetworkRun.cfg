SPECIFICATION Spec
CONSTANTS
  n1 = n1
  n2 = n2
  Nodes <- TwoNodes
  Modes = {"network"}
  NodeSets <- BothNodes
  GpuOutcomes = {"pass"}
  NetOutcomes = {"topo"}
  OpenShift = TRUE
  MaxRuns = 1
  MaxFaults = 0
SYMMETRY Symmetry
PROPERTY NetworkRunSucceeds
