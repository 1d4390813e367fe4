SPECIFICATION Spec
CONSTANTS
  n1 = n1
  n2 = n2
  Nodes <- TwoNodes
  Modes = {"all", "rdma", "rdma-ping", "rdma-node", "rdma-bandwidth", "gpu", "network"}
  NodeSets <- SomeNodeSets
  GpuOutcomes = {"pass", "fail"}
  NetOutcomes = {"topo", "fail"}
  OpenShift = TRUE
  MaxRuns = 3
  MaxFaults = 1
SYMMETRY Symmetry
CONSTRAINTS SecondRuns ThirdRuns
INVARIANTS TypeOK FailIsReported EveryNodeReported PartialResultsFail TopologyIsLatest
PROPERTIES NothingLeftBehind StoredSectionsStay
