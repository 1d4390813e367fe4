SPECIFICATION FairSpec
CONSTANTS
  n1 = n1
  n2 = n2
  Nodes <- TwoNodes
  GpuNodeSets <- OneOrBoth
  LeftKinds = {"gpu", "net"}
CONSTRAINT FewUnwaited
CHECK_DEADLOCK FALSE
INVARIANTS TypeOK ProbeHasRoom ReleasesGPUs
PROPERTIES ReportsAreFresh UnfinishedIsNoFail Terminates
