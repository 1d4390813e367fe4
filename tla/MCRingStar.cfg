SPECIFICATION FairSpec
CONSTANTS
  Nodes <- ThreeNodes
  Tasks <- Tuples
  Server <- ServerOf
  Clients <- ClientsOf
  MaxAttempts = 1
  GpuNodes <- Ring
  JobCount = 2
  NoNode = 0
  Choices <- RingOrStar
CONSTRAINT FewLeft
INVARIANTS TypeOK OneCallAtATime EveryNodeMeasured
PROPERTY Terminates
