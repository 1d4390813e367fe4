SPECIFICATION Spec
CONSTANTS
  Nodes <- FourNodes
  Tasks <- FourNodeTasks
  Server <- FourNodeServer
  Clients <- FourNodeClients
  Schedule <- FourNodeSchedule
  MaxAttempts = 2
CONSTRAINT FewLeft
INVARIANTS TypeOK PodsHaveAnOwner NodeExclusive EveryPairTried
