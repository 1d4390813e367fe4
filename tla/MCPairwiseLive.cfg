SPECIFICATION FairSpec
CONSTANTS
  Nodes <- TwoNodes
  Tasks <- TwoNodeTasks
  Server <- TwoNodeServer
  Clients <- TwoNodeClients
  Schedule <- TwoNodeSchedule
  MaxAttempts = 2
PROPERTIES Terminates ImplementsPairTesting
