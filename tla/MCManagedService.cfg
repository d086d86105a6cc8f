CONSTANTS
  Pids = {1, 2}
  NoPid = NoPid
  NoExit = NoExit
  Statuses = {0, 1, 124, 127}
  MaxGeneration = 2
  Services <- Everything
  MainExits <- Exits
  Faults <- Calls
SPECIFICATION Spec
INVARIANTS ServiceInv StopWins
PROPERTIES Contract
