CONSTANTS
  Pids = {1, 2}
  NoPid = NoPid
  NoExit = NoExit
  Statuses = {0, 1, 124, 127}
  MaxGeneration = 2
  Services <- Timed
  MainExits <- Exits
  Faults = {}
SPECIFICATION FairSpec
INVARIANTS DeadlinesArmed
PROPERTIES PhasesEnd
