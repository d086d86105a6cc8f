CONSTANTS
  Pids = {p1, p2}
  NoPid = NoPid
  NoExit = NoExit
  Statuses = {0, 1, 2, 124, 127}
  MaxGeneration = 3
  Specs <- MCSpecs
SPECIFICATION Spec
INVARIANTS
  TypeOK
  PidIsCurrent
  NoOrphan
  RestartBudget
  StopIsFinal
  StoppingIsTold
PROPERTY
  FailureNotMasked
