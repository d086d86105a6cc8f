CONSTANTS
  Names <- MCNames
  Registries <- MCRegistries
  Surprises <- MCSurprises
  MaxRequests = 3
  MaxJobs = 2
SPECIFICATION Spec
INVARIANTS SupervisorInv
PROPERTIES StartsInOrder RolledBack LossStopsBound
