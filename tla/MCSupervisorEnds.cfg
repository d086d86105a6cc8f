CONSTANTS
  Names <- MCNames
  Registries <- Quiet
  Surprises <- Decided
  MaxRequests = 3
  MaxJobs = 2
SPECIFICATION FairSpec
PROPERTIES JobsEnd NothingLingers
