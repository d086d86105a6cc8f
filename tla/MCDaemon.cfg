CONSTANTS
  Order <- MCOrder
  Dirs <- MCDirs
  Span = 3
  Hash <- MCHash
  Occupied = {2}
  MaxSequence = 30
  Base = 10
  MaxNumber = 30
  Clients = {1, 2}
  MaxEvents = 3
  MaxRecords = 1
  WaitPolls = 2
  Attempts = 1
  Mixes <- MCMixes
SPECIFICATION FairSpec
CHECK_DEADLOCK FALSE
INVARIANTS EventsDelivered RegistrySound
PROPERTIES RecordsKept OrderlyEnd CommandsReturn
