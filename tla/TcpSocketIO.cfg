SPECIFICATION FairSpec
CONSTANTS
  Reconnect = TRUE
  MaxStops = 2
  MaxTimers = 3
  MaxReads = 1
  MaxWrites = 2
INVARIANTS
  ReconnectsAlone
  NeverStranded
PROPERTIES
  Recovers
  ContractKept
