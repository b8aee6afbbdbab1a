SPECIFICATION Spec
CONSTANTS
  Reconnect = TRUE
  MaxStops = 2
  MaxTimers = 3
  MaxReads = 1
  MaxWrites = 0
INVARIANTS
  ConnectedForwards
