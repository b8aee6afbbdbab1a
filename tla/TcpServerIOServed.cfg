SPECIFICATION Spec
CONSTANTS
  Client = {c1, c2}
  maxConnections = 1
  Broadcast = TRUE
  MaxReads = 0
  MaxWrites = 0
INVARIANT
  ClientsServed
