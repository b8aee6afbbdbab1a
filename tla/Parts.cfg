SPECIFICATION Spec
CONSTANTS
  Unused = Unused
  MaxStops = 2
  MaxReads = 2
  MaxWrites = 2
  Client = {c1, c2, c3}
  maxConnections = 2
  Broadcast = TRUE
  Address = {host, group1, group2}
  Multicast = {group1, group2}
  MaxDestinations = 2
  GivenAddress = {a1, a2}
  GivenPort = {p1, p2}
  None = None
  MaxGiven = 3
  MaxIndex = 5
  Rate = {0, 1, 9, 10, 11, 40, 41, 200, 201}
  PacketSize = {1, 4, 10}
  MaxRestarts = 3
  MaxPackets = 21
  MaxTimers = 3
  MaxListeners = 3
  Second = 1
  Kilo = 2
  MaxBytes = 70
  MaxTime = 2
INVARIANTS
  SocketsLive
  LimitHeld
  StartedIsMember
  RefusedIsNoFailure
  PairsAsGiven
  MisconfiguredIsFailed
  ChainsCounted
  RateReached
  ReconnectsAlone
  StrandedByCloseOnly
  BinaryIsSafe
  DeafIsFailed
  EachByteShown
PROPERTIES
  CreateReturns
  StoppedChainsEnd
  Recovers
  ContractKept
CHECK_DEADLOCK FALSE
