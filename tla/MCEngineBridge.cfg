SPECIFICATION WiredSpec
CONSTANTS
  tcp = tcp
  serial = serial
  peer = peer
  server = server
  IO <- MCIO
  Name <- MCIO
  NameOf <- MCNameOf
  Contract <- MCContract
  Requests = {}
  MaxFan = 2
  MaxPackets = 2
INVARIANTS
  ExactlyOnce
  InOrder
  StatisticsMatch
  BoundedRecursion
PROPERTY
  EventLoopReturns
  DispatchKept
