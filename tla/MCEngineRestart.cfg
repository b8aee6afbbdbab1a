SPECIFICATION Spec
CONSTANTS
  gen = gen
  echo = echo
  udp = udp
  twin = twin
  IO <- MCIO
  Name <- MCName
  NameOf <- MCNameOf
  Contract <- MCContract
  Requests <- MCRequests
  MaxFan = 1
  MaxPackets = 1
INVARIANT
  StartedForwards
