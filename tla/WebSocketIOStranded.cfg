SPECIFICATION Spec
CONSTANTS
  MaxStops = 1
  MaxTimers = 2
  MaxReads = 1
  MaxWrites = 1
INVARIANT
  NeverStranded
