SPECIFICATION Spec
CONSTANTS
  Capacity = 2
  Bytes = 4
INVARIANT
  WrittenWhenReturned
CHECK_DEADLOCK FALSE
