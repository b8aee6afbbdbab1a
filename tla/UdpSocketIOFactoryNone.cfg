SPECIFICATION Spec
CONSTANTS
  Address = {a1, a2}
  Port = {p1, p2}
  None = None
  MaxGiven = 3
  MaxIndex = 5
INVARIANT
  NoneGivenNoneKept
