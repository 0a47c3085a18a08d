CONSTANTS
  Values = {1, 2}
  Null = Null
  None = None
  ListMax = 2
  SendMax = 5
SPECIFICATION Spec
INVARIANTS TypeOK DataCurrent
CHECK_DEADLOCK FALSE
