SPECIFICATION ClientSpec
CONSTANTS
  Passengers = {p}
  Driver = d
  p1 = p
  p2 = p
  MaxRides = 1
  MaxCalls = 2
  MaxPolls = 1
  MaxTurns = 3
PROPERTY ScanIsOpen
CHECK_DEADLOCK FALSE
