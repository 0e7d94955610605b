SPECIFICATION MCSpec
CONSTANTS
  p1 = p1
  p2 = p2
  Passengers = {p1, p2}
  Driver = d
  MaxRides = 1
  MaxCalls = 2
  MaxPolls = 1
  MaxTurns = 2
INVARIANTS PassengerSeesTheTruth AwaitingIsPending
PROPERTY SheetCatchesUp
CHECK_DEADLOCK FALSE
