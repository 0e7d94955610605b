SPECIFICATION MCSpec
CONSTANTS
  PerKm = 10
  Distances <- MCDistances
  Values <- MCValues
  Largest = 7
  Default <- MCDefault
  None = None
  here = here
  there = there
  town = town
  Places = {here, there}
  Towns = {town}
  Lengths <- MCLengths
  Routes <- MCRoutes
  ChunkSize = 3
  Balances = {1, 5}
  MaxCalls = 2
  MaxTurns = 3
INVARIANTS QuoteIsPayable PlatformKeepsItsCut FareIsOfJourney DeskCatchesUp RouteIsMeasured
PROPERTIES NobodyWaitsShort
CHECK_DEADLOCK FALSE
