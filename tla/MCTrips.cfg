SPECIFICATION Spec
CONSTANTS
  u1 = u1
  u2 = u2
  u3 = u3
  Users = {u1, u2}
  Nobody = Nobody
  Boardings <- MCBoardings
  Trips = {t1}
  NoTrip = NoTrip
  Calls = {c1, c2}
  Quotes <- MCQuotes
  Opening <- MCOpening
  Int4Max = 4
  MaxPoints = 3
  Operations = {"wait", "pickup", "track", "dropoff", "end", "cancel"}
SYMMETRY Symmetry
CHECK_DEADLOCK FALSE
INVARIANTS TripIsPaidOnce CompletionIsBacked
PROPERTIES PointsKeepTheirOrder RefinesLedger
