SPECIFICATION Spec
CONSTANTS
  u1 = u1
  u2 = u2
  u3 = u3
  Users = {u1, u2}
  Nobody = Nobody
  Boardings <- MCBoardings
  Trips = {t1}
  NoTrip = NoTrip
  Calls = {c1}
  Quotes <- MCQuotes
  Opening <- MCOpening
  Int4Max = 3
  MaxPoints = 3
  Operations = {"pickup", "dropoff", "end"}
SYMMETRY Symmetry
CHECK_DEADLOCK FALSE
PROPERTIES BilledRouteEndsAtDropoff
