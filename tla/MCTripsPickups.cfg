SPECIFICATION Spec
CONSTANTS
  u1 = u1
  u2 = u2
  u3 = u3
  Users = {u1, u2, u3}
  Nobody = Nobody
  Boardings <- MCChoice
  Trips = {t1, t2}
  NoTrip = NoTrip
  Calls = {c1, c2}
  Quotes <- MCQuotes
  Opening <- MCOpening
  Int4Max = 3
  MaxPoints = 1
  Operations = {"pickup"}
SYMMETRY Symmetry
CHECK_DEADLOCK FALSE
PROPERTIES PickupIsExclusive
