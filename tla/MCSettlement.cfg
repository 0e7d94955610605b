SPECIFICATION FairSpec
CONSTANTS
  u1 = u1
  u2 = u2
  t1 = t1
  t2 = t2
  Users = {u1, u2}
  Nobody = Nobody
  Trips = {t1, t2}
  NoTrip = NoTrip
  Passenger <- MCPassenger
  Driver <- MCDriver
  Calls = {c1, c2, c3}
  Quotes <- MCQuotes
  Deltas <- MCDeltas
  Opening <- MCOpening
  Int4Max = 3
  MaxHistory = 2
INVARIANTS ReadsStayFresh TripMovesMoneyOnce
PROPERTIES RefinesLedger EveryHandlerEnds
