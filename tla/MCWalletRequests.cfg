SPECIFICATION FairSpec
CONSTANTS
  u1 = u1
  u2 = u2
  Users = {u1, u2}
  Drivers = {u1}
  Deleted = {}
  Nobody = Nobody
  Requests = {r1, r2}
  NoRequest = NoRequest
  Calls = {c1, c2}
  Amounts = {1}
  DepositMin = 1
  PayoutMinBalance = 1
  Int4Max = 2
  MaxHistory = 2
  Opening <- MCOpening
CHECK_DEADLOCK FALSE
INVARIANTS PaymentMatchesRequest
PROPERTIES ClosedMovesNoMoney RefinesLedger EveryHandlerEnds
