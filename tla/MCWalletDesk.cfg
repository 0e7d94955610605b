\* Two requests, two calls in flight, three turns.
SPECIFICATION MCSpec
CONSTANTS
  r1 = r1
  r2 = r2
  Requests = {r1, r2}
  MaxCalls = 2
  MaxTurns = 3
INVARIANTS UserSeesHisRequests DeskShowsPending BadgeNeverHidesRequest
CHECK_DEADLOCK FALSE
