\* One request, nothing breaks: the balance after an approval.
SPECIFICATION MCCalmSpec
CONSTANTS
  r1 = r1
  r2 = r1
  Requests = {r1}
  MaxCalls = 2
  MaxTurns = 2
INVARIANT BalanceFollowsApproval
CHECK_DEADLOCK FALSE
