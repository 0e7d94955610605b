\* Two handlers at a time, two calls in all.
SPECIFICATION MCSpec
CONSTANTS
  boss = boss
  other = other
  Accounts = {boss, other}
  Bootstrap = boss
  TTL = 2
  Default = 0
  Values = {1}
  MaxTime = 4
  MaxHandlers = 2
  MaxCalls = 2
INVARIANTS GuardIsFresh AnAdminRemains SettingsAgree
PROPERTY ReopenedOnPurpose
CHECK_DEADLOCK FALSE
