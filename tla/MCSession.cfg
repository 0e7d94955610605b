\* Two tabs, two accounts, up to three logins.
SPECIFICATION MCSpec
CONSTANTS
  a1 = a1
  a2 = a2
  t1 = t1
  t2 = t2
  Accounts = {a1, a2}
  Tabs = {t1, t2}
  MaxLogins = 3
  MaxCalls = 2
  MaxTurns = 6
INVARIANTS ScreenIsTheAccount ModeIsCurrent
PROPERTY LogoutIsNotUndone
CHECK_DEADLOCK FALSE
