SPECIFICATION MCSpec
CONSTANTS
  Users = {d, p}
  Drivers = {d}
  Switchers = {p}
  Manual = {p}
  d = d
  p = p
  Nowhere = Nowhere
  Positions <- Around
  MaxFlight = 2
  MaxBuffer = 1
  Throttle = 2
  MaxEvents = 2
CHECK_DEADLOCK FALSE
INVARIANTS ToggleMatchesRow LeaversDisappear
PROPERTIES WaitingSeesDrivers
