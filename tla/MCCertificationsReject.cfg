SPECIFICATION Spec
CONSTANTS
  Vehicles = {v1}
  NoVehicle = NoVehicle
  Certs = {k1, k2}
  NoCert = NoCert
  Subjects <- MCVignettes
  Calls = {1}
  LastDay = 1
  Operations = {"submit", "approve", "reject"}
PROPERTIES OnlyApprovedRejectionsDecertify
