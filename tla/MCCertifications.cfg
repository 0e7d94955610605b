SPECIFICATION FairSpec
CONSTANTS
  Vehicles = {v1}
  NoVehicle = NoVehicle
  Certs = {k1}
  NoCert = NoCert
  Subjects <- MCAny
  Calls = {1, 2}
  LastDay = 1
  Operations = {"submit", "approve", "reject", "delete", "remove"}
INVARIANTS CertifiedHasCertificate
PROPERTIES DeletedStaysDeleted OverdueIsSwept
