--------------------------- MODULE MCCertifications ---------------------------
(* Small instances of Certifications for TLC. *)
EXTENDS Certifications

\* A document is of any vehicle or a licence, or only of a vehicle.
MCAny == [k \in Certs |-> Vehicles \cup {NoVehicle}]
MCVignettes == [k \in Certs |-> Vehicles]
=============================================================================
