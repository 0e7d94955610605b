----------------------------- MODULE MCOnboarding -----------------------------
(* A passenger without a car, a driver with one, a driver who has switched  *)
(* back, and a driver-to-be who has handed in his licence.                  *)
EXTENDS Onboarding
StartOnCar ==
  /\ cars = << >> /\ garage = {} /\ docs = 1 /\ driver = FALSE
  /\ page = [cars |-> {}, certs |-> NoCerts, has_certs |-> FALSE, driver |-> FALSE, saving |-> FALSE]
  /\ wizard = [ open |-> "driver", step |-> "vehicle", created |-> 0, passed |-> {"license"}, sending |-> {},
                shots |-> 0, photo |-> 0, read |-> 0, ready |-> FALSE ]
  /\ requests = << >> /\ clicks = 0 /\ unsure = {} /\ hasty = {}
MCInit ==
  \/ Start(0, FALSE)
  \/ Start(1, TRUE)
  \/ Start(1, FALSE)
  \/ StartOnCar
MCSpec == MCInit /\ [][WizardNext]_wizard_vars
=============================================================================
