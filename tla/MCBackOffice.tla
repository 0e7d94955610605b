---------------------------- MODULE MCBackOffice ----------------------------
(* Two accounts, before two calls and, with two admins, after a first one. *)
EXTENDS BackOffice
CONSTANTS boss, other

\* The boss has passed the guard and is about to demote the other.
Demotion == [ kind |-> "demote", actor |-> boss, target |-> other, value |-> Default, at |-> TTL,
              stage |-> "guarded", copy |-> Blank, writes |-> {}, crossed |-> FALSE ]

\* The other account: not there yet, a user, an admin, or suspended.  The setting:
\* not overridden, or, for the boss alone, with what the environment says.
MCInit ==
  /\ known \in {{boss}, Accounts}
  /\ \E as_admin, closed \in BOOLEAN :
       /\ other \notin known => ~as_admin /\ ~closed
       /\ ~(as_admin /\ closed)
       /\ row = [a \in Accounts |-> [Blank EXCEPT !["admin"] = (a = boss \/ as_admin),
                                                 !["suspended"] = (a # boss /\ closed)]]
       /\ admin_at = [a \in Accounts |-> IF a = boss \/ as_admin THEN TTL ELSE 0]
  /\ garage = {}
  /\ setting \in [there : BOOLEAN, row : {Default}, cache : {Default}] /\ (setting.there => known = {boss})
  /\ trust = [a \in Accounts |-> Nobody]
  /\ handlers \in { << >>, <<Demotion>> } /\ (handlers # << >> => row[other].admin)
  /\ clock = TTL
  /\ made = 0
  /\ raced = {}
MCSpec == MCInit /\ [][Next]_vars
=============================================================================
