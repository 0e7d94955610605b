------------------------------ MODULE MCSession ------------------------------
(* One browser with two tabs, logged out or logged in on both.             *)
EXTENDS Session
CONSTANTS a1, a2, t1, t2

MCInit ==
  \E n \in {0, 1} :
    LET s == [ token |-> n, mixed |-> FALSE,
               user |-> IF n = 0 THEN Nobody ELSE [of |-> a1, driver |-> FALSE] ] IN
    /\ storage = s
    /\ tabs = [t \in Tabs |-> OnPage(s, IF n = 0 THEN "login" ELSE "profile")]
    /\ issued = IF n = 0 THEN << >> ELSE <<a1>>
    /\ calls = << >> /\ dead = {} /\ left = {} /\ behind = {} /\ turns = 0
    /\ mode = [a \in Accounts |-> FALSE]
MCSpec == MCInit /\ [][Next]_vars
=============================================================================
