----------------------------- MODULE MCTripClient -----------------------------
EXTENDS TripClient

CONSTANTS p1, p2

\* p has been on board since his page and the driver's sheet were last quiet.
Aboard(P) ==
  /\ ride = [p \in Passengers |-> [n |-> MaxRides, on |-> p \in P]]
  /\ tab = [p \in Passengers |->
              IF p \in P THEN [FreshTab EXCEPT !.page = "trip", !.viewed = {<<p, MaxRides>>},
                                            !.shown = "active", !.active = {<<p, MaxRides>>}]
              ELSE FreshTab]
  /\ desk = [ on_map |-> TRUE, pending |-> {}, handled |-> {}, dialog |-> NoDialog,
              sheet |-> {<<p, MaxRides>> : p \in P}, completing |-> {} ]

\* p2 stays out of it.
Alone ==
  /\ ride = [p \in Passengers |-> [n |-> IF p = p1 THEN 0 ELSE MaxRides, on |-> FALSE]]
  /\ tab = [p \in Passengers |-> [FreshTab EXCEPT !.page = "scan"]]
  /\ desk = [ on_map |-> TRUE, pending |-> {}, handled |-> {}, dialog |-> NoDialog,
              sheet |-> {}, completing |-> {} ]

\* The turns left to p1, p2 and the driver.
TurnsLeft(a, b, c) ==
  turns = [x \in Clients |-> MaxTurns - (IF x = p1 THEN a ELSE IF x = p2 THEN b ELSE c)]

\* Three moments: before a ride, during one, with two passengers on board.
MCInit ==
  /\ \/ Alone /\ TurnsLeft(2, 0, 2)
     \/ Aboard({p1}) /\ TurnsLeft(2, 0, 2)
     \/ Aboard({p1, p2}) /\ (TurnsLeft(1, 1, 0) \/ TurnsLeft(1, 0, 1))
  /\ link = [c \in Clients |-> TRUE]
  /\ mail = [c \in Clients |-> << >>]
  /\ calls = << >>
  /\ misled = {}

MCSpec == MCInit /\ [][ClientNext]_client_vars /\ Fairness
=============================================================================
