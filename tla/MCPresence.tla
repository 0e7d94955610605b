------------------------------ MODULE MCPresence ------------------------------
(* A driver and a passenger at the same place, from three moments: the      *)
(* passenger alone with MaxEvents events, both of them with none, and the    *)
(* driver with one before a passenger who waits on another page.            *)
EXTENDS Presence
CONSTANTS d, p

Here == [ dir |-> "city", spot |-> "here" ]
TwoSpots == {Here, [ dir |-> "city", spot |-> "there" ]}
Around == TwoSpots \cup {[ dir |-> "country", spot |-> "here" ]}

Placed(u) == [NewTab(u) EXCEPT !.fix = Here]
Waiting(u) == [Placed(u) EXCEPT !.on_map = FALSE, !.on["passenger"] = TRUE]

Moment(cast) ==
  /\ client = [u \in Users |-> IF cast = "watched" /\ u = p THEN Waiting(u) ELSE Placed(u)]
  /\ link = [u \in Users |-> IF cast = "alone" /\ u = d THEN "out" ELSE "up"]
  /\ row = [r \in Roles |-> [u \in Users |->
              IF cast = "watched" /\ u = p /\ r = "passenger" THEN [ on |-> TRUE, at |-> Here ] ELSE NoRow]]
  /\ events = [u \in Users |-> IF cast = "alone" /\ u = p THEN 0
                              ELSE IF cast = "watched" /\ u = d THEN MaxEvents - 1 ELSE MaxEvents]
  /\ Quiet

MCInit == \E cast \in {"alone", "fresh", "watched"} : Moment(cast)
MCSpec == MCInit /\ [][PresenceNext]_presence_vars /\ Fairness

\* Neither a statement nor the server fails, and no trip starts.
HealthySpec == MCInit /\ [][Play /\ riding' = {}]_presence_vars
=============================================================================
