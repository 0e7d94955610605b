-------------------------------- MODULE MCFares --------------------------------
(* Every tariff an admin may have set, with two things done under it; and   *)
(* the tariffs of the environment, with all that is done.                   *)
EXTENDS Fares
CONSTANTS here, there, town

MCDistances == {-1, 0, 1, 4, 5, 6, 10, 15, 17, 21, 22, 25, 30}
MCValues == {-1, 0, 3, 7, 8}
MCDefault == [k \in Keys |-> IF k = "farePerKmXpf" THEN 3 ELSE IF k = "appMarginPerKmXpf" THEN -2 ELSE 0]
MCLengths == [j \in Journeys |-> IF j[1] = here THEN {5, 15} ELSE {25}]
\* One to seven points, in chunks of three.
MCRoutes == { << >>, <<5>>, <<1, 4, 5>>, <<1, 5, 4, 6, 5>>, <<5, 5, 1, 1, 4, 6>> }

\* A passenger who is somewhere and goes somewhere.
Ready == [Blank EXCEPT !.fix = here, !.town = town]
Briefly == 2
MCInit ==
  /\ asks = << >> /\ calls = << >> /\ route = << >> /\ unsure = FALSE /\ quote = NoQuote /\ desk = Closed
  /\ \/ map \in {Blank, Ready} /\ turns = 0 /\ setting = Default
     \/ map = Ready /\ turns = MaxTurns - Briefly /\ setting \in [Keys -> {0, 3, 7}]
  /\ kept = [manual |-> None, town |-> map.town]
MCSpec == MCInit /\ [][FaresNext]_all
=============================================================================
