---------------------------- MODULE MCSettlement ----------------------------
(* Two users who drive each other, so that settlements can deadlock, and a *)
(* fare that one of them cannot pay before a correction.                   *)
EXTENDS Settlement, TLC

CONSTANTS u1, u2, t1, t2

MCPassenger == t1 :> u1 @@ t2 :> u2
MCDriver == t1 :> u2 @@ t2 :> u1
MCOpening == u1 :> 2 @@ u2 :> 1
MCQuotes == { [fare |-> 3, share |-> 2] }
MCDeltas == {-1, 1}
=============================================================================
