-------------------------- MODULE MCWalletRequests --------------------------
(* Small instances of WalletRequests for TLC.                              *)
EXTENDS WalletRequests, TLC

CONSTANTS u1, u2

MCOpening == u1 :> 2 @@ u2 :> 0

Symmetry == Permutations(Requests) \cup Permutations(Calls)
=============================================================================
