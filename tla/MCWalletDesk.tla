---------------------------- MODULE MCWalletDesk ----------------------------
(* Two requests of one user on his screen and on an admin's.               *)
EXTENDS WalletDesk
CONSTANTS r1, r2

\* Three moments: nothing was asked for yet; one request is pending and shown,
\* or both, with a turn less.
Shown(pending) ==
  LET rows == [r \in Requests |-> IF r \in pending THEN "pending" ELSE Absent]
  IN  /\ status = rows
      /\ page = [list |-> rows, balance |-> {}]
      /\ desk = [filter |-> "pending", rows |-> rows, review |-> {}, badge |-> Cardinality(pending)]
MCInit ==
  /\ \E pending \in {{}, {r1}, Requests} :
       Shown(pending) /\ turns = IF pending = {} THEN 0 ELSE 1
  /\ credited = {} /\ deciding = << >> /\ counting = << >>
  /\ up = Clients
  /\ mail = [c \in Clients |-> << >>]
  /\ calls = << >>
  /\ misled = {}
MCSpec == MCInit /\ [][Next]_vars
\* Nothing breaks.
MCCalmSpec == MCInit /\ [][People \/ Server \/ Screens]_vars
=============================================================================
