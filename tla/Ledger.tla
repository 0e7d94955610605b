------------------------------- MODULE Ledger -------------------------------
(***************************************************************************)
(* What the tables "wallets" and "wallet_transactions" promise together,   *)
(* whoever writes them: the balance of a user moves only in the step that  *)
(* appends the row explaining the move, it stays within 0..Int4Max, rows   *)
(* are never changed, and a wallet request or a trip is paid at most once  *)
(* per user.  WalletRequests, Settlement and Trips implement it under      *)
(* their own assumptions on the constants.                                 *)
(***************************************************************************)
EXTENDS Integers, Sequences

CONSTANTS
  Users,      \* users, each with one wallet (auth.service.ts signup)
  References, \* ids of the wallet requests and trips a row can pay
  NoReference,\* trip_id and wallet_request_id both null: an adjustment
  Opening,    \* the balance of each wallet after its INITIAL row
  Int4Max     \* largest value of a Postgres integer column

VARIABLES
  balance,    \* balance[u]: wallets.balance_xpf of user u
  history     \* history[u]: the wallet_transactions rows of u, oldest first

ledgerVars == <<balance, history>>

Row == [amount : Int, ref : References \cup {NoReference}]

\* A row of u already pays the request or trip ref.
PaidTo(u, ref) == \E i \in DOMAIN history[u] : history[u][i].ref = ref

Init ==
  /\ balance = Opening
  /\ history = [u \in Users |-> <<>>]

\* The step adds one row to the history of u and moves his balance by it.
Posts(u) ==
  LET row == history'[u][Len(history'[u])] IN
    /\ history'[u] # <<>>
    /\ history'[u] = Append(history[u], row)
    /\ row.ref # NoReference => ~ PaidTo(u, row.ref)
    /\ balance'[u] = balance[u] + row.amount

Leaves(u) ==
  /\ history'[u] = history[u]
  /\ balance'[u] = balance[u]

\* One database transaction commits: some users get a row, the others none.
Post ==
  /\ balance' \in [Users -> 0 .. Int4Max]
  /\ DOMAIN history' = Users
  /\ \A u \in Users : Posts(u) \/ Leaves(u)

Spec == Init /\ [][Post]_ledgerVars
=============================================================================
