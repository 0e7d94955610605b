--------------------------- MODULE WalletRequests ---------------------------
(***************************************************************************)
(* Deposits and payouts: WalletRequestsService (the user's side),          *)
(* AdminWalletRequestsService and AdminWalletsService.adjust (the admin's  *)
(* side), over the tables wallet_requests, wallets and                     *)
(* wallet_transactions.                                                    *)
(*                                                                         *)
(* Each HTTP handler in flight is a record call[c] of a bounded set of     *)
(* slots; a handler gives way to the others at each of its awaits, so each *)
(* database statement is one step.  approve, reject and adjust run in a    *)
(* transaction with SELECT ... FOR UPDATE: their writes become visible in  *)
(* the Commit step, and until then the rows they locked are closed to      *)
(* every other writer, though not to a plain SELECT.                       *)
(***************************************************************************)
EXTENDS Integers, Sequences, FiniteSets

CONSTANTS
  Users, Drivers, Deleted,  \* users; those with is_driver; soft-deleted ones
  Nobody,
  Requests, NoRequest,      \* ids of wallet_requests rows
  Calls,                    \* slots for the handlers in flight
  Amounts,                  \* amounts a user or an admin can type
  DepositMin,               \* app.depositMinAmountXpf
  PayoutMinBalance,         \* app.payoutMinBalanceXpf
  Opening,                  \* balance of each wallet at the start
  Int4Max,                  \* largest value of an integer column
  MaxHistory                \* bound: rows per wallet before adjust stops

ASSUME WalletRequestsAssumption ==
  /\ Drivers \subseteq Users /\ Deleted \subseteq Users
  /\ Nobody \notin Users /\ NoRequest \notin Requests
  /\ Int4Max \in Nat /\ DepositMin \in Nat /\ PayoutMinBalance \in Nat
  /\ Amounts \subseteq Nat \ {0}
  /\ MaxHistory \in Nat
  /\ Opening \in [Users -> 0 .. Int4Max]

VARIABLES
  balance,   \* wallets.balance_xpf
  history,   \* wallet_transactions of each user, oldest first
  request,   \* the committed wallet_requests rows
  call,      \* the handlers in flight
  bus        \* what the last step handed to RealtimeBus

vars == <<balance, history, request, call, bus>>

-----------------------------------------------------------------------------
Statuses == {"none", "pending", "approved", "rejected", "cancelled"}
Processed == {"approved", "rejected", "cancelled"}

RequestRow == [ status : Statuses, type : {"deposit", "payout"},
                user : Users \cup {Nobody}, amount : 0 .. Int4Max ]

\* An id no row has yet.
Unused == [ status |-> "none", type |-> "deposit", user |-> Nobody, amount |-> 0 ]

HistoryRow == [ amount : Int, ref : Requests \cup {NoRequest} ]

Steps == { "idle", "payout_count", "payout_insert", "cancel_save",
           "approve_wallet", "approve_commit", "reject_commit", "adjust_commit" }

CallRecord == [ step : Steps, user : Users \cup {Nobody},
                req : Requests \cup {NoRequest}, amount : Int ]

Idle == [ step |-> "idle", user |-> Nobody, req |-> NoRequest, amount |-> 0 ]

\* wallet:request:new goes to the admins, wallet:request:updated to the
\* owner and the admins; both carry the row and are followed by
\* broadcastPendingCount.
Event == [ kind : {"new", "updated"}, req : Requests, row : RequestRow ]
Emit(kind, r, row) == bus' = {[ kind |-> kind, req |-> r, row |-> row ]}
Silent == bus' = {}

-----------------------------------------------------------------------------
\* FOR UPDATE row locks: a transaction holds what it locked until it ends.
HoldsRequest == {"approve_wallet", "approve_commit", "reject_commit"}
HoldsWallet == {"approve_commit", "adjust_commit"}

RequestLocked(r) == \E c \in Calls : call[c].req = r /\ call[c].step \in HoldsRequest
WalletLocked(u) == \E c \in Calls : call[c].user = u /\ call[c].step \in HoldsWallet

Start(c, step, u, r, a) ==
  /\ call[c] = Idle
  /\ call' = [call EXCEPT ![c] = [step |-> step, user |-> u, req |-> r, amount |-> a]]

Goto(c, step) == call' = [call EXCEPT ![c].step = step]
Finish(c) == call' = [call EXCEPT ![c] = Idle]

\* What approving the row moves on the owner's wallet.
Signed(row) == IF row.type = "deposit" THEN row.amount ELSE - row.amount
InRange(n) == n \in 0 .. Int4Max

Credit(u, a, ref) ==
  /\ balance' = [balance EXCEPT ![u] = @ + a]
  /\ history' = [history EXCEPT ![u] = Append(@, [amount |-> a, ref |-> ref])]

\* A uuid no row has and no handler is about to insert.
Fresh(r) == request[r] = Unused /\ \A c \in Calls : call[c].req # r

Insert(r, type, u, a) ==
  LET row == [status |-> "pending", type |-> type, user |-> u, amount |-> a] IN
    /\ request' = [request EXCEPT ![r] = row]
    /\ Emit("new", r, row)

SetStatus(r, status) == [request[r] EXCEPT !.status = status]
Save(r, status) == request' = [request EXCEPT ![r] = SetStatus(r, status)]

PendingPayouts(u) ==
  { r \in Requests : /\ request[r].user = u
                     /\ request[r].type = "payout"
                     /\ request[r].status = "pending" }

-----------------------------------------------------------------------------
(* WalletRequestsService.createDeposit: one INSERT.                        *)
CreateDeposit(c, u, a, r) ==
  /\ call[c] = Idle
  /\ a >= DepositMin /\ a <= Int4Max
  /\ Fresh(r)
  /\ Insert(r, "deposit", u, a)
  /\ UNCHANGED <<balance, history, call>>

(* WalletRequestsService.createPayout: reads the wallet, counts the        *)
(* pending payouts, inserts; nothing locks the wallet or the requests.     *)
PayoutCheck(c, u, a, r) ==
  /\ u \in Drivers \ Deleted
  /\ balance[u] >= PayoutMinBalance
  /\ a <= balance[u]
  /\ Fresh(r)
  /\ Start(c, "payout_count", u, r, a)
  /\ Silent
  /\ UNCHANGED <<balance, history, request>>

PayoutCount(c) ==
  /\ call[c].step = "payout_count"
  /\ IF PendingPayouts(call[c].user) = {} THEN Goto(c, "payout_insert") ELSE Finish(c)
  /\ Silent
  /\ UNCHANGED <<balance, history, request>>

PayoutInsert(c) ==
  /\ call[c].step = "payout_insert"
  /\ Insert(call[c].req, "payout", call[c].user, call[c].amount)
  /\ Finish(c)
  /\ UNCHANGED <<balance, history>>

(* WalletRequestsService.cancelMine: a plain SELECT, then a save() of the  *)
(* loaded row that waits for the row lock but checks nothing again.        *)
CancelRead(c, u, r) ==
  /\ request[r].user = u
  /\ request[r].status = "pending"
  /\ Start(c, "cancel_save", u, r, 0)
  /\ Silent
  /\ UNCHANGED <<balance, history, request>>

\* Mistake: the save ignores the row lock.
CancelSaveAtOnce(c) ==
  LET r == call[c].req IN
    /\ call[c].step = "cancel_save"
    /\ Save(r, "cancelled")
    /\ Emit("updated", r, SetStatus(r, "cancelled"))
    /\ Finish(c)
    /\ UNCHANGED <<balance, history>>

CancelSave(c) ==
  LET r == call[c].req IN
    /\ call[c].step = "cancel_save"
    /\ ~ RequestLocked(r)
    /\ Save(r, "cancelled")
    /\ Emit("updated", r, SetStatus(r, "cancelled"))
    /\ Finish(c)
    /\ UNCHANGED <<balance, history>>

-----------------------------------------------------------------------------
(* AdminWalletRequestsService.approve: lock the request, lock the wallet,  *)
(* write both, notify, and only then commit.                               *)
\* Mistake: approve without the status check.
ApproveAny(c, r) ==
  /\ ~ RequestLocked(r)
  /\ request[r].status # "none"
  /\ Start(c, "approve_wallet", request[r].user, r, Signed(request[r]))
  /\ Silent
  /\ UNCHANGED <<balance, history, request>>

\* Mistake: a plain SELECT of the request where the code takes FOR UPDATE.
ApproveUnlocked(c, r) ==
  /\ request[r].status = "pending"
  /\ Start(c, "approve_wallet", request[r].user, r, Signed(request[r]))
  /\ Silent
  /\ UNCHANGED <<balance, history, request>>

ApproveLock(c, r) ==
  /\ ~ RequestLocked(r)
  /\ request[r].status = "pending"
  /\ Start(c, "approve_wallet", request[r].user, r, Signed(request[r]))
  /\ Silent
  /\ UNCHANGED <<balance, history, request>>

\* Mistake: a refused approval returns without ending its transaction.
ApproveKeepsLock(c) ==
  LET r == call[c].req  u == call[c].user IN
    /\ call[c].step = "approve_wallet"
    /\ ~ WalletLocked(u)
    /\ InRange(balance[u] + call[c].amount)
    /\ Goto(c, "approve_commit")
    /\ Emit("updated", r, SetStatus(r, "approved"))
    /\ UNCHANGED <<balance, history, request>>

ApproveWallet(c) ==
  LET r == call[c].req  u == call[c].user IN
    /\ call[c].step = "approve_wallet"
    /\ ~ WalletLocked(u)
    /\ IF InRange(balance[u] + call[c].amount)
         THEN /\ Goto(c, "approve_commit")
              /\ Emit("updated", r, SetStatus(r, "approved"))
         ELSE /\ Finish(c)       \* 'Solde insuffisant', or integer out of range
              /\ Silent
    /\ UNCHANGED <<balance, history, request>>

ApproveCommit(c) ==
  /\ call[c].step = "approve_commit"
  /\ Credit(call[c].user, call[c].amount, call[c].req)
  /\ Save(call[c].req, "approved")
  /\ Finish(c)
  /\ Silent

(* AdminWalletRequestsService.reject.                                      *)
RejectLock(c, r) ==
  /\ ~ RequestLocked(r)
  /\ request[r].status = "pending"
  /\ Start(c, "reject_commit", request[r].user, r, 0)
  /\ Emit("updated", r, SetStatus(r, "rejected"))
  /\ UNCHANGED <<balance, history, request>>

RejectCommit(c) ==
  /\ call[c].step = "reject_commit"
  /\ Save(call[c].req, "rejected")
  /\ Finish(c)
  /\ Silent
  /\ UNCHANGED <<balance, history>>

(* AdminWalletsService.adjust: a signed correction, never an overdraft.    *)
AdjustLock(c, u, delta) ==
  /\ u \notin Deleted
  /\ ~ WalletLocked(u)
  /\ Len(history[u]) < MaxHistory
  /\ InRange(balance[u] + delta)
  /\ Start(c, "adjust_commit", u, NoRequest, delta)
  /\ Silent
  /\ UNCHANGED <<balance, history, request>>

AdjustCommit(c) ==
  /\ call[c].step = "adjust_commit"
  /\ Credit(call[c].user, call[c].amount, NoRequest)
  /\ Finish(c)
  /\ Silent
  /\ UNCHANGED request

(* A statement or the COMMIT fails: the handler throws, Postgres rolls     *)
(* back and frees the locks; what was emitted is not taken back.           *)
Fail(c) ==
  /\ call[c].step # "idle"
  /\ Finish(c)
  /\ Silent
  /\ UNCHANGED <<balance, history, request>>

(* The server process dies with every handler in flight.                   *)
Restart ==
  /\ \E c \in Calls : call[c].step # "idle"
  /\ call' = [c \in Calls |-> Idle]
  /\ Silent
  /\ UNCHANGED <<balance, history, request>>

-----------------------------------------------------------------------------
Init ==
  /\ balance = Opening
  /\ history = [u \in Users |-> <<>>]
  /\ request = [r \in Requests |-> Unused]
  /\ call = [c \in Calls |-> Idle]
  /\ bus = {}

\* A new HTTP request reaches the server.
Arrive(c) ==
  \/ \E u \in Users, a \in Amounts :
       \/ \E r \in Requests : CreateDeposit(c, u, a, r) \/ PayoutCheck(c, u, a, r)
       \/ AdjustLock(c, u, a)
       \/ AdjustLock(c, u, - a)
  \/ \E r \in Requests : \/ \E u \in Users : CancelRead(c, u, r)
                         \/ ApproveLock(c, r)
                         \/ RejectLock(c, r)

\* A handler in flight takes its next step.
Continue(c) ==
  \/ PayoutCount(c)
  \/ PayoutInsert(c)
  \/ CancelSave(c)
  \/ ApproveWallet(c)
  \/ ApproveCommit(c)
  \/ RejectCommit(c)
  \/ AdjustCommit(c)

Next ==
  \/ \E c \in Calls : Arrive(c) \/ Continue(c) \/ Fail(c)
  \/ Restart

Spec == Init /\ [][Next]_vars

\* A database statement is answered or fails, and Postgres grants a row lock
\* in the order of the waits, so a waiting handler is served in the end.
Fairness == \A c \in Calls : SF_vars(Continue(c))
FairSpec == Spec /\ Fairness

-----------------------------------------------------------------------------
TypeOK ==
  /\ balance \in [Users -> 0 .. Int4Max]
  /\ history \in [Users -> Seq(HistoryRow)]
  /\ request \in [Requests -> RequestRow]
  /\ call \in [Calls -> CallRecord]
  /\ bus \subseteq Event

\* The row number i of u pays the request r.
Pays(u, i, r) == i \in DOMAIN history[u] /\ history[u][i].ref = r

\* Money follows the status.  A row that pays a request is in the wallet of the
\* request's owner, has the amount and the sign of the request, is the only one
\* of that request, and exists only if an admin approved it: never for a
\* pending or a rejected request, always for one that reads "approved"
\* (AdminWalletRequestsService.approve against two admins, against reject and
\* against a cancelMine whose save lands between its steps or after them).
PaymentMatchesRequest ==
  /\ \A u \in Users, r \in Requests : \A i \in DOMAIN history[u] :
       Pays(u, i, r) =>
         /\ request[r].user = u
         /\ history[u][i].amount = Signed(request[r])
         /\ request[r].status \in {"approved", "cancelled"}
         /\ \A j \in DOMAIN history[u] : Pays(u, j, r) => j = i
  /\ \A r \in Requests : request[r].status = "approved" =>
       \E i \in DOMAIN history[request[r].user] : Pays(request[r].user, i, r)

\* No money without a row: in every step the balance of a user moves exactly
\* by the rows the step adds to his history (at most one), and no row changes
\* (approve and adjust write wallet and row in one transaction under the lock).
MoneyMovesByRows ==
  [][ \A u \in Users :
        \/ balance'[u] = balance[u] /\ history'[u] = history[u]
        \/ LET row == history'[u][Len(history'[u])] IN
             /\ history'[u] # <<>>
             /\ history'[u] = Append(history[u], row)
             /\ balance'[u] = balance[u] + row.amount ]_vars

\* A request somebody closed is closed for money: once it reads approved,
\* rejected or cancelled, no later step pays it, and it never reopens.
ClosedMovesNoMoney ==
  [][ \A r \in Requests : request[r].status \in Processed =>
        /\ request'[r].status \in Processed
        /\ request[r].user = request'[r].user
        /\ \A i \in DOMAIN history'[request[r].user] :
             history'[request[r].user][i].ref = r =>
               i \in DOMAIN history[request[r].user] ]_vars

\* Two transactions never hold the same request row, and a transaction that
\* passed its checks still finds the row as it read it when it commits: the
\* request is pending, it belongs to the wallet it locked, and the movement it
\* computed still fits in that wallet.
LockedRowsAreStable ==
  \A c \in Calls :
    /\ call[c].step \in HoldsRequest =>
         /\ request[call[c].req].status = "pending"
         /\ request[call[c].req].user = call[c].user
         /\ \A d \in Calls \ {c} :
              call[d].step \in HoldsRequest => call[d].req # call[c].req
    /\ call[c].step \in {"approve_wallet", "approve_commit"} =>
         call[c].amount = Signed(request[call[c].req])
    /\ call[c].step \in HoldsWallet =>
         /\ InRange(balance[call[c].user] + call[c].amount)
         /\ \A d \in Calls \ {c} :
              call[d].step \in HoldsWallet => call[d].user # call[c].user

\* Every handler answers: no handler waits for a row lock for ever
\* (approve takes the request, then the wallet; reject and cancelMine take the
\* request alone, adjust the wallet alone).
EveryHandlerEnds == \A c \in Calls : call[c].step # "idle" ~> call[c].step = "idle"

\* What the source says of a request and cancelMine does not keep
\* (wallet-request.entity.ts:28-29): the status leaves "pending" exactly once.
StatusMovesOnce ==
  [][ \A r \in Requests : request[r].status \in Processed =>
        request'[r].status = request[r].status ]_vars

\* What createPayout refuses and does not prevent
\* (wallet-requests.service.ts:154-157): a second pending payout of one user.
OnePendingPayout == \A u \in Users : Cardinality(PendingPayouts(u)) <= 1

\* wallets and wallet_transactions implement the abstract ledger.
L == INSTANCE Ledger WITH References <- Requests, NoReference <- NoRequest
RefinesLedger == L!Spec
=============================================================================
