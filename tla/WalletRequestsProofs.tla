------------------------ MODULE WalletRequestsProofs ------------------------
(***************************************************************************)
(* Proofs about WalletRequests, for any users, requests, handlers, amounts *)
(* and limits.                                                             *)
(***************************************************************************)
EXTENDS WalletRequests, SequenceTheorems, TLAPS

\* A row is unused or belongs to a user.
RequestsOK ==
  \A r \in Requests : request[r] = Unused \/ (request[r].status # "none" /\ request[r].user \in Users)

\* What a handler remembers between two of its steps.
CallsOK ==
  \A c \in Calls :
    /\ call[c].step # "idle" => call[c].user \in Users
    /\ call[c].step \in {"payout_count", "payout_insert"} =>
         /\ call[c].req \in Requests
         /\ call[c].amount \in 0 .. Int4Max
         /\ request[call[c].req] = Unused
         /\ \A d \in Calls \ {c} : call[d].req # call[c].req
    /\ call[c].step \in HoldsRequest => call[c].req \in Requests
    /\ call[c].step = "cancel_save" =>
         /\ call[c].req \in Requests
         /\ request[call[c].req].status # "none"

IInv == TypeOK /\ RequestsOK /\ CallsOK /\ LockedRowsAreStable /\ PaymentMatchesRequest

LEMMA InitIInv == Init => IInv
  <1> SUFFICES ASSUME Init PROVE IInv
    OBVIOUS
  <1> USE WalletRequestsAssumption
  <1>1. TypeOK
    BY DEF Init, TypeOK, RequestRow, Statuses, Unused, CallRecord, Steps, Idle
  <1>2. RequestsOK
    BY DEF Init, RequestsOK
  <1>3. CallsOK
    BY DEF Init, CallsOK, Idle, HoldsRequest
  <1>4. LockedRowsAreStable
    BY DEF Init, LockedRowsAreStable, Idle, HoldsRequest, HoldsWallet
  <1>5. PaymentMatchesRequest
    BY DEF Init, PaymentMatchesRequest, Unused
  <1> QED
    BY <1>1, <1>2, <1>3, <1>4, <1>5 DEF IInv

-----------------------------------------------------------------------------
\* The building blocks of the actions, one lemma each: the type of what they
\* assign and what they leave alone.
LEMMA StartEffect ==
  ASSUME TypeOK, NEW c \in Calls, NEW step \in Steps, NEW u \in Users \cup {Nobody},
         NEW r \in Requests \cup {NoRequest}, NEW a \in Int, Start(c, step, u, r, a)
  PROVE  /\ call' \in [Calls -> CallRecord]
         /\ call[c] = Idle
         /\ call'[c] = [step |-> step, user |-> u, req |-> r, amount |-> a]
         /\ \A d \in Calls \ {c} : call'[d] = call[d]
  BY DEF Start, TypeOK, CallRecord

LEMMA FinishEffect ==
  ASSUME TypeOK, NEW c \in Calls, Finish(c)
  PROVE  /\ call' \in [Calls -> CallRecord]
         /\ call'[c] = Idle
         /\ \A d \in Calls \ {c} : call'[d] = call[d]
  BY DEF Finish, TypeOK, CallRecord, Idle, Steps

LEMMA GotoEffect ==
  ASSUME TypeOK, NEW c \in Calls, NEW step \in Steps, Goto(c, step)
  PROVE  /\ call' \in [Calls -> CallRecord]
         /\ call'[c].step = step
         /\ call'[c].user = call[c].user
         /\ call'[c].req = call[c].req
         /\ call'[c].amount = call[c].amount
         /\ \A d \in Calls \ {c} : call'[d] = call[d]
  BY DEF Goto, TypeOK, CallRecord

LEMMA SaveEffect ==
  ASSUME TypeOK, NEW r \in Requests, NEW s \in Statuses, Save(r, s)
  PROVE  /\ request' \in [Requests -> RequestRow]
         /\ SetStatus(r, s) \in RequestRow
         /\ request'[r].status = s
         /\ request'[r].type = request[r].type
         /\ request'[r].user = request[r].user
         /\ request'[r].amount = request[r].amount
         /\ \A q \in Requests \ {r} : request'[q] = request[q]
  BY DEF Save, SetStatus, TypeOK, RequestRow

LEMMA InsertEffect ==
  ASSUME TypeOK, NEW r \in Requests, NEW type \in {"deposit", "payout"}, NEW u \in Users,
         NEW a \in 0 .. Int4Max, Insert(r, type, u, a)
  PROVE  /\ request' \in [Requests -> RequestRow]
         /\ request'[r].status = "pending"
         /\ request'[r].user = u
         /\ \A q \in Requests \ {r} : request'[q] = request[q]
         /\ bus' \subseteq Event
  BY DEF Insert, Emit, Event, TypeOK, RequestRow, Statuses

LEMMA EventType ==
  ASSUME TypeOK, NEW r \in Requests, NEW s \in Statuses, Emit("updated", r, SetStatus(r, s))
  PROVE  bus' \subseteq Event
  <1>1. SetStatus(r, s) \in RequestRow
    BY DEF SetStatus, TypeOK, RequestRow
  <1> QED
    BY <1>1 DEF Emit, Event

LEMMA CreditEffect ==
  ASSUME TypeOK, NEW u \in Users, NEW a \in Int, NEW ref \in Requests \cup {NoRequest},
         InRange(balance[u] + a), Credit(u, a, ref)
  PROVE  /\ balance' \in [Users -> 0 .. Int4Max]
         /\ balance'[u] = balance[u] + a
         /\ \A v \in Users \ {u} : balance'[v] = balance[v] /\ history'[v] = history[v]
         /\ history' \in [Users -> Seq(HistoryRow)]
         /\ history'[u] = Append(history[u], [amount |-> a, ref |-> ref])
         /\ DOMAIN history'[u] = DOMAIN history[u] \cup {Len(history[u]) + 1}
         /\ Len(history[u]) + 1 \notin DOMAIN history[u]
         /\ \A i \in DOMAIN history[u] : history'[u][i] = history[u][i]
         /\ history'[u][Len(history[u]) + 1] = [amount |-> a, ref |-> ref]
  <1> DEFINE row == [amount |-> a, ref |-> ref]
  <1>1. row \in HistoryRow
    BY DEF HistoryRow
  <1>2. history[u] \in Seq(HistoryRow)
    BY DEF TypeOK
  <1>3. /\ Append(history[u], row) \in Seq(HistoryRow)
        /\ Len(Append(history[u], row)) = Len(history[u]) + 1
        /\ \A i \in 1 .. Len(history[u]) : Append(history[u], row)[i] = history[u][i]
        /\ Append(history[u], row)[Len(history[u]) + 1] = row
    BY <1>1, <1>2, AppendProperties
  <1>4. history'[u] = Append(history[u], row)
    BY DEF Credit, TypeOK
  <1>5. history' \in [Users -> Seq(HistoryRow)]
    BY <1>3 DEF Credit, TypeOK
  <1>6. /\ balance' \in [Users -> 0 .. Int4Max]
        /\ balance'[u] = balance[u] + a
        /\ \A v \in Users \ {u} : balance'[v] = balance[v] /\ history'[v] = history[v]
    BY DEF Credit, TypeOK, InRange
  <1>7. /\ Len(history[u]) \in Nat
        /\ DOMAIN history[u] = 1 .. Len(history[u])
        /\ DOMAIN Append(history[u], row) = 1 .. (Len(history[u]) + 1)
    BY <1>2, <1>3
  <1>8. 1 .. (Len(history[u]) + 1) = (1 .. Len(history[u])) \cup {Len(history[u]) + 1}
    BY <1>7
  <1> QED
    BY <1>3, <1>4, <1>5, <1>6, <1>7, <1>8

\* A step that adds no row keeps PaymentMatchesRequest if it changes a request
\* only before any money moved, or turns it into a cancelled one.
LEMMA PaymentKept ==
  ASSUME TypeOK, PaymentMatchesRequest, UNCHANGED history,
         \A r \in Requests :
           \/ request'[r] = request[r]
           \/ /\ request[r].status \notin {"approved", "cancelled"}
              /\ request'[r].status # "approved"
           \/ /\ request'[r].status = "cancelled"
              /\ request'[r].user = request[r].user
              /\ request'[r].type = request[r].type
              /\ request'[r].amount = request[r].amount
  PROVE  PaymentMatchesRequest'
  <1>1. ASSUME NEW u \in Users, NEW r \in Requests, NEW i \in DOMAIN history[u], Pays(u, i, r)
        PROVE  /\ request'[r].user = u
               /\ history[u][i].amount = Signed(request'[r])
               /\ request'[r].status \in {"approved", "cancelled"}
               /\ \A j \in DOMAIN history[u] : Pays(u, j, r) => j = i
    <2>1. /\ request[r].user = u
          /\ history[u][i].amount = Signed(request[r])
          /\ request[r].status \in {"approved", "cancelled"}
          /\ \A j \in DOMAIN history[u] : Pays(u, j, r) => j = i
      BY <1>1 DEF PaymentMatchesRequest
    <2> QED
      BY <2>1 DEF Signed
  <1>2. ASSUME NEW r \in Requests, request'[r].status = "approved"
        PROVE  \E i \in DOMAIN history[request'[r].user] : Pays(request'[r].user, i, r)
    <2>1. request'[r] = request[r]
      BY <1>2
    <2> QED
      BY <1>2, <2>1 DEF PaymentMatchesRequest
  <1> QED
    BY <1>1, <1>2 DEF PaymentMatchesRequest, Pays, Signed

\* The committed row of an approval is the only one of its request.
LEMMA PaymentAdded ==
  ASSUME TypeOK, RequestsOK, PaymentMatchesRequest, NEW w \in Users, NEW q \in Requests,
         request[q].status = "pending", request[q].user = w,
         request'[q].status = "approved", request'[q].user = w,
         request'[q].type = request[q].type, request'[q].amount = request[q].amount,
         \A r \in Requests \ {q} : request'[r] = request[r],
         \A v \in Users \ {w} : history'[v] = history[v],
         DOMAIN history'[w] = DOMAIN history[w] \cup {Len(history[w]) + 1},
         \A i \in DOMAIN history[w] : history'[w][i] = history[w][i],
         history'[w][Len(history[w]) + 1] = [amount |-> Signed(request[q]), ref |-> q]
  PROVE  PaymentMatchesRequest'
  <1>1. \A u \in Users : \A i \in DOMAIN history[u] : ~ Pays(u, i, q)
    BY DEF PaymentMatchesRequest
  <1>2. ASSUME NEW u \in Users, NEW r \in Requests, NEW i \in DOMAIN history'[u], history'[u][i].ref = r
        PROVE  /\ request'[r].user = u
               /\ history'[u][i].amount = Signed(request'[r])
               /\ request'[r].status \in {"approved", "cancelled"}
               /\ \A j \in DOMAIN history'[u] : history'[u][j].ref = r => j = i
    <2>1. CASE r = q
      <3>1. u = w
        BY <1>1, <1>2, <2>1 DEF Pays
      <3>2. \A j \in DOMAIN history'[u] : history'[u][j].ref = q => j = Len(history[w]) + 1
        BY <1>1, <3>1 DEF Pays
      <3> QED
        BY <1>2, <2>1, <3>1, <3>2 DEF Signed
    <2>2. CASE r # q
      <3>1. /\ i \in DOMAIN history[u] /\ history'[u][i] = history[u][i]
            /\ \A j \in DOMAIN history'[u] : history'[u][j].ref = r =>
                 j \in DOMAIN history[u] /\ history[u][j].ref = r
        BY <1>2, <2>2
      <3>2. /\ request[r].user = u
            /\ history[u][i].amount = Signed(request[r])
            /\ request[r].status \in {"approved", "cancelled"}
            /\ \A j \in DOMAIN history[u] : Pays(u, j, r) => j = i
        BY <1>2, <3>1 DEF PaymentMatchesRequest, Pays
      <3>3. request'[r] = request[r]
        BY <2>2
      <3> QED
        BY <3>1, <3>2, <3>3 DEF Pays, Signed
    <2> QED
      BY <2>1, <2>2
  <1>3. ASSUME NEW r \in Requests, request'[r].status = "approved"
        PROVE  \E i \in DOMAIN history'[request'[r].user] : history'[request'[r].user][i].ref = r
    <2>1. CASE r = q
      BY <2>1
    <2>2. CASE r # q
      <3>1. request'[r] = request[r]
        BY <2>2
      <3>2. PICK i \in DOMAIN history[request[r].user] : history[request[r].user][i].ref = r
        BY <1>3, <3>1 DEF PaymentMatchesRequest, Pays
      <3>3. request[r].user \in Users
        BY <1>3, <3>1 DEF RequestsOK, Unused
      <3> QED
        BY <3>1, <3>2, <3>3
    <2> QED
      BY <2>1, <2>2
  <1> QED
    BY <1>2, <1>3 DEF PaymentMatchesRequest, Pays, Signed

\* A row that pays no request disturbs no payment.
LEMMA RowWithoutRequest ==
  ASSUME TypeOK, RequestsOK, PaymentMatchesRequest, NEW w \in Users, NEW a,
         UNCHANGED request,
         \A v \in Users \ {w} : history'[v] = history[v],
         DOMAIN history'[w] = DOMAIN history[w] \cup {Len(history[w]) + 1},
         \A i \in DOMAIN history[w] : history'[w][i] = history[w][i],
         history'[w][Len(history[w]) + 1] = [amount |-> a, ref |-> NoRequest]
  PROVE  PaymentMatchesRequest'
  <1>1. ASSUME NEW u \in Users, NEW r \in Requests, NEW i \in DOMAIN history'[u]
        PROVE  history'[u][i].ref = r =>
                 i \in DOMAIN history[u] /\ history'[u][i] = history[u][i]
    BY WalletRequestsAssumption
  <1>2. ASSUME NEW u \in Users, NEW i \in DOMAIN history[u]
        PROVE  i \in DOMAIN history'[u] /\ history'[u][i] = history[u][i]
    OBVIOUS
  <1>3. ASSUME NEW u \in Users, NEW r \in Requests, NEW i \in DOMAIN history'[u], history'[u][i].ref = r
        PROVE  /\ request[r].user = u
               /\ history'[u][i].amount = Signed(request[r])
               /\ request[r].status \in {"approved", "cancelled"}
               /\ \A j \in DOMAIN history'[u] : history'[u][j].ref = r => j = i
    BY <1>1, <1>3 DEF PaymentMatchesRequest, Pays
  <1>4. ASSUME NEW r \in Requests, request[r].status = "approved"
        PROVE  \E i \in DOMAIN history'[request[r].user] : history'[request[r].user][i].ref = r
    <2>1. PICK i \in DOMAIN history[request[r].user] : history[request[r].user][i].ref = r
      BY <1>4 DEF PaymentMatchesRequest, Pays
    <2>2. request[r].user \in Users
      BY <1>4 DEF RequestsOK, Unused
    <2> QED
      BY <1>2, <2>1, <2>2
  <1> QED
    BY <1>3, <1>4 DEF PaymentMatchesRequest, Pays, Signed

\* The inductive step, one lemma per invariant and one case per action.
LEMMA StepIInv == IInv /\ [Next]_vars => IInv'
  <1> SUFFICES ASSUME IInv, [Next]_vars PROVE IInv'
    OBVIOUS
  <1> USE WalletRequestsAssumption
  <1> USE DEF IInv
  <1>0. CASE UNCHANGED vars
    BY <1>0 DEF vars, TypeOK, RequestsOK, CallsOK, LockedRowsAreStable, PaymentMatchesRequest, Pays
  <1>1. ASSUME NEW c \in Calls, NEW u \in Users, NEW a \in Amounts, NEW r \in Requests, CreateDeposit(c, u, a, r) PROVE IInv'
    <2>1. /\ request' \in [Requests -> RequestRow]
          /\ request'[r].status = "pending"
          /\ request'[r].user = u
          /\ \A q \in Requests \ {r} : request'[q] = request[q]
          /\ bus' \subseteq Event
      BY <1>1, InsertEffect DEF CreateDeposit
    <2>2. request[r] = Unused /\ \A d \in Calls : call[d].req # r
      BY <1>1 DEF CreateDeposit, Fresh
    <2>3. TypeOK'
      BY <1>1, <2>1, <2>2 DEF CreateDeposit, TypeOK
    <2>4. RequestsOK'
      BY <1>1, <2>1, <2>2 DEF CreateDeposit, RequestsOK
    <2>5. CallsOK'
      BY <1>1, <2>1, <2>2 DEF CreateDeposit, CallsOK, HoldsRequest, Idle
    <2>6. LockedRowsAreStable'
      BY <1>1, <2>1, <2>2 DEF CreateDeposit, LockedRowsAreStable, CallsOK, HoldsRequest, HoldsWallet, RequestLocked, WalletLocked, Idle
    <2>7. PaymentMatchesRequest'
      BY <1>1, <2>1, <2>2, PaymentKept DEF CreateDeposit, Unused
    <2> QED
      BY <2>3, <2>4, <2>5, <2>6, <2>7
  <1>2. ASSUME NEW c \in Calls, NEW u \in Users, NEW a \in Amounts, NEW r \in Requests, PayoutCheck(c, u, a, r) PROVE IInv'
    <2>1. a \in 0 .. Int4Max /\ a \in Int /\ Start(c, "payout_count", u, r, a) /\ "payout_count" \in Steps
      BY <1>2 DEF PayoutCheck, TypeOK, Steps
    <2>2. /\ call' \in [Calls -> CallRecord]
          /\ call[c] = Idle
          /\ call'[c] = [step |-> "payout_count", user |-> u, req |-> r, amount |-> a]
          /\ \A d \in Calls \ {c} : call'[d] = call[d]
      BY <2>1, StartEffect
    <2>3. request[r] = Unused /\ \A d \in Calls : call[d].req # r
      BY <1>2 DEF PayoutCheck, Fresh
    <2>4. TypeOK'
      BY <1>2, <2>1, <2>2, <2>3 DEF PayoutCheck, TypeOK, Silent
    <2>5. RequestsOK'
      BY <1>2, <2>1, <2>2, <2>3 DEF PayoutCheck, RequestsOK
    <2>6. CallsOK'
      BY <1>2, <2>1, <2>2, <2>3 DEF PayoutCheck, CallsOK, HoldsRequest, Idle
    <2>7. LockedRowsAreStable'
      BY <1>2, <2>1, <2>2, <2>3 DEF PayoutCheck, LockedRowsAreStable, CallsOK, HoldsRequest, HoldsWallet, RequestLocked, WalletLocked, Idle
    <2>8. PaymentMatchesRequest'
      BY <1>2, <2>1, <2>2, <2>3, PaymentKept DEF PayoutCheck, Unused
    <2> QED
      BY <2>4, <2>5, <2>6, <2>7, <2>8
  <1>3. ASSUME NEW c \in Calls, NEW u \in Users, NEW delta \in Int, AdjustLock(c, u, delta) PROVE IInv'
    <2>1. Start(c, "adjust_commit", u, NoRequest, delta) /\ "adjust_commit" \in Steps /\ UNCHANGED request
      BY <1>3 DEF AdjustLock, Steps
    <2>2. /\ call' \in [Calls -> CallRecord]
          /\ call[c] = Idle
          /\ call'[c] = [step |-> "adjust_commit", user |-> u, req |-> NoRequest, amount |-> delta]
          /\ \A d \in Calls \ {c} : call'[d] = call[d]
      BY <2>1, StartEffect
    <2>3. TypeOK'
      BY <1>3, <2>1, <2>2 DEF AdjustLock, TypeOK, Silent
    <2>4. RequestsOK'
      BY <1>3, <2>1, <2>2 DEF AdjustLock, RequestsOK
    <2>5. CallsOK'
      BY <2>1, <2>2 DEF CallsOK, HoldsRequest, Idle
    <2>6. LockedRowsAreStable'
      <3>1. ~ WalletLocked(u) /\ InRange(balance[u] + delta) /\ UNCHANGED <<balance, request>>
        BY <1>3 DEF AdjustLock
      <3>2. \A d \in Calls : call[d].step \in HoldsWallet => call[d].user # u
        BY <3>1 DEF WalletLocked
      <3> QED
        BY <3>1, <3>2, <2>2 DEF LockedRowsAreStable, HoldsRequest, HoldsWallet
    <2>7. PaymentMatchesRequest'
      BY <1>3, <2>1, <2>2, PaymentKept DEF AdjustLock, Unused
    <2> QED
      BY <2>3, <2>4, <2>5, <2>6, <2>7
  <1>4. ASSUME NEW c \in Calls, NEW u \in Users, NEW r \in Requests, CancelRead(c, u, r) PROVE IInv'
    <2>1. 0 \in Int /\ Start(c, "cancel_save", u, r, 0) /\ "cancel_save" \in Steps
      BY <1>4 DEF CancelRead, Steps
    <2>2. /\ call' \in [Calls -> CallRecord]
          /\ call[c] = Idle
          /\ call'[c] = [step |-> "cancel_save", user |-> u, req |-> r, amount |-> 0]
          /\ \A d \in Calls \ {c} : call'[d] = call[d]
      BY <2>1, StartEffect
    <2>3. TypeOK'
      BY <1>4, <2>1, <2>2 DEF CancelRead, TypeOK, Silent
    <2>4. RequestsOK'
      BY <1>4, <2>1, <2>2 DEF CancelRead, RequestsOK
    <2>5. CallsOK'
      BY <1>4, <2>1, <2>2 DEF CancelRead, CallsOK, HoldsRequest, Idle, Unused
    <2>6. LockedRowsAreStable'
      BY <1>4, <2>1, <2>2 DEF CancelRead, LockedRowsAreStable, CallsOK, HoldsRequest, HoldsWallet, RequestLocked, WalletLocked, Idle
    <2>7. PaymentMatchesRequest'
      BY <1>4, <2>1, <2>2, PaymentKept DEF CancelRead, Unused
    <2> QED
      BY <2>3, <2>4, <2>5, <2>6, <2>7
  <1>5. ASSUME NEW c \in Calls, NEW r \in Requests, ApproveLock(c, r) PROVE IInv'
    <2>1. request[r].user \in Users
      BY <1>5 DEF ApproveLock, RequestsOK, Unused
    <2>2. Signed(request[r]) \in Int
      BY DEF Signed, TypeOK, RequestRow
    <2>3. /\ call' \in [Calls -> CallRecord]
          /\ call[c] = Idle
          /\ call'[c] = [step |-> "approve_wallet", user |-> request[r].user, req |-> r, amount |-> Signed(request[r])]
          /\ \A d \in Calls \ {c} : call'[d] = call[d]
      BY <1>5, <2>1, <2>2, StartEffect DEF ApproveLock, Steps
    <2>4. TypeOK'
      BY <1>5, <2>1, <2>2, <2>3 DEF ApproveLock, TypeOK, Silent
    <2>5. RequestsOK'
      BY <1>5, <2>1, <2>2, <2>3 DEF ApproveLock, RequestsOK
    <2>6. CallsOK'
      BY <1>5, <2>1, <2>2, <2>3 DEF ApproveLock, CallsOK, HoldsRequest, Idle, Unused
    <2>7. LockedRowsAreStable'
      BY <1>5, <2>1, <2>2, <2>3 DEF ApproveLock, LockedRowsAreStable, CallsOK, HoldsRequest, HoldsWallet, RequestLocked, WalletLocked, Idle
    <2>8. PaymentMatchesRequest'
      BY <1>5, <2>1, <2>2, <2>3, PaymentKept DEF ApproveLock, Unused
    <2> QED
      BY <2>4, <2>5, <2>6, <2>7, <2>8
  <1>6. ASSUME NEW c \in Calls, NEW r \in Requests, RejectLock(c, r) PROVE IInv'
    <2>1. request[r].user \in Users
      BY <1>6 DEF RejectLock, RequestsOK, Unused
    <2>2. 0 \in Int /\ Start(c, "reject_commit", request[r].user, r, 0) /\ "reject_commit" \in Steps
      BY <1>6 DEF RejectLock, Steps
    <2>3. /\ call' \in [Calls -> CallRecord]
          /\ call[c] = Idle
          /\ call'[c] = [step |-> "reject_commit", user |-> request[r].user, req |-> r, amount |-> 0]
          /\ \A d \in Calls \ {c} : call'[d] = call[d]
      BY <2>1, <2>2, StartEffect
    <2>4. bus' \subseteq Event
      BY <1>6, EventType DEF RejectLock, Statuses
    <2>5. TypeOK'
      BY <1>6, <2>1, <2>2, <2>3, <2>4 DEF RejectLock, TypeOK
    <2>6. RequestsOK'
      BY <1>6, <2>1, <2>2, <2>3, <2>4 DEF RejectLock, RequestsOK
    <2>7. CallsOK'
      BY <1>6, <2>1, <2>2, <2>3, <2>4 DEF RejectLock, CallsOK, HoldsRequest, Idle, Unused
    <2>8. LockedRowsAreStable'
      BY <1>6, <2>1, <2>2, <2>3, <2>4 DEF RejectLock, LockedRowsAreStable, CallsOK, HoldsRequest, HoldsWallet, RequestLocked, WalletLocked, Idle
    <2>9. PaymentMatchesRequest'
      BY <1>6, <2>1, <2>2, <2>3, <2>4, PaymentKept DEF RejectLock, Unused
    <2> QED
      BY <2>5, <2>6, <2>7, <2>8, <2>9
  <1>7. ASSUME NEW c \in Calls, PayoutCount(c) PROVE IInv'
    <2>1. CASE Goto(c, "payout_insert")
      <3>1. /\ call' \in [Calls -> CallRecord]
            /\ call'[c].step = "payout_insert"
            /\ call'[c].user = call[c].user
            /\ call'[c].req = call[c].req
            /\ call'[c].amount = call[c].amount
            /\ \A d \in Calls \ {c} : call'[d] = call[d]
        BY <2>1, GotoEffect DEF Steps
      <3>2. TypeOK'
        BY <1>7, <3>1 DEF PayoutCount, TypeOK, Silent
      <3>3. RequestsOK'
        BY <1>7 DEF PayoutCount, RequestsOK
      <3>4. CallsOK'
        BY <1>7, <3>1 DEF PayoutCount, CallsOK, HoldsRequest, Idle
      <3>5. LockedRowsAreStable'
        BY <1>7, <3>1 DEF PayoutCount, LockedRowsAreStable, CallsOK, HoldsRequest, HoldsWallet, RequestLocked, WalletLocked, Idle
      <3>6. PaymentMatchesRequest'
        BY <1>7, PaymentKept DEF PayoutCount
      <3> QED
        BY <3>2, <3>3, <3>4, <3>5, <3>6
    <2>2. CASE Finish(c)
      <3>1. /\ call' \in [Calls -> CallRecord]
            /\ call'[c] = Idle
            /\ \A d \in Calls \ {c} : call'[d] = call[d]
        BY <2>2, FinishEffect
      <3>2. TypeOK'
        BY <1>7, <3>1 DEF PayoutCount, TypeOK, Silent
      <3>3. RequestsOK'
        BY <1>7 DEF PayoutCount, RequestsOK
      <3>4. CallsOK'
        BY <1>7, <3>1, WalletRequestsAssumption DEF PayoutCount, CallsOK, HoldsRequest, Idle
      <3>5. LockedRowsAreStable'
        BY <1>7, <3>1 DEF PayoutCount, LockedRowsAreStable, CallsOK, HoldsRequest, HoldsWallet, RequestLocked, WalletLocked, Idle
      <3>6. PaymentMatchesRequest'
        BY <1>7, PaymentKept DEF PayoutCount
      <3> QED
        BY <3>2, <3>3, <3>4, <3>5, <3>6
    <2> QED
      BY <1>7, <2>1, <2>2 DEF PayoutCount
  <1>8. ASSUME NEW c \in Calls, PayoutInsert(c) PROVE IInv'
    <2>1. /\ call[c].req \in Requests /\ call[c].user \in Users /\ call[c].amount \in 0 .. Int4Max
          /\ request[call[c].req] = Unused
          /\ \A d \in Calls \ {c} : call[d].req # call[c].req
      BY <1>8 DEF PayoutInsert, CallsOK
    <2>2. /\ request' \in [Requests -> RequestRow]
          /\ request'[call[c].req].status = "pending"
          /\ request'[call[c].req].user = call[c].user
          /\ \A q \in Requests \ {call[c].req} : request'[q] = request[q]
          /\ bus' \subseteq Event
      BY <1>8, <2>1, InsertEffect DEF PayoutInsert
    <2>3. /\ call' \in [Calls -> CallRecord]
          /\ call'[c] = Idle
          /\ \A d \in Calls \ {c} : call'[d] = call[d]
      BY <1>8, FinishEffect DEF PayoutInsert
    <2>4. TypeOK'
      BY <1>8, <2>1, <2>2, <2>3 DEF PayoutInsert, TypeOK
    <2>5. RequestsOK'
      BY <1>8, <2>1, <2>2, <2>3 DEF PayoutInsert, RequestsOK
    <2>6. CallsOK'
      BY <1>8, <2>1, <2>2, <2>3 DEF PayoutInsert, CallsOK, HoldsRequest, Idle
    <2>7. LockedRowsAreStable'
      BY <1>8, <2>1, <2>2, <2>3 DEF PayoutInsert, LockedRowsAreStable, CallsOK, HoldsRequest, HoldsWallet, RequestLocked, WalletLocked, Idle
    <2>8. PaymentMatchesRequest'
      BY <1>8, <2>1, <2>2, <2>3, PaymentKept DEF PayoutInsert, Unused
    <2> QED
      BY <2>4, <2>5, <2>6, <2>7, <2>8
  <1>9. ASSUME NEW c \in Calls, CancelSave(c) PROVE IInv'
    <2>1. call[c].req \in Requests /\ request[call[c].req].status # "none"
      BY <1>9 DEF CancelSave, CallsOK
    <2>2. /\ request' \in [Requests -> RequestRow]
          /\ request'[call[c].req].status = "cancelled"
          /\ request'[call[c].req].type = request[call[c].req].type
          /\ request'[call[c].req].user = request[call[c].req].user
          /\ request'[call[c].req].amount = request[call[c].req].amount
          /\ \A q \in Requests \ {call[c].req} : request'[q] = request[q]
      BY <1>9, <2>1, SaveEffect DEF CancelSave, Statuses
    <2>3. /\ call' \in [Calls -> CallRecord]
          /\ call'[c] = Idle
          /\ \A d \in Calls \ {c} : call'[d] = call[d]
      BY <1>9, FinishEffect DEF CancelSave
    <2>4. bus' \subseteq Event
      BY <1>9, <2>1, EventType DEF CancelSave, Statuses
    <2>5. TypeOK'
      BY <1>9, <2>1, <2>2, <2>3, <2>4 DEF CancelSave, TypeOK
    <2>6. RequestsOK'
      BY <1>9, <2>1, <2>2, <2>3, <2>4 DEF CancelSave, RequestsOK, Unused
    <2>7. CallsOK'
      BY <1>9, <2>1, <2>2, <2>3, <2>4 DEF CancelSave, CallsOK, HoldsRequest, Idle, Unused
    <2>8. LockedRowsAreStable'
      BY <1>9, <2>1, <2>2, <2>3, <2>4 DEF CancelSave, LockedRowsAreStable, CallsOK, HoldsRequest, HoldsWallet, RequestLocked, WalletLocked, Idle
    <2>9. PaymentMatchesRequest'
      BY <1>9, <2>1, <2>2, <2>3, <2>4, PaymentKept DEF CancelSave, Unused
    <2> QED
      BY <2>5, <2>6, <2>7, <2>8, <2>9
  <1>10. ASSUME NEW c \in Calls, ApproveWallet(c) PROVE IInv'
    <2>1. call[c].req \in Requests /\ call[c].user \in Users
      BY <1>10 DEF ApproveWallet, CallsOK, HoldsRequest
    <2>2. CASE InRange(balance[call[c].user] + call[c].amount)
      <3>1. Goto(c, "approve_commit") /\ Emit("updated", call[c].req, SetStatus(call[c].req, "approved"))
        BY <1>10, <2>2 DEF ApproveWallet
      <3>2. /\ call' \in [Calls -> CallRecord]
            /\ call'[c].step = "approve_commit"
            /\ call'[c].user = call[c].user
            /\ call'[c].req = call[c].req
            /\ call'[c].amount = call[c].amount
            /\ \A d \in Calls \ {c} : call'[d] = call[d]
        BY <3>1, GotoEffect DEF Steps
      <3>3. bus' \subseteq Event
        BY <2>1, <3>1, EventType DEF Statuses
      <3>4. TypeOK'
        BY <1>10, <3>2, <3>3 DEF ApproveWallet, TypeOK
      <3>5. RequestsOK'
        BY <1>10 DEF ApproveWallet, RequestsOK
      <3>6. CallsOK'
        BY <1>10, <3>2 DEF ApproveWallet, CallsOK, HoldsRequest, Idle
      <3>7. LockedRowsAreStable'
        BY <1>10, <2>2, <3>2 DEF ApproveWallet, InRange, LockedRowsAreStable, CallsOK, HoldsRequest, HoldsWallet, RequestLocked, WalletLocked, Idle
      <3>8. PaymentMatchesRequest'
        BY <1>10, PaymentKept DEF ApproveWallet
      <3> QED
        BY <3>4, <3>5, <3>6, <3>7, <3>8
    <2>3. CASE ~ InRange(balance[call[c].user] + call[c].amount)
      <3>1. Finish(c) /\ Silent
        BY <1>10, <2>3 DEF ApproveWallet
      <3>2. /\ call' \in [Calls -> CallRecord]
            /\ call'[c] = Idle
            /\ \A d \in Calls \ {c} : call'[d] = call[d]
        BY <3>1, FinishEffect
      <3>3. TypeOK'
        BY <1>10, <3>1, <3>2 DEF ApproveWallet, TypeOK, Silent
      <3>4. RequestsOK'
        BY <1>10 DEF ApproveWallet, RequestsOK
      <3>5. CallsOK'
        BY <1>10, <3>2 DEF ApproveWallet, CallsOK, HoldsRequest, Idle
      <3>6. LockedRowsAreStable'
        BY <1>10, <3>2 DEF ApproveWallet, LockedRowsAreStable, CallsOK, HoldsRequest, HoldsWallet, RequestLocked, WalletLocked, Idle
      <3>7. PaymentMatchesRequest'
        BY <1>10, PaymentKept DEF ApproveWallet
      <3> QED
        BY <3>3, <3>4, <3>5, <3>6, <3>7
    <2> QED
      BY <2>2, <2>3
  <1>11. ASSUME NEW c \in Calls, ApproveCommit(c) PROVE IInv'
    <2>1. PICK u \in Users, a \in Int, r \in Requests :
            call[c].user = u /\ call[c].amount = a /\ call[c].req = r
      BY <1>11 DEF ApproveCommit, CallsOK, TypeOK, CallRecord, HoldsRequest
    <2>2. /\ request[r].status = "pending"
          /\ request[r].user = u
          /\ a = Signed(request[r])
          /\ InRange(balance[u] + a)
      BY <1>11, <2>1 DEF ApproveCommit, LockedRowsAreStable, HoldsRequest, HoldsWallet
    <2>3. Credit(u, a, r) /\ Save(r, "approved") /\ Finish(c) /\ Silent
      BY <1>11, <2>1 DEF ApproveCommit
    <2>4. /\ request' \in [Requests -> RequestRow]
          /\ request'[r].status = "approved"
          /\ request'[r].type = request[r].type
          /\ request'[r].user = request[r].user
          /\ request'[r].amount = request[r].amount
          /\ \A q \in Requests \ {r} : request'[q] = request[q]
      BY <2>3, SaveEffect DEF Statuses
    <2>5. /\ call' \in [Calls -> CallRecord]
          /\ call'[c] = Idle
          /\ \A d \in Calls \ {c} : call'[d] = call[d]
      BY <2>3, FinishEffect
    <2>6. /\ balance' \in [Users -> 0 .. Int4Max]
          /\ balance'[u] = balance[u] + a
          /\ \A v \in Users \ {u} : balance'[v] = balance[v] /\ history'[v] = history[v]
          /\ history' \in [Users -> Seq(HistoryRow)]
          /\ DOMAIN history'[u] = DOMAIN history[u] \cup {Len(history[u]) + 1}
          /\ \A i \in DOMAIN history[u] : history'[u][i] = history[u][i]
          /\ history'[u][Len(history[u]) + 1] = [amount |-> a, ref |-> r]
      BY <2>2, <2>3, CreditEffect
    <2>7. TypeOK'
      BY <2>3, <2>4, <2>5, <2>6 DEF TypeOK, Silent
    <2>8. RequestsOK'
      BY <2>2, <2>4 DEF RequestsOK, Unused
    <2>9. CallsOK'
      BY <2>2, <2>4, <2>5 DEF CallsOK, HoldsRequest, Idle, Unused
    <2>10. LockedRowsAreStable'
      <3>1. \A d \in Calls \ {c} : /\ call[d].step \in HoldsRequest => call[d].req # r
                                   /\ call[d].step \in HoldsWallet => call[d].user # u
        BY <1>11, <2>1 DEF ApproveCommit, LockedRowsAreStable, HoldsRequest, HoldsWallet
      <3>2. \A d \in Calls : call[d].step # "idle" => call[d].user \in Users
        BY DEF CallsOK
      <3>3. \A d \in Calls : call[d].step \in HoldsRequest => call[d].req \in Requests
        BY DEF CallsOK
      <3>4. balance'[u] = balance[u] + a /\ \A v \in Users \ {u} : balance'[v] = balance[v]
        BY <2>6
      <3>5. ASSUME NEW d \in Calls \ {c}
            PROVE  /\ call'[d] = call[d]
                   /\ call[d].step \in HoldsRequest => request'[call[d].req] = request[call[d].req]
                   /\ call[d].step \in HoldsWallet => balance'[call[d].user] = balance[call[d].user]
        <4>1. call'[d] = call[d]
          BY <2>5
        <4>2. ASSUME call[d].step \in HoldsRequest PROVE request'[call[d].req] = request[call[d].req]
          <5>1. call[d].req \in Requests \ {r}
            BY <3>1, <3>3, <4>2
          <5>2. \A q \in Requests \ {r} : request'[q] = request[q]
            BY <2>4
          <5> QED
            BY <5>1, <5>2
        <4>3. ASSUME call[d].step \in HoldsWallet PROVE balance'[call[d].user] = balance[call[d].user]
          <5>1. call[d].step # "idle"
            BY <4>3 DEF HoldsWallet
          <5>2. call[d].user \in Users \ {u}
            BY <3>1, <3>2, <4>3, <5>1
          <5> QED
            BY <3>4, <5>2
        <4> QED
          BY <4>1, <4>2, <4>3
      <3>6. ASSUME NEW d \in Calls
            PROVE  LockedRowsAreStable!(d)'
        <4>1. CASE d = c
          BY <4>1, <2>5 DEF Idle, HoldsRequest, HoldsWallet
        <4>2. CASE d # c
          <5>1. LockedRowsAreStable!(d)
            BY DEF LockedRowsAreStable
          <5>2. \A e \in Calls \ {d} : call'[e] = call[e] \/ call'[e].step = "idle"
            BY <3>5, <2>5 DEF Idle
          <5> QED
            BY <5>1, <5>2, <4>2, <3>5 DEF HoldsRequest, HoldsWallet, InRange, Signed
        <4> QED
          BY <4>1, <4>2
      <3> QED
        BY <3>6 DEF LockedRowsAreStable
    <2>11. PaymentMatchesRequest'
      <3>1. history'[u][Len(history[u]) + 1] = [amount |-> Signed(request[r]), ref |-> r]
        BY <2>2, <2>6
      <3> HIDE DEF IInv
      <3>2. TypeOK /\ RequestsOK /\ PaymentMatchesRequest
        BY DEF IInv
      <3>3. \A v \in Users \ {u} : history'[v] = history[v]
        BY <2>6
      <3>4. DOMAIN history'[u] = DOMAIN history[u] \cup {Len(history[u]) + 1}
        BY <2>6
      <3>5. \A i \in DOMAIN history[u] : history'[u][i] = history[u][i]
        BY <2>6
      <3> QED
        BY <3>1, <3>2, <3>3, <3>4, <3>5, <2>2, <2>4, PaymentAdded
    <2> QED
      BY <2>7, <2>8, <2>9, <2>10, <2>11
  <1>12. ASSUME NEW c \in Calls, RejectCommit(c) PROVE IInv'
    <2>1. call[c].req \in Requests /\ request[call[c].req].status = "pending"
      BY <1>12 DEF RejectCommit, CallsOK, LockedRowsAreStable, HoldsRequest
    <2>2. /\ request' \in [Requests -> RequestRow]
          /\ request'[call[c].req].status = "rejected"
          /\ request'[call[c].req].type = request[call[c].req].type
          /\ request'[call[c].req].user = request[call[c].req].user
          /\ request'[call[c].req].amount = request[call[c].req].amount
          /\ \A q \in Requests \ {call[c].req} : request'[q] = request[q]
      BY <1>12, <2>1, SaveEffect DEF RejectCommit, Statuses
    <2>3. /\ call' \in [Calls -> CallRecord]
          /\ call'[c] = Idle
          /\ \A d \in Calls \ {c} : call'[d] = call[d]
      BY <1>12, FinishEffect DEF RejectCommit
    <2>4. TypeOK'
      BY <1>12, <2>1, <2>2, <2>3 DEF RejectCommit, TypeOK, Silent
    <2>5. RequestsOK'
      BY <1>12, <2>1, <2>2, <2>3 DEF RejectCommit, RequestsOK, Unused
    <2>6. CallsOK'
      BY <1>12, <2>1, <2>2, <2>3 DEF RejectCommit, CallsOK, HoldsRequest, Idle, Unused
    <2>7. LockedRowsAreStable'
      BY <1>12, <2>1, <2>2, <2>3 DEF RejectCommit, LockedRowsAreStable, CallsOK, HoldsRequest, HoldsWallet, RequestLocked, WalletLocked, Idle
    <2>8. PaymentMatchesRequest'
      BY <1>12, <2>1, <2>2, <2>3, PaymentKept DEF RejectCommit, Unused
    <2> QED
      BY <2>4, <2>5, <2>6, <2>7, <2>8
  <1>13. ASSUME NEW c \in Calls, AdjustCommit(c) PROVE IInv'
    <2>1. PICK u \in Users, a \in Int : call[c].user = u /\ call[c].amount = a
      BY <1>13 DEF AdjustCommit, CallsOK, TypeOK, CallRecord
    <2>2. InRange(balance[u] + a)
      BY <1>13, <2>1 DEF AdjustCommit, LockedRowsAreStable, HoldsWallet
    <2>3. Credit(u, a, NoRequest) /\ Finish(c) /\ Silent /\ UNCHANGED request
      BY <1>13, <2>1 DEF AdjustCommit
    <2>4. /\ call' \in [Calls -> CallRecord]
          /\ call'[c] = Idle
          /\ \A d \in Calls \ {c} : call'[d] = call[d]
      BY <2>3, FinishEffect
    <2>5. /\ balance' \in [Users -> 0 .. Int4Max]
          /\ balance'[u] = balance[u] + a
          /\ \A v \in Users \ {u} : balance'[v] = balance[v] /\ history'[v] = history[v]
          /\ history' \in [Users -> Seq(HistoryRow)]
          /\ DOMAIN history'[u] = DOMAIN history[u] \cup {Len(history[u]) + 1}
          /\ \A i \in DOMAIN history[u] : history'[u][i] = history[u][i]
          /\ history'[u][Len(history[u]) + 1] = [amount |-> a, ref |-> NoRequest]
      BY <2>2, <2>3, CreditEffect
    <2>6. TypeOK'
      BY <2>3, <2>4, <2>5 DEF TypeOK, Silent
    <2>7. RequestsOK'
      BY <2>3 DEF RequestsOK
    <2>8. CallsOK'
      BY <2>3, <2>4 DEF CallsOK, HoldsRequest, Idle
    <2>9. LockedRowsAreStable'
      <3>1. \A d \in Calls \ {c} : call[d].step \in HoldsWallet => call[d].user # u
        BY <1>13, <2>1 DEF AdjustCommit, LockedRowsAreStable, HoldsWallet
      <3>2. \A d \in Calls : call[d].step # "idle" => call[d].user \in Users
        BY DEF CallsOK
      <3>3. balance'[u] = balance[u] + a /\ \A v \in Users \ {u} : balance'[v] = balance[v]
        BY <2>5
      <3> QED
        BY <3>1, <3>2, <3>3, <2>3, <2>4 DEF LockedRowsAreStable, HoldsRequest, HoldsWallet, Idle
    <2>10. PaymentMatchesRequest'
      <3> HIDE DEF IInv
      <3>1. TypeOK /\ RequestsOK /\ PaymentMatchesRequest
        BY DEF IInv
      <3>2. UNCHANGED request
        BY <2>3
      <3>3. \A v \in Users \ {u} : history'[v] = history[v]
        BY <2>5
      <3>4. DOMAIN history'[u] = DOMAIN history[u] \cup {Len(history[u]) + 1}
        BY <2>5
      <3>5. \A i \in DOMAIN history[u] : history'[u][i] = history[u][i]
        BY <2>5
      <3>6. history'[u][Len(history[u]) + 1] = [amount |-> a, ref |-> NoRequest]
        BY <2>5
      <3> QED
        BY <3>1, <3>2, <3>3, <3>4, <3>5, <3>6, RowWithoutRequest
    <2> QED
      BY <2>6, <2>7, <2>8, <2>9, <2>10
  <1>14. ASSUME NEW c \in Calls, Fail(c) PROVE IInv'
    <2>1. /\ call' \in [Calls -> CallRecord]
          /\ call'[c] = Idle
          /\ \A d \in Calls \ {c} : call'[d] = call[d]
      BY <1>14, FinishEffect DEF Fail
    <2>2. TypeOK'
      BY <1>14, <2>1 DEF Fail, TypeOK, Silent
    <2>3. RequestsOK'
      BY <1>14, <2>1 DEF Fail, RequestsOK
    <2>4. CallsOK'
      BY <1>14, <2>1 DEF Fail, CallsOK, HoldsRequest, Idle
    <2>5. LockedRowsAreStable'
      BY <1>14, <2>1 DEF Fail, LockedRowsAreStable, CallsOK, HoldsRequest, HoldsWallet, RequestLocked, WalletLocked, Idle
    <2>6. PaymentMatchesRequest'
      BY <1>14, <2>1, PaymentKept DEF Fail, Unused
    <2> QED
      BY <2>2, <2>3, <2>4, <2>5, <2>6
  <1>15. CASE Restart
    BY <1>15 DEF Restart, Silent, TypeOK, RequestsOK, CallsOK, LockedRowsAreStable, PaymentMatchesRequest,
         Pays, CallRecord, Steps, Idle, HoldsRequest, HoldsWallet
  <1> QED
    BY <1>0, <1>1, <1>2, <1>3, <1>4, <1>5, <1>6, <1>7, <1>8, <1>9, <1>10, <1>11, <1>12, <1>13, <1>14, <1>15 DEF Next, Arrive, Continue

-----------------------------------------------------------------------------
\* Only the two committing steps touch a wallet, and they post one row each.
Posted(u, a, ref) ==
  /\ InRange(balance[u] + a)
  /\ Credit(u, a, ref)
  /\ \/ ref = NoRequest /\ UNCHANGED request
     \/ /\ ref \in Requests
        /\ request[ref].status = "pending"
        /\ request[ref].user = u

LEMMA MoneySteps ==
  ASSUME IInv, [Next]_vars
  PROVE  \/ UNCHANGED <<balance, history>>
         \/ \E u \in Users, a \in Int, ref \in Requests \cup {NoRequest} : Posted(u, a, ref)
  <1>1. ASSUME NEW c \in Calls, ApproveCommit(c)
        PROVE  \E u \in Users, a \in Int, ref \in Requests \cup {NoRequest} : Posted(u, a, ref)
    <2>1. /\ call[c].user \in Users /\ call[c].amount \in Int /\ call[c].req \in Requests
          /\ InRange(balance[call[c].user] + call[c].amount)
          /\ request[call[c].req].status = "pending"
          /\ request[call[c].req].user = call[c].user
      BY <1>1 DEF ApproveCommit, IInv, CallsOK, TypeOK, CallRecord, LockedRowsAreStable, HoldsRequest, HoldsWallet
    <2>2. Credit(call[c].user, call[c].amount, call[c].req)
      BY <1>1 DEF ApproveCommit
    <2> QED
      BY <2>1, <2>2 DEF Posted
  <1>2. ASSUME NEW c \in Calls, AdjustCommit(c)
        PROVE  \E u \in Users, a \in Int, ref \in Requests \cup {NoRequest} : Posted(u, a, ref)
    <2>1. /\ call[c].user \in Users /\ call[c].amount \in Int
          /\ InRange(balance[call[c].user] + call[c].amount)
      BY <1>2 DEF AdjustCommit, IInv, CallsOK, TypeOK, CallRecord, LockedRowsAreStable, HoldsRequest, HoldsWallet
    <2>2. Credit(call[c].user, call[c].amount, NoRequest) /\ UNCHANGED request
      BY <1>2 DEF AdjustCommit
    <2> QED
      BY <2>1, <2>2 DEF Posted
  <1>3. ASSUME NEW c \in Calls, Arrive(c)
        PROVE  UNCHANGED <<balance, history>>
    BY <1>3 DEF Arrive, CreateDeposit, PayoutCheck, AdjustLock, CancelRead, ApproveLock, RejectLock
  <1>4. ASSUME NEW c \in Calls, Continue(c), ~ ApproveCommit(c), ~ AdjustCommit(c)
        PROVE  UNCHANGED <<balance, history>>
    BY <1>4 DEF Continue, PayoutCount, PayoutInsert, CancelSave, ApproveWallet, RejectCommit
  <1>5. ASSUME NEW c \in Calls, Fail(c)
        PROVE  UNCHANGED <<balance, history>>
    BY <1>5 DEF Fail
  <1>6. Restart \/ UNCHANGED vars => UNCHANGED <<balance, history>>
    BY DEF Restart, vars
  <1> QED
    BY <1>1, <1>2, <1>3, <1>4, <1>5, <1>6 DEF Next

\* What one posting does to a wallet, in the form the ledger asks for.
LEMMA PostedRow ==
  ASSUME TypeOK, NEW u \in Users, NEW a \in Int, NEW ref \in Requests \cup {NoRequest},
         Posted(u, a, ref)
  PROVE  /\ history'[u] # <<>>
         /\ history'[u][Len(history'[u])] = [amount |-> a, ref |-> ref]
         /\ history'[u] = Append(history[u], history'[u][Len(history'[u])])
         /\ balance'[u] = balance[u] + history'[u][Len(history'[u])].amount
         /\ balance' \in [Users -> 0 .. Int4Max]
         /\ DOMAIN history' = Users
         /\ \A v \in Users \ {u} : balance'[v] = balance[v] /\ history'[v] = history[v]
  <1> DEFINE row == [amount |-> a, ref |-> ref]
  <1>1. /\ balance' \in [Users -> 0 .. Int4Max]
        /\ balance'[u] = balance[u] + a
        /\ \A v \in Users \ {u} : balance'[v] = balance[v] /\ history'[v] = history[v]
        /\ history' \in [Users -> Seq(HistoryRow)]
        /\ history'[u] = Append(history[u], row)
    BY CreditEffect DEF Posted
  <1>2. row \in HistoryRow /\ history[u] \in Seq(HistoryRow)
    BY DEF HistoryRow, TypeOK
  <1>3. /\ Append(history[u], row) # <<>>
        /\ Append(history[u], row)[Len(Append(history[u], row))] = row
    BY <1>2, AppendProperties
  <1> QED
    BY <1>1, <1>3

\* Spec keeps the inductive invariant.
THEOREM Invariance == Spec => []IInv
  <1>1. Init => IInv
    BY InitIInv
  <1>2. IInv /\ [Next]_vars => IInv'
    BY StepIInv
  <1> QED
    BY <1>1, <1>2, PTL DEF Spec

\* Balances are integers of the column, rows and handlers are well formed.
THEOREM TypeCorrect == Spec => []TypeOK
  BY Invariance, PTL DEF IInv

\* A request is paid at most once, only if approved, and always if it reads so.
THEOREM PaymentsAreRight == Spec => []PaymentMatchesRequest
  BY Invariance, PTL DEF IInv

\* What a transaction checked still holds when it commits.
THEOREM LocksProtect == Spec => []LockedRowsAreStable
  BY Invariance, PTL DEF IInv

\* Wallet balances move only with the row that explains the move.
THEOREM NoMoneyWithoutRow == Spec => MoneyMovesByRows
  <1> DEFINE A == \A u \in Users :
        \/ balance'[u] = balance[u] /\ history'[u] = history[u]
        \/ LET row == history'[u][Len(history'[u])] IN
             /\ history'[u] # <<>>
             /\ history'[u] = Append(history[u], row)
             /\ balance'[u] = balance[u] + row.amount
  <1>1. IInv /\ [Next]_vars => A
    <2> SUFFICES ASSUME IInv, [Next]_vars PROVE A
      OBVIOUS
    <2>1. CASE UNCHANGED <<balance, history>>
      BY <2>1
    <2>2. ASSUME NEW u \in Users, NEW a \in Int, NEW ref \in Requests \cup {NoRequest}, Posted(u, a, ref)
          PROVE  A
      BY <2>2, PostedRow DEF IInv
    <2> QED
      BY <2>1, <2>2, MoneySteps
  <1>2. Spec => [][A]_vars
    BY <1>1, Invariance, PTL DEF Spec
  <1> QED
    BY <1>2 DEF MoneyMovesByRows

\* The only step that touches a closed request is a cancelMine that read it
\* while it was pending.
LEMMA ClosedRequestSteps ==
  ASSUME IInv, [Next]_vars, NEW r \in Requests, request[r].status \in Processed
  PROVE  /\ request'[r].status \in Processed
         /\ request'[r].user = request[r].user
  <1> USE DEF IInv, Processed
  <1>1. ASSUME NEW c \in Calls, NEW u \in Users, NEW a \in Amounts, NEW q \in Requests,
               CreateDeposit(c, u, a, q)
        PROVE  request'[r] = request[r]
    BY <1>1 DEF CreateDeposit, Insert, Fresh, Unused, TypeOK
  <1>2. ASSUME NEW c \in Calls, PayoutInsert(c)
        PROVE  request'[r] = request[r]
    <2>1. call[c].req \in Requests /\ request[call[c].req] = Unused
      BY <1>2 DEF PayoutInsert, CallsOK
    <2> QED
      BY <1>2, <2>1 DEF PayoutInsert, Insert, Unused, TypeOK
  <1>3. ASSUME NEW c \in Calls, CancelSave(c)
        PROVE  request'[r].status \in Processed /\ request'[r].user = request[r].user
    <2>1. call[c].req \in Requests
      BY <1>3 DEF CancelSave, CallsOK
    <2>2. CASE r = call[c].req
      BY <1>3, <2>1, <2>2, SaveEffect DEF CancelSave, Statuses
    <2>3. CASE r # call[c].req
      BY <1>3, <2>1, <2>3 DEF CancelSave, Save, TypeOK
    <2> QED
      BY <2>2, <2>3
  <1>4. ASSUME NEW c \in Calls, ApproveCommit(c) \/ RejectCommit(c)
        PROVE  request'[r] = request[r]
    <2>1. call[c].req \in Requests /\ request[call[c].req].status = "pending"
      BY <1>4 DEF ApproveCommit, RejectCommit, CallsOK, LockedRowsAreStable, HoldsRequest
    <2> QED
      BY <1>4, <2>1 DEF ApproveCommit, RejectCommit, Save, TypeOK
  <1>5. \/ UNCHANGED request
        \/ \E c \in Calls : \/ \E u \in Users, a \in Amounts, q \in Requests : CreateDeposit(c, u, a, q)
                            \/ PayoutInsert(c) \/ CancelSave(c)
                            \/ ApproveCommit(c) \/ RejectCommit(c)
    BY DEF Next, vars, Arrive, Continue, Fail, Restart, PayoutCheck, AdjustLock, CancelRead,
         ApproveLock, RejectLock, PayoutCount, ApproveWallet, AdjustCommit
  <1> QED
    BY <1>1, <1>2, <1>3, <1>4, <1>5

\* Once a request is closed, no later step pays it.
THEOREM ClosedStaysClosed == Spec => ClosedMovesNoMoney
  <1> DEFINE A == \A r \in Requests : request[r].status \in Processed =>
        /\ request'[r].status \in Processed
        /\ request[r].user = request'[r].user
        /\ \A i \in DOMAIN history'[request[r].user] :
             history'[request[r].user][i].ref = r => i \in DOMAIN history[request[r].user]
  <1>1. IInv /\ [Next]_vars => A
    <2> SUFFICES ASSUME IInv, [Next]_vars, NEW r \in Requests, request[r].status \in Processed
                 PROVE  /\ request'[r].status \in Processed
                        /\ request[r].user = request'[r].user
                        /\ \A i \in DOMAIN history'[request[r].user] :
                             history'[request[r].user][i].ref = r => i \in DOMAIN history[request[r].user]
      OBVIOUS
    <2>1. request[r].user \in Users
      BY DEF IInv, RequestsOK, Unused, Processed
    <2>2. request'[r].status \in Processed /\ request'[r].user = request[r].user
      BY ClosedRequestSteps
    <2>3. CASE UNCHANGED <<balance, history>>
      BY <2>2, <2>3
    <2>4. ASSUME NEW u \in Users, NEW a \in Int, NEW ref \in Requests \cup {NoRequest}, Posted(u, a, ref)
          PROVE  \A i \in DOMAIN history'[request[r].user] :
                   history'[request[r].user][i].ref = r => i \in DOMAIN history[request[r].user]
      <3>1. ref # r
        BY <2>4, WalletRequestsAssumption DEF Posted, Processed
      <3>2. /\ \A v \in Users \ {u} : history'[v] = history[v]
            /\ DOMAIN history'[u] = DOMAIN history[u] \cup {Len(history[u]) + 1}
            /\ history'[u][Len(history[u]) + 1] = [amount |-> a, ref |-> ref]
        BY <2>4, CreditEffect DEF Posted, IInv
      <3> QED
        BY <2>1, <3>1, <3>2
    <2> QED
      BY <2>2, <2>3, <2>4, MoneySteps
  <1>2. Spec => [][A]_vars
    BY <1>1, Invariance, PTL DEF Spec
  <1> QED
    BY <1>2 DEF ClosedMovesNoMoney

\* The detailed specification implements the abstract ledger.
THEOREM ImplementsLedger == Spec => RefinesLedger
  <1>1. Init => L!Init
    BY DEF Init, L!Init
  <1>2. IInv /\ [Next]_vars => [L!Post]_(L!ledgerVars)
    <2> SUFFICES ASSUME IInv, [Next]_vars PROVE [L!Post]_(L!ledgerVars)
      OBVIOUS
    <2>1. CASE UNCHANGED <<balance, history>>
      BY <2>1 DEF L!ledgerVars
    <2>2. ASSUME NEW u \in Users, NEW a \in Int, NEW ref \in Requests \cup {NoRequest}, Posted(u, a, ref)
          PROVE  L!Post
      <3> DEFINE row == history'[u][Len(history'[u])]
      <3>1. /\ history'[u] # <<>>
            /\ row = [amount |-> a, ref |-> ref]
            /\ history'[u] = Append(history[u], row)
            /\ balance'[u] = balance[u] + row.amount
            /\ balance' \in [Users -> 0 .. Int4Max]
            /\ DOMAIN history' = Users
            /\ \A v \in Users \ {u} : balance'[v] = balance[v] /\ history'[v] = history[v]
        BY <2>2, PostedRow DEF IInv
      <3>2. row.ref # NoRequest => ~ L!PaidTo(u, row.ref)
        BY <2>2, <3>1 DEF Posted, IInv, PaymentMatchesRequest, Pays, L!PaidTo
      <3>3. L!Posts(u)
        BY <3>1, <3>2 DEF L!Posts
      <3>4. \A v \in Users \ {u} : L!Leaves(v)
        BY <3>1 DEF L!Leaves
      <3> QED
        BY <3>1, <3>3, <3>4 DEF L!Post
    <2> QED
      BY <2>1, <2>2, MoneySteps
  <1> QED
    BY <1>1, <1>2, Invariance, PTL DEF Spec, RefinesLedger, L!Spec
=============================================================================
