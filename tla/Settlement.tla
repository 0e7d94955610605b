----------------------------- MODULE Settlement -----------------------------
(***************************************************************************)
(* The transaction of WalletService.settleTrip, statement by statement,    *)
(* against other settlements and AdminWalletsService.adjust.  Trips takes  *)
(* it as one step; here each SELECT ... FOR UPDATE is a step, the handler  *)
(* keeps in memory the balance it read, and writes what it computed from   *)
(* it.  A settlement locks the passenger's wallet and then the driver's,   *)
(* so two settlements of users who drive each other can wait on each other *)
(* until Postgres aborts one of them.                                      *)
(***************************************************************************)
EXTENDS Integers, Sequences, FiniteSets

CONSTANTS
  Users, Nobody,
  Trips, NoTrip,
  Passenger, Driver,   \* of each trip
  Calls,               \* slots for the handlers in flight
  Quotes,              \* [fare, share] a settlement may be asked for
  Deltas,              \* corrections an admin may type
  Opening,             \* balance of each wallet at the start
  Int4Max,             \* largest value of an integer column
  MaxHistory           \* bound: rows per wallet before adjust stops

ASSUME SettlementAssumption ==
  /\ Nobody \notin Users /\ NoTrip \notin Trips
  /\ Passenger \in [Trips -> Users] /\ Driver \in [Trips -> Users]
  /\ \A t \in Trips : Passenger[t] # Driver[t]
  /\ Quotes \subseteq [fare : Int, share : Int]
  /\ Deltas \subseteq Int \ {0}
  /\ Int4Max \in Nat /\ MaxHistory \in Nat
  /\ Opening \in [Users -> 0 .. Int4Max]

VARIABLES
  balance,   \* wallets.balance_xpf
  history,   \* wallet_transactions of each user
  call       \* the handlers in flight

vars == <<balance, history, call>>

-----------------------------------------------------------------------------
Steps == {"idle", "lock_passenger", "lock_driver", "settle_commit", "adjust_commit"}

HistoryRow == [ amount : Int, ref : Trips \cup {NoTrip} ]

\* paid and earned are the balances the handler read under its locks.
CallRecord == [ step : Steps, trip : Trips \cup {NoTrip}, user : Users \cup {Nobody},
                fare : Int, share : Int, paid : Int, earned : Int ]

Idle == [ step |-> "idle", trip |-> NoTrip, user |-> Nobody,
          fare |-> 0, share |-> 0, paid |-> 0, earned |-> 0 ]

At(c, step) == call[c].step = step
Finish(c) == call' = [call EXCEPT ![c] = Idle]

\* Wallets whose rows the handler has locked.
Locks(c) ==
  CASE At(c, "lock_driver") -> {Passenger[call[c].trip]}
    [] At(c, "settle_commit") -> {Passenger[call[c].trip], Driver[call[c].trip]}
    [] At(c, "adjust_commit") -> {call[c].user}
    [] OTHER -> {}

Free(u) == \A c \in Calls : u \notin Locks(c)

\* The row a settlement waits for, if any.
Wants(c) ==
  CASE At(c, "lock_passenger") -> {Passenger[call[c].trip]}
    [] At(c, "lock_driver") -> {Driver[call[c].trip]}
    [] OTHER -> {}

WaitsFor(c, e) == c # e /\ Wants(c) \cap Locks(e) # {}

\* c waits in a circle of handlers that wait for one another.
Deadlocked(c) ==
  \E circle \in SUBSET Calls :
    /\ c \in circle
    /\ \A x \in circle : \E y \in circle : WaitsFor(x, y)
    /\ \A y \in circle : \E x \in circle : WaitsFor(x, y)

Lesser(m, n) == IF m <= n THEN m ELSE n

PaidTo(u, t) == \E i \in DOMAIN history[u] : history[u][i].ref = t

-----------------------------------------------------------------------------
(* settleTrip, called by the completion of a trip; nothing prevents two    *)
(* completions of one trip.                                                *)
Settle(c, t, q) ==
  /\ call[c] = Idle
  /\ q.fare > 0
  /\ q.share >= 0 /\ q.share <= q.fare
  /\ call' = [call EXCEPT ![c] = [ step |-> "lock_passenger", trip |-> t, user |-> Nobody,
                                   fare |-> q.fare, share |-> q.share, paid |-> 0, earned |-> 0 ]]
  /\ UNCHANGED <<balance, history>>

\* Mistake: a plain SELECT where the code takes FOR UPDATE.
ReadPassenger(c) ==
  /\ At(c, "lock_passenger")
  /\ call' = [call EXCEPT ![c].step = "lock_driver",
                          ![c].paid = balance[Passenger[call[c].trip]]]
  /\ UNCHANGED <<balance, history>>

LockPassenger(c) ==
  LET p == Passenger[call[c].trip] IN
    /\ At(c, "lock_passenger")
    /\ Free(p)
    /\ call' = [call EXCEPT ![c].step = "lock_driver", ![c].paid = balance[p]]
    /\ UNCHANGED <<balance, history>>

\* Mistake: the same for the driver.
ReadDriver(c) ==
  /\ At(c, "lock_driver")
  /\ call' = [call EXCEPT ![c].step = "settle_commit",
                          ![c].earned = balance[Driver[call[c].trip]]]
  /\ UNCHANGED <<balance, history>>

LockDriver(c) ==
  LET d == Driver[call[c].trip] IN
    /\ At(c, "lock_driver")
    /\ Free(d)
    /\ call' = [call EXCEPT ![c].step = "settle_commit", ![c].earned = balance[d]]
    /\ UNCHANGED <<balance, history>>

\* actualFare and driverCredit.
Debit(c) == Lesser(call[c].fare, call[c].paid)

Credit(c) == Lesser(call[c].share, Debit(c))

\* Mistake: no unique index on (trip_id, type, user_id).
Unguarded(c) == call[c].earned + Credit(c) <= Int4Max

\* The unique index and the range of the column let the writes through.
Accepted(c) ==
  /\ ~ PaidTo(Passenger[call[c].trip], call[c].trip)
  /\ call[c].earned + Credit(c) <= Int4Max

SettleCommit(c) ==
  LET t == call[c].trip
      p == Passenger[t]
      d == Driver[t]
      row == [u \in {p, d} |-> IF u = p THEN [amount |-> - Debit(c), ref |-> t]
                                        ELSE [amount |-> Credit(c), ref |-> t]]
      credited == IF Credit(c) > 0 THEN {p, d} ELSE {p}
  IN /\ At(c, "settle_commit")
     /\ Accepted(c)
     /\ balance' = [balance EXCEPT ![p] = call[c].paid - Debit(c),
                                   ![d] = IF d \in credited THEN call[c].earned + Credit(c) ELSE @]
     /\ history' = [u \in Users |-> IF u \in credited THEN Append(history[u], row[u]) ELSE history[u]]
     /\ Finish(c)

\* Mistake: a refused write leaves the transaction open.
RefusedStays(c) == FALSE /\ UNCHANGED vars

SettleRefused(c) ==
  /\ At(c, "settle_commit")
  /\ ~ Accepted(c)
  /\ Finish(c)
  /\ UNCHANGED <<balance, history>>

\* Postgres aborts one transaction of a deadlock.
DeadlockVictim(c) ==
  /\ Deadlocked(c)
  /\ Finish(c)
  /\ UNCHANGED <<balance, history>>

-----------------------------------------------------------------------------
(* AdminWalletsService.adjust; an approval of WalletRequests locks and     *)
(* writes a wallet in the same way.                                        *)
AdjustLock(c, u, delta) ==
  /\ call[c] = Idle
  /\ Free(u)
  /\ Len(history[u]) < MaxHistory
  /\ balance[u] + delta \in 0 .. Int4Max
  /\ call' = [call EXCEPT ![c] = [ step |-> "adjust_commit", trip |-> NoTrip, user |-> u,
                                   fare |-> delta, share |-> 0, paid |-> balance[u], earned |-> 0 ]]
  /\ UNCHANGED <<balance, history>>

AdjustCommit(c) ==
  LET u == call[c].user IN
    /\ At(c, "adjust_commit")
    /\ balance' = [balance EXCEPT ![u] = call[c].paid + call[c].fare]
    /\ history' = [history EXCEPT ![u] = Append(@, [amount |-> call[c].fare, ref |-> NoTrip])]
    /\ Finish(c)

(* A statement fails, or the server dies: Postgres rolls back and unlocks. *)
Fail(c) ==
  /\ ~ At(c, "idle")
  /\ Finish(c)
  /\ UNCHANGED <<balance, history>>

Restart ==
  /\ \E c \in Calls : ~ At(c, "idle")
  /\ call' = [c \in Calls |-> Idle]
  /\ UNCHANGED <<balance, history>>

-----------------------------------------------------------------------------
Init ==
  /\ balance = Opening
  /\ history = [u \in Users |-> <<>>]
  /\ call = [c \in Calls |-> Idle]

Arrive(c) ==
  \/ \E t \in Trips, q \in Quotes : Settle(c, t, q)
  \/ \E u \in Users, delta \in Deltas : AdjustLock(c, u, delta)

Continue(c) ==
  \/ LockPassenger(c) \/ LockDriver(c)
  \/ SettleCommit(c) \/ SettleRefused(c)
  \/ DeadlockVictim(c)
  \/ AdjustCommit(c)

Next ==
  \/ \E c \in Calls : Arrive(c) \/ Continue(c) \/ Fail(c)
  \/ Restart

Spec == Init /\ [][Next]_vars

\* Statements are answered, a lock is granted in the order of the waits, and
\* deadlock_timeout passes.
Fairness == \A c \in Calls : SF_vars(Continue(c))
FairSpec == Spec /\ Fairness

-----------------------------------------------------------------------------
TypeOK ==
  /\ balance \in [Users -> 0 .. Int4Max]
  /\ history \in [Users -> Seq(HistoryRow)]
  /\ call \in [Calls -> CallRecord]

\* What a handler read under its locks is still in the tables when it writes,
\* and no wallet has two holders: no update is lost between the two SELECT ...
\* FOR UPDATE of settleTrip and its saves.
ReadsStayFresh ==
  \A c \in Calls :
    /\ At(c, "lock_driver") \/ At(c, "settle_commit") =>
         call[c].paid = balance[Passenger[call[c].trip]]
    /\ At(c, "settle_commit") => call[c].earned = balance[Driver[call[c].trip]]
    /\ At(c, "adjust_commit") => call[c].paid = balance[call[c].user]
    /\ \A e \in Calls : c # e => Locks(c) \cap Locks(e) = {}

RowsOf(u, t) == { i \in DOMAIN history[u] : history[u][i].ref = t }

\* However settlements of the same and of crossed trips overlap, a trip takes
\* one debit from its passenger, gives its driver no more than that debit, and
\* nobody else is touched.
TripMovesMoneyOnce ==
  \A t \in Trips, u \in Users : \A i \in RowsOf(u, t) :
    /\ RowsOf(u, t) = {i}
    /\ u \in {Passenger[t], Driver[t]}
    /\ u = Driver[t] => \E j \in RowsOf(Passenger[t], t) :
                          history[u][i].amount <= - history[Passenger[t]][j].amount

\* wallets and wallet_transactions implement the abstract ledger.
L == INSTANCE Ledger WITH References <- Trips, NoReference <- NoTrip
RefinesLedger == L!Spec

\* Every settlement ends, deadlocks included (settleTrip takes two row locks
\* in an order that depends on the trip).
EveryHandlerEnds == \A c \in Calls : ~ At(c, "idle") ~> At(c, "idle")
=============================================================================
