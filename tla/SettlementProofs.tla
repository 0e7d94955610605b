-------------------------- MODULE SettlementProofs --------------------------
(***************************************************************************)
(* Proofs about Settlement, for any users, trips, handlers, quotes and     *)
(* corrections.                                                            *)
(***************************************************************************)
EXTENDS Settlement, SequenceTheorems, TLAPS

Settling == {"lock_passenger", "lock_driver", "settle_commit"}

\* What a handler holds between two of its statements.
CallsOK ==
  \A c \in Calls :
    /\ call[c].step \in Settling =>
         /\ call[c].trip \in Trips
         /\ call[c].fare > 0 /\ call[c].share >= 0
    /\ At(c, "adjust_commit") =>
         /\ call[c].user \in Users
         /\ call[c].paid + call[c].fare \in 0 .. Int4Max

IInv == TypeOK /\ CallsOK /\ ReadsStayFresh /\ TripMovesMoneyOnce

LEMMA InitIInv == Init => IInv
  <1> SUFFICES ASSUME Init PROVE IInv
    OBVIOUS
  <1> USE SettlementAssumption
  <1>1. TypeOK
    BY DEF Init, TypeOK, CallRecord, Steps, Idle
  <1>2. CallsOK
    BY DEF Init, CallsOK, Settling, At, Idle
  <1>3. ReadsStayFresh
    BY DEF Init, ReadsStayFresh, Locks, At, Idle
  <1>4. TripMovesMoneyOnce
    BY DEF Init, TripMovesMoneyOnce, RowsOf
  <1> QED
    BY <1>1, <1>2, <1>3, <1>4 DEF IInv

-----------------------------------------------------------------------------
\* A step of c leaves the locks of the others alone.
LEMMA LocksOfOthers ==
  ASSUME NEW c \in Calls, \A e \in Calls \ {c} : call'[e] = call[e]
  PROVE  \A e \in Calls \ {c} : Locks(e)' = Locks(e)
  BY DEF Locks, At

LEMMA FinishEffect ==
  ASSUME TypeOK, NEW c \in Calls, Finish(c)
  PROVE  /\ call' \in [Calls -> CallRecord]
         /\ call'[c] = Idle
         /\ Locks(c)' = {}
         /\ \A e \in Calls \ {c} : call'[e] = call[e]
  <1>1. Idle \in CallRecord
    BY DEF Idle, CallRecord, Steps
  <1>2. /\ call' \in [Calls -> CallRecord]
        /\ call'[c] = Idle
        /\ \A e \in Calls \ {c} : call'[e] = call[e]
    BY <1>1 DEF Finish, TypeOK
  <1>3. Locks(c)' = {}
    BY <1>2 DEF Locks, At, Idle
  <1> QED
    BY <1>2, <1>3

\* A handler that stops and wrote nothing keeps the invariant.
LEMMA FinishIInv ==
  ASSUME IInv, NEW c \in Calls, Finish(c), UNCHANGED <<balance, history>>
  PROVE  IInv'
  <1> USE DEF IInv
  <1>1. /\ call' \in [Calls -> CallRecord]
        /\ call'[c] = Idle
        /\ Locks(c)' = {}
        /\ \A e \in Calls \ {c} : call'[e] = call[e]
    BY FinishEffect
  <1>2. \A e \in Calls \ {c} : Locks(e)' = Locks(e)
    BY <1>1, LocksOfOthers
  <1>3. TypeOK'
    BY <1>1 DEF TypeOK
  <1>4. CallsOK'
    BY <1>1 DEF CallsOK, At, Idle, Settling
  <1>5. ReadsStayFresh'
    BY <1>1, <1>2 DEF ReadsStayFresh, At, Idle
  <1>6. TripMovesMoneyOnce'
    BY DEF TripMovesMoneyOnce, RowsOf
  <1> QED
    BY <1>3, <1>4, <1>5, <1>6

\* A handler that locks one more free wallet and wrote nothing keeps what the
\* others read.
LEMMA LockKeepsOthers ==
  ASSUME ReadsStayFresh, NEW c \in Calls, NEW u \in Users, Free(u),
         \A e \in Calls \ {c} : call'[e] = call[e],
         Locks(c)' = Locks(c) \cup {u},
         UNCHANGED balance
  PROVE  /\ \A e \in Calls \ {c} :
              /\ (At(e, "lock_driver") \/ At(e, "settle_commit"))' =>
                   call'[e].paid = balance'[Passenger[call'[e].trip]]
              /\ At(e, "settle_commit")' => call'[e].earned = balance'[Driver[call'[e].trip]]
              /\ At(e, "adjust_commit")' => call'[e].paid = balance'[call'[e].user]
         /\ \A e, f \in Calls : e # f => Locks(e)' \cap Locks(f)' = {}
  <1>1. \A e \in Calls \ {c} : Locks(e)' = Locks(e)
    BY LocksOfOthers
  <1>2. \A e \in Calls : u \notin Locks(e)
    BY DEF Free
  <1>3. \A e, f \in Calls : e # f => Locks(e) \cap Locks(f) = {}
    BY DEF ReadsStayFresh
  <1>4. \A e, f \in Calls : e # f => Locks(e)' \cap Locks(f)' = {}
    BY <1>1, <1>2, <1>3
  <1> QED
    BY <1>4 DEF ReadsStayFresh, At

-----------------------------------------------------------------------------
\* Rows of a history that grew by one.
LEMMA OneMoreRow ==
  ASSUME TypeOK, NEW u \in Users, NEW row \in HistoryRow,
         history'[u] = Append(history[u], row)
  PROVE  /\ history'[u] \in Seq(HistoryRow)
         /\ history'[u] # <<>>
         /\ Len(history'[u]) = Len(history[u]) + 1
         /\ Len(history[u]) \in Nat
         /\ DOMAIN history'[u] = DOMAIN history[u] \cup {Len(history[u]) + 1}
         /\ Len(history[u]) + 1 \notin DOMAIN history[u]
         /\ \A i \in DOMAIN history[u] : history'[u][i] = history[u][i]
         /\ history'[u][Len(history[u]) + 1] = row
  <1>1. history[u] \in Seq(HistoryRow)
    BY DEF TypeOK
  <1>2. /\ Append(history[u], row) \in Seq(HistoryRow)
        /\ Len(Append(history[u], row)) = Len(history[u]) + 1
        /\ \A i \in 1 .. Len(history[u]) : Append(history[u], row)[i] = history[u][i]
        /\ Append(history[u], row)[Len(history[u]) + 1] = row
    BY <1>1, AppendProperties
  <1>3. /\ Len(history[u]) \in Nat
        /\ DOMAIN history[u] = 1 .. Len(history[u])
        /\ DOMAIN Append(history[u], row) = 1 .. (Len(history[u]) + 1)
    BY <1>1, <1>2
  <1>4. 1 .. (Len(history[u]) + 1) = (1 .. Len(history[u])) \cup {Len(history[u]) + 1}
    BY <1>3
  <1>5. Append(history[u], row) # <<>>
    BY <1>1
  <1> QED
    BY <1>2, <1>3, <1>4, <1>5

\* The rows of a trip after its row was appended, or that of something else.
LEMMA RowsAfter ==
  ASSUME TypeOK, NEW u \in Users, NEW a \in Int, NEW ref \in Trips \cup {NoTrip},
         history'[u] = Append(history[u], [amount |-> a, ref |-> ref])
  PROVE  /\ \A t \in Trips : t # ref => RowsOf(u, t)' = RowsOf(u, t)
         /\ RowsOf(u, ref)' = RowsOf(u, ref) \cup {Len(history[u]) + 1}
         /\ history'[u][Len(history[u]) + 1].amount = a
         /\ \A i \in DOMAIN history[u] : history'[u][i] = history[u][i]
  <1> DEFINE row == [amount |-> a, ref |-> ref]
  <1>1. row \in HistoryRow
    BY DEF HistoryRow
  <1>2. /\ DOMAIN history'[u] = DOMAIN history[u] \cup {Len(history[u]) + 1}
        /\ Len(history[u]) + 1 \notin DOMAIN history[u]
        /\ \A i \in DOMAIN history[u] : history'[u][i] = history[u][i]
        /\ history'[u][Len(history[u]) + 1] = row
    BY <1>1, OneMoreRow
  <1>3. row.ref = ref /\ row.amount = a
    OBVIOUS
  <1> HIDE DEF row
  <1> QED
    BY <1>2, <1>3 DEF RowsOf

-----------------------------------------------------------------------------
\* What the commit of a settlement does to the tables.
Committed(p, d, t, a, b) ==
  /\ balance[p] - a \in 0 .. Int4Max
  /\ balance' \in [Users -> 0 .. Int4Max]
  /\ balance'[p] = balance[p] - a
  /\ history'[p] = Append(history[p], [amount |-> - a, ref |-> t])
  /\ \/ /\ b = 0
        /\ balance'[d] = balance[d] /\ history'[d] = history[d]
     \/ /\ balance'[d] = balance[d] + b
        /\ history'[d] = Append(history[d], [amount |-> b, ref |-> t])
  /\ \A u \in Users \ {p, d} : balance'[u] = balance[u] /\ history'[u] = history[u]
  /\ DOMAIN history' = Users

LEMMA CommitSums ==
  ASSUME IInv, NEW c \in Calls, SettleCommit(c),
         NEW t, NEW p, NEW d, NEW a, NEW b,
         t = call[c].trip, p = Passenger[t], d = Driver[t], a = Debit(c), b = Credit(c)
  PROVE  /\ t \in Trips /\ p \in Users /\ d \in Users /\ p # d
         /\ a \in Nat /\ b \in Nat /\ b <= a
         /\ Locks(c) = {p, d}
         /\ ~ PaidTo(p, t)
         /\ Committed(p, d, t, a, b)
  <1> USE SettlementAssumption DEF IInv
  <1>1. At(c, "settle_commit") /\ Accepted(c)
    BY DEF SettleCommit
  <1>2. /\ t \in Trips
        /\ call[c].fare \in Int /\ call[c].fare > 0
        /\ call[c].share \in Int /\ call[c].share >= 0
    BY <1>1 DEF CallsOK, Settling, At, TypeOK, CallRecord
  <1>3. p \in Users /\ d \in Users /\ p # d
    BY <1>2
  <1>4. /\ call[c].paid = balance[p] /\ call[c].earned = balance[d]
        /\ Locks(c) = {p, d}
    BY <1>1 DEF ReadsStayFresh, Locks, At
  <1>5. balance[p] \in 0 .. Int4Max /\ balance[d] \in 0 .. Int4Max
    BY <1>3 DEF TypeOK
  <1>6. Debit(c) \in 0 .. balance[p]
    BY <1>2, <1>4, <1>5 DEF Debit, Lesser
  <1>7. Credit(c) \in 0 .. Debit(c)
    BY <1>2, <1>6, <1>5 DEF Credit, Lesser
  <1>8. /\ ~ PaidTo(p, t)
        /\ balance[d] + Credit(c) \in 0 .. Int4Max
    BY <1>1, <1>4, <1>5, <1>6, <1>7 DEF Accepted
  <1>9. balance[p] - a \in 0 .. Int4Max
    BY <1>5, <1>6
  <1>10. balance' = [balance EXCEPT ![p] = balance[p] - a,
                                    ![d] = IF b > 0 THEN balance[d] + b ELSE @]
    BY <1>3, <1>4 DEF SettleCommit
  <1>11. history' = [u \in Users |->
           IF u = p THEN Append(history[u], [amount |-> - a, ref |-> t])
           ELSE IF u = d /\ b > 0
           THEN Append(history[u], [amount |-> b, ref |-> t]) ELSE history[u]]
    BY <1>3 DEF SettleCommit
  <1>12. b = 0 \/ b > 0
    BY <1>7, <1>6, <1>5
  <1>13. balance' \in [Users -> 0 .. Int4Max]
    BY <1>3, <1>8, <1>9, <1>10 DEF TypeOK
  <1>14. balance'[p] = balance[p] - a
    BY <1>3, <1>10 DEF TypeOK
  <1>15. \/ b = 0 /\ balance'[d] = balance[d] /\ history'[d] = history[d]
         \/ /\ balance'[d] = balance[d] + b
            /\ history'[d] = Append(history[d], [amount |-> b, ref |-> t])
    <2>1. CASE b = 0
      BY <2>1, <1>3, <1>10, <1>11 DEF TypeOK
    <2>2. CASE b > 0
      BY <2>2, <1>3, <1>10, <1>11 DEF TypeOK
    <2> QED
      BY <1>12, <2>1, <2>2
  <1>16. \A u \in Users \ {p, d} : balance'[u] = balance[u] /\ history'[u] = history[u]
    BY <1>3, <1>10, <1>11 DEF TypeOK
  <1>17. Committed(p, d, t, a, b)
    BY <1>3, <1>9, <1>11, <1>13, <1>14, <1>15, <1>16 DEF Committed
  <1> QED
    BY <1>2, <1>3, <1>4, <1>5, <1>6, <1>7, <1>8, <1>17

LEMMA CommitIInv ==
  ASSUME IInv, NEW c \in Calls, SettleCommit(c)
  PROVE  IInv'
  <1> SUFFICES ASSUME NEW t, NEW p, NEW d, NEW a, NEW b,
                      t = call[c].trip, p = Passenger[t], d = Driver[t],
                      a = Debit(c), b = Credit(c)
               PROVE  IInv'
    OBVIOUS
  <1>1. /\ t \in Trips /\ p \in Users /\ d \in Users /\ p # d
        /\ a \in Nat /\ b \in Nat /\ b <= a
        /\ Locks(c) = {p, d}
        /\ ~ PaidTo(p, t)
        /\ Committed(p, d, t, a, b)
    BY CommitSums
  <1>2. /\ call' \in [Calls -> CallRecord]
        /\ call'[c] = Idle
        /\ Locks(c)' = {}
        /\ \A e \in Calls \ {c} : call'[e] = call[e]
    BY FinishEffect DEF SettleCommit, IInv
  <1>3. \A e \in Calls \ {c} : Locks(e)' = Locks(e)
    BY <1>2, LocksOfOthers
  <1>4. TypeOK'
    <2>1. [amount |-> - a, ref |-> t] \in HistoryRow /\ [amount |-> b, ref |-> t] \in HistoryRow
      BY <1>1 DEF HistoryRow
    <2>0. history[p] \in Seq(HistoryRow) /\ history[d] \in Seq(HistoryRow)
      BY <1>1 DEF IInv, TypeOK
    <2>2. history'[p] \in Seq(HistoryRow)
      <3>1. history'[p] = Append(history[p], [amount |-> - a, ref |-> t])
        BY <1>1 DEF Committed
      <3> QED
        BY <2>0, <2>1, <3>1, AppendProperties
    <2>4. history'[d] \in Seq(HistoryRow)
      <3>1. CASE history'[d] = history[d]
        BY <2>0, <3>1
      <3>2. CASE history'[d] = Append(history[d], [amount |-> b, ref |-> t])
        BY <2>0, <2>1, <3>2, AppendProperties
      <3> QED
        BY <1>1, <3>1, <3>2 DEF Committed
    <2>5. \A u \in Users : history'[u] \in Seq(HistoryRow)
      BY <1>1, <2>2, <2>4 DEF Committed, IInv, TypeOK
    <2>6. history' \in [Users -> Seq(HistoryRow)]
      <3>1. history' = [u \in Users |-> history'[u]]
        BY DEF SettleCommit
      <3> QED
        BY <3>1, <2>5
    <2> QED
      BY <1>1, <1>2, <2>6 DEF Committed, TypeOK
  <1>5. CallsOK'
    BY <1>2 DEF IInv, CallsOK, At, Idle, Settling
  <1>6. ReadsStayFresh'
    <2>1. \A e \in Calls \ {c} : \A u \in Locks(e) : balance'[u] = balance[u]
      <3> SUFFICES ASSUME NEW e \in Calls \ {c}, NEW u \in Locks(e)
                   PROVE  balance'[u] = balance[u]
        OBVIOUS
      <3>1. u \notin {p, d}
        BY <1>1 DEF IInv, ReadsStayFresh
      <3>2. u \in Users
        BY SettlementAssumption DEF IInv, CallsOK, Settling, Locks, At
      <3> QED
        BY <1>1, <3>1, <3>2 DEF Committed
    <2>2. \A e, f \in Calls : e # f => Locks(e)' \cap Locks(f)' = {}
      BY <1>2, <1>3 DEF IInv, ReadsStayFresh
    <2>3. ASSUME NEW e \in Calls \ {c}
          PROVE  /\ (At(e, "lock_driver") \/ At(e, "settle_commit"))' =>
                      call'[e].paid = balance'[Passenger[call'[e].trip]]
                 /\ At(e, "settle_commit")' => call'[e].earned = balance'[Driver[call'[e].trip]]
                 /\ At(e, "adjust_commit")' => call'[e].paid = balance'[call'[e].user]
      BY <1>2, <2>1, <2>3 DEF IInv, ReadsStayFresh, Locks, At
    <2> QED
      BY <1>2, <2>2, <2>3 DEF ReadsStayFresh, At, Idle
  <1>7. TripMovesMoneyOnce'
    <2>1. RowsOf(p, t) = {}
      BY <1>1 DEF PaidTo, RowsOf
    <2>2. RowsOf(d, t) = {}
      BY <1>1, <2>1 DEF IInv, TripMovesMoneyOnce
    <2>3. /\ \A s \in Trips : s # t => RowsOf(p, s)' = RowsOf(p, s)
          /\ RowsOf(p, t)' = {Len(history[p]) + 1}
          /\ history'[p][Len(history[p]) + 1].amount = - a
          /\ \A i \in DOMAIN history[p] : history'[p][i] = history[p][i]
      <3>1. history'[p] = Append(history[p], [amount |-> - a, ref |-> t])
        BY <1>1 DEF Committed
      <3>2. TypeOK /\ p \in Users /\ - a \in Int /\ t \in Trips \cup {NoTrip}
        BY <1>1 DEF IInv
      <3>3. /\ \A s \in Trips : s # t => RowsOf(p, s)' = RowsOf(p, s)
            /\ RowsOf(p, t)' = RowsOf(p, t) \cup {Len(history[p]) + 1}
            /\ history'[p][Len(history[p]) + 1].amount = - a
            /\ \A i \in DOMAIN history[p] : history'[p][i] = history[p][i]
        BY ONLY <3>1, <3>2, RowsAfter
      <3> QED
        BY <2>1, <3>3
    <2>4. /\ \A s \in Trips : s # t => RowsOf(d, s)' = RowsOf(d, s)
          /\ \A i \in DOMAIN history[d] : history'[d][i] = history[d][i]
          /\ \/ RowsOf(d, t)' = {}
             \/ /\ RowsOf(d, t)' = {Len(history[d]) + 1}
                /\ history'[d][Len(history[d]) + 1].amount = b
      <3>1. CASE history'[d] = history[d]
        BY <2>2, <3>1 DEF RowsOf
      <3>2. CASE history'[d] = Append(history[d], [amount |-> b, ref |-> t])
        <4>1. TypeOK /\ d \in Users /\ b \in Int /\ t \in Trips \cup {NoTrip}
          BY <1>1 DEF IInv
        <4>2. /\ \A s \in Trips : s # t => RowsOf(d, s)' = RowsOf(d, s)
              /\ RowsOf(d, t)' = RowsOf(d, t) \cup {Len(history[d]) + 1}
              /\ history'[d][Len(history[d]) + 1].amount = b
              /\ \A i \in DOMAIN history[d] : history'[d][i] = history[d][i]
          BY ONLY <3>2, <4>1, RowsAfter
        <4> QED
          BY <2>2, <4>2
      <3> QED
        BY <1>1, <3>1, <3>2 DEF Committed
    <2>5. \A u \in Users \ {p, d}, s \in Trips :
             RowsOf(u, s)' = RowsOf(u, s) /\ history'[u] = history[u]
      BY <1>1 DEF Committed, RowsOf
    <2> SUFFICES ASSUME NEW s \in Trips, NEW u \in Users, NEW i \in RowsOf(u, s)'
                 PROVE  /\ RowsOf(u, s)' = {i}
                        /\ u \in {Passenger[s], Driver[s]}
                        /\ u = Driver[s] => \E j \in RowsOf(Passenger[s], s)' :
                              history'[u][i].amount <= - history'[Passenger[s]][j].amount
      BY DEF TripMovesMoneyOnce
    <2>6. CASE s = t
      <3>1. CASE u = p
        BY <1>1, <2>3, <2>6, <3>1
      <3>2. CASE u = d
        <4>1. /\ RowsOf(d, t)' = {i}
              /\ history'[d][i].amount = b
          BY <2>4, <2>6, <3>2
        <4>2. history'[d][i].amount <= - history'[p][Len(history[p]) + 1].amount
          BY <1>1, <2>3, <4>1
        <4>3. Len(history[p]) + 1 \in RowsOf(p, t)'
          BY <2>3
        <4> QED
          BY <2>6, <3>2, <4>1, <4>2, <4>3
      <3>3. CASE u \notin {p, d}
        BY <1>1, <2>5, <2>6, <3>3 DEF IInv, TripMovesMoneyOnce
      <3> QED
        BY <3>1, <3>2, <3>3
    <2>7. CASE s # t
      <3>1. \A v \in Users : /\ RowsOf(v, s)' = RowsOf(v, s)
                             /\ \A j \in RowsOf(v, s) : history'[v][j] = history[v][j]
        <4> SUFFICES ASSUME NEW v \in Users
                     PROVE  /\ RowsOf(v, s)' = RowsOf(v, s)
                            /\ \A j \in RowsOf(v, s) : history'[v][j] = history[v][j]
          OBVIOUS
        <4>1. RowsOf(v, s) \subseteq DOMAIN history[v]
          BY DEF RowsOf
        <4>2. CASE v = p
          BY ONLY <2>3, <2>7, <4>1, <4>2, s \in Trips
        <4>3. CASE v = d
          BY ONLY <2>4, <2>7, <4>1, <4>3, s \in Trips
        <4>4. CASE v \in Users \ {p, d}
          BY ONLY <2>5, <4>4, s \in Trips
        <4> QED
          BY <4>2, <4>3, <4>4
      <3>2. Passenger[s] \in Users
        BY SettlementAssumption
      <3>3. i \in RowsOf(u, s)
        BY <3>1
      <3>4. /\ RowsOf(u, s) = {i}
            /\ u \in {Passenger[s], Driver[s]}
            /\ u = Driver[s] => \E j \in RowsOf(Passenger[s], s) :
                  history[u][i].amount <= - history[Passenger[s]][j].amount
        BY <3>3 DEF IInv, TripMovesMoneyOnce
      <3>5. history'[u][i] = history[u][i]
        BY <3>1, <3>3
      <3>6. \A j \in RowsOf(Passenger[s], s) : history'[Passenger[s]][j] = history[Passenger[s]][j]
        BY <3>1, <3>2
      <3>7. RowsOf(u, s)' = RowsOf(u, s) /\ RowsOf(Passenger[s], s)' = RowsOf(Passenger[s], s)
        BY <3>1, <3>2
      <3>8. u = Driver[s] => \E j \in RowsOf(Passenger[s], s)' :
              history'[u][i].amount <= - history'[Passenger[s]][j].amount
        BY <3>4, <3>5, <3>6, <3>7
      <3> QED
        BY <3>4, <3>7, <3>8
    <2> QED
      BY <2>6, <2>7
  <1> QED
    BY <1>4, <1>5, <1>6, <1>7 DEF IInv

-----------------------------------------------------------------------------
LEMMA AdjustIInv ==
  ASSUME IInv, NEW c \in Calls, AdjustCommit(c)
  PROVE  IInv'
  <1> SUFFICES ASSUME NEW u, NEW a, u = call[c].user, a = call[c].fare
               PROVE  IInv'
    OBVIOUS
  <1>1. /\ u \in Users /\ a \in Int
        /\ balance[u] + a \in 0 .. Int4Max
        /\ Locks(c) = {u}
        /\ call[c].paid = balance[u]
    BY DEF AdjustCommit, IInv, TypeOK, CallRecord, CallsOK, ReadsStayFresh, Locks, At
  <1>2. /\ balance' = [balance EXCEPT ![u] = balance[u] + a]
        /\ history' = [history EXCEPT ![u] = Append(history[u], [amount |-> a, ref |-> NoTrip])]
    BY <1>1 DEF AdjustCommit
  <1>3. /\ call' \in [Calls -> CallRecord]
        /\ call'[c] = Idle
        /\ Locks(c)' = {}
        /\ \A e \in Calls \ {c} : call'[e] = call[e]
    BY FinishEffect DEF AdjustCommit, IInv
  <1>4. \A e \in Calls \ {c} : Locks(e)' = Locks(e)
    BY <1>3, LocksOfOthers
  <1>5. history'[u] = Append(history[u], [amount |-> a, ref |-> NoTrip])
    BY <1>1, <1>2 DEF IInv, TypeOK
  <1>6. TypeOK'
    <2>1. [amount |-> a, ref |-> NoTrip] \in HistoryRow
      BY <1>1 DEF HistoryRow
    <2>2. history[u] \in Seq(HistoryRow)
      BY <1>1 DEF IInv, TypeOK
    <2>3. Append(history[u], [amount |-> a, ref |-> NoTrip]) \in Seq(HistoryRow)
      BY <2>1, <2>2, AppendProperties
    <2> QED
      BY <1>1, <1>2, <1>3, <2>3 DEF IInv, TypeOK
  <1>7. CallsOK'
    BY <1>3 DEF IInv, CallsOK, At, Idle, Settling
  <1>8. ReadsStayFresh'
    <2>1. \A e \in Calls \ {c} : \A v \in Locks(e) : balance'[v] = balance[v]
      <3> SUFFICES ASSUME NEW e \in Calls \ {c}, NEW v \in Locks(e)
                   PROVE  balance'[v] = balance[v]
        OBVIOUS
      <3>1. v # u
        BY <1>1 DEF IInv, ReadsStayFresh
      <3>2. v \in Users
        BY SettlementAssumption DEF IInv, CallsOK, Settling, Locks, At
      <3> QED
        BY <1>2, <3>1, <3>2 DEF IInv, TypeOK
    <2>2. \A e, f \in Calls : e # f => Locks(e)' \cap Locks(f)' = {}
      BY <1>3, <1>4 DEF IInv, ReadsStayFresh
    <2>3. ASSUME NEW e \in Calls \ {c}
          PROVE  /\ (At(e, "lock_driver") \/ At(e, "settle_commit"))' =>
                      call'[e].paid = balance'[Passenger[call'[e].trip]]
                 /\ At(e, "settle_commit")' => call'[e].earned = balance'[Driver[call'[e].trip]]
                 /\ At(e, "adjust_commit")' => call'[e].paid = balance'[call'[e].user]
      BY <1>3, <2>1 DEF IInv, ReadsStayFresh, Locks, At
    <2> QED
      BY <1>3, <2>2, <2>3 DEF ReadsStayFresh, At, Idle
  <1>9. TripMovesMoneyOnce'
    <2>1. TypeOK /\ u \in Users /\ a \in Int /\ NoTrip \in Trips \cup {NoTrip}
      BY <1>1 DEF IInv
    <2>2. /\ \A s \in Trips : s # NoTrip => RowsOf(u, s)' = RowsOf(u, s)
          /\ \A i \in DOMAIN history[u] : history'[u][i] = history[u][i]
      BY ONLY <1>5, <2>1, RowsAfter
    <2>3. \A v \in Users \ {u} : history'[v] = history[v]
      BY <1>1, <1>2 DEF IInv, TypeOK
    <2>4. \A s \in Trips : s # NoTrip
      BY SettlementAssumption
    <2>5. \A s \in Trips, v \in Users :
            /\ RowsOf(v, s)' = RowsOf(v, s)
            /\ \A i \in RowsOf(v, s) : history'[v][i] = history[v][i]
      BY <2>2, <2>3, <2>4 DEF RowsOf
    <2>6. \A s \in Trips : Passenger[s] \in Users
      BY SettlementAssumption
    <2> QED
      BY <2>5, <2>6 DEF IInv, TripMovesMoneyOnce
  <1> QED
    BY <1>6, <1>7, <1>8, <1>9 DEF IInv

LEMMA StepIInv == IInv /\ [Next]_vars => IInv'
  <1> SUFFICES ASSUME IInv, [Next]_vars PROVE IInv'
    OBVIOUS
  <1> USE SettlementAssumption
  <1>1. ASSUME NEW c \in Calls, NEW t \in Trips, NEW q \in Quotes, Settle(c, t, q)
        PROVE  IInv'
    <2> DEFINE new == [step |-> "lock_passenger", trip |-> t, user |-> Nobody,
                       fare |-> q.fare, share |-> q.share, paid |-> 0, earned |-> 0]
    <2>1. q.fare \in Int /\ q.share \in Int
      OBVIOUS
    <2>2. /\ new \in CallRecord
          /\ new.step = "lock_passenger" /\ new.trip = t
          /\ new.fare = q.fare /\ new.share = q.share
      BY <2>1 DEF CallRecord, Steps
    <2>3. /\ call' \in [Calls -> CallRecord]
          /\ call'[c] = new
          /\ \A e \in Calls \ {c} : call'[e] = call[e]
          /\ call[c] = Idle
          /\ UNCHANGED <<balance, history>>
      BY <1>1, <2>2 DEF Settle, IInv, TypeOK
    <2> HIDE DEF new
    <2>4. \A e \in Calls \ {c} : Locks(e)' = Locks(e)
      BY <2>3, LocksOfOthers
    <2>5. Locks(c)' = {}
      BY <2>2, <2>3 DEF Locks, At
    <2>6. TypeOK'
      BY <2>3 DEF IInv, TypeOK
    <2>7. CallsOK'
      BY <1>1, <2>2, <2>3 DEF IInv, CallsOK, At, Settling, Settle
    <2>8. ReadsStayFresh'
      BY <2>2, <2>3, <2>4, <2>5 DEF IInv, ReadsStayFresh, At
    <2>9. TripMovesMoneyOnce'
      BY <2>3 DEF IInv, TripMovesMoneyOnce, RowsOf
    <2> QED
      BY <2>6, <2>7, <2>8, <2>9 DEF IInv
  <1>2. ASSUME NEW c \in Calls, NEW u \in Users, NEW delta \in Deltas, AdjustLock(c, u, delta)
        PROVE  IInv'
    <2> DEFINE new == [step |-> "adjust_commit", trip |-> NoTrip, user |-> u,
                       fare |-> delta, share |-> 0, paid |-> balance[u], earned |-> 0]
    <2>1. balance[u] \in Int /\ delta \in Int
      BY DEF IInv, TypeOK
    <2>2. /\ new \in CallRecord
          /\ new.step = "adjust_commit" /\ new.user = u
          /\ new.paid = balance[u] /\ new.fare = delta
      BY <2>1 DEF CallRecord, Steps
    <2>3. /\ call' \in [Calls -> CallRecord]
          /\ call'[c] = new
          /\ \A e \in Calls \ {c} : call'[e] = call[e]
          /\ call[c] = Idle
          /\ UNCHANGED <<balance, history>>
      BY <1>2, <2>2 DEF AdjustLock, IInv, TypeOK
    <2> HIDE DEF new
    <2>4. Locks(c) = {} /\ Locks(c)' = {u}
      BY <2>2, <2>3 DEF Locks, At, Idle
    <2>5. /\ \A e \in Calls \ {c} :
              /\ (At(e, "lock_driver") \/ At(e, "settle_commit"))' =>
                   call'[e].paid = balance'[Passenger[call'[e].trip]]
              /\ At(e, "settle_commit")' => call'[e].earned = balance'[Driver[call'[e].trip]]
              /\ At(e, "adjust_commit")' => call'[e].paid = balance'[call'[e].user]
          /\ \A e, f \in Calls : e # f => Locks(e)' \cap Locks(f)' = {}
      BY <1>2, <2>3, <2>4, LockKeepsOthers DEF IInv, AdjustLock
    <2>6. TypeOK'
      BY <2>3 DEF IInv, TypeOK
    <2>7. CallsOK'
      BY <1>2, <2>2, <2>3 DEF IInv, CallsOK, At, Settling, AdjustLock
    <2>8. ReadsStayFresh'
      BY <2>2, <2>3, <2>5 DEF ReadsStayFresh, At
    <2>9. TripMovesMoneyOnce'
      BY <2>3 DEF IInv, TripMovesMoneyOnce, RowsOf
    <2> QED
      BY <2>6, <2>7, <2>8, <2>9 DEF IInv
  <1>3. ASSUME NEW c \in Calls, LockPassenger(c)
        PROVE  IInv'
    <2> SUFFICES ASSUME NEW t, NEW p, t = call[c].trip, p = Passenger[t] PROVE IInv'
      OBVIOUS
    <2>1. /\ call[c] \in CallRecord /\ call[c].step = "lock_passenger"
          /\ t \in Trips /\ p \in Users /\ balance[p] \in Int
          /\ call[c].fare > 0 /\ call[c].share >= 0
      BY <1>3 DEF LockPassenger, At, IInv, CallsOK, Settling, TypeOK
    <2>2. /\ call' = [call EXCEPT ![c].step = "lock_driver", ![c].paid = balance[p]]
          /\ Free(p)
          /\ UNCHANGED <<balance, history>>
      BY <1>3 DEF LockPassenger
    <2>3. /\ call' \in [Calls -> CallRecord]
          /\ call'[c].step = "lock_driver" /\ call'[c].paid = balance[p]
          /\ call'[c].trip = t
          /\ call'[c].fare = call[c].fare /\ call'[c].share = call[c].share
          /\ \A e \in Calls \ {c} : call'[e] = call[e]
      BY <2>1, <2>2 DEF IInv, TypeOK, CallRecord, Steps
    <2>4. Locks(c) = {} /\ Locks(c)' = {p}
      BY <2>1, <2>3 DEF Locks, At
    <2>5. /\ \A e \in Calls \ {c} :
              /\ (At(e, "lock_driver") \/ At(e, "settle_commit"))' =>
                   call'[e].paid = balance'[Passenger[call'[e].trip]]
              /\ At(e, "settle_commit")' => call'[e].earned = balance'[Driver[call'[e].trip]]
              /\ At(e, "adjust_commit")' => call'[e].paid = balance'[call'[e].user]
          /\ \A e, f \in Calls : e # f => Locks(e)' \cap Locks(f)' = {}
      BY <2>1, <2>2, <2>3, <2>4, LockKeepsOthers DEF IInv
    <2>6. TypeOK'
      BY <2>2, <2>3 DEF IInv, TypeOK
    <2>7. CallsOK'
      BY <2>1, <2>2, <2>3 DEF IInv, CallsOK, At, Settling
    <2>8. ReadsStayFresh'
      BY <2>2, <2>3, <2>5 DEF ReadsStayFresh, At
    <2>9. TripMovesMoneyOnce'
      BY <2>2 DEF IInv, TripMovesMoneyOnce, RowsOf
    <2> QED
      BY <2>6, <2>7, <2>8, <2>9 DEF IInv
  <1>4. ASSUME NEW c \in Calls, LockDriver(c)
        PROVE  IInv'
    <2> SUFFICES ASSUME NEW t, NEW p, NEW d, t = call[c].trip, p = Passenger[t], d = Driver[t]
                 PROVE  IInv'
      OBVIOUS
    <2>1. /\ call[c] \in CallRecord /\ call[c].step = "lock_driver"
          /\ t \in Trips /\ d \in Users /\ balance[d] \in Int
          /\ call[c].fare > 0 /\ call[c].share >= 0
          /\ call[c].paid = balance[p]
      BY <1>4 DEF LockDriver, At, IInv, CallsOK, Settling, TypeOK, ReadsStayFresh
    <2>2. /\ call' = [call EXCEPT ![c].step = "settle_commit", ![c].earned = balance[d]]
          /\ Free(d)
          /\ UNCHANGED <<balance, history>>
      BY <1>4 DEF LockDriver
    <2>3. /\ call' \in [Calls -> CallRecord]
          /\ call'[c].step = "settle_commit" /\ call'[c].earned = balance[d]
          /\ call'[c].trip = t /\ call'[c].paid = call[c].paid
          /\ call'[c].fare = call[c].fare /\ call'[c].share = call[c].share
          /\ \A e \in Calls \ {c} : call'[e] = call[e]
      BY <2>1, <2>2 DEF IInv, TypeOK, CallRecord, Steps
    <2>4. Locks(c) = {p} /\ Locks(c)' = {p} \cup {d}
      BY <2>1, <2>3 DEF Locks, At
    <2>5. /\ \A e \in Calls \ {c} :
              /\ (At(e, "lock_driver") \/ At(e, "settle_commit"))' =>
                   call'[e].paid = balance'[Passenger[call'[e].trip]]
              /\ At(e, "settle_commit")' => call'[e].earned = balance'[Driver[call'[e].trip]]
              /\ At(e, "adjust_commit")' => call'[e].paid = balance'[call'[e].user]
          /\ \A e, f \in Calls : e # f => Locks(e)' \cap Locks(f)' = {}
      BY <2>1, <2>2, <2>3, <2>4, LockKeepsOthers DEF IInv
    <2>6. TypeOK'
      BY <2>2, <2>3 DEF IInv, TypeOK
    <2>7. CallsOK'
      BY <2>1, <2>2, <2>3 DEF IInv, CallsOK, At, Settling
    <2>8. ReadsStayFresh'
      BY <2>1, <2>2, <2>3, <2>5 DEF ReadsStayFresh, At
    <2>9. TripMovesMoneyOnce'
      BY <2>2 DEF IInv, TripMovesMoneyOnce, RowsOf
    <2> QED
      BY <2>6, <2>7, <2>8, <2>9 DEF IInv
  <1>5. ASSUME NEW c \in Calls, SettleRefused(c) \/ DeadlockVictim(c) \/ Fail(c)
        PROVE  IInv'
    BY <1>5, FinishIInv DEF SettleRefused, DeadlockVictim, Fail
  <1>6. CASE Restart
    <2>1. Idle \in CallRecord
      BY DEF Idle, CallRecord, Steps
    <2>2. /\ call' \in [Calls -> CallRecord]
          /\ \A c \in Calls : call'[c] = Idle
          /\ UNCHANGED <<balance, history>>
      BY <1>6, <2>1 DEF Restart
    <2>3. TypeOK'
      BY <2>2 DEF IInv, TypeOK
    <2>4. CallsOK'
      BY <2>2 DEF CallsOK, At, Idle, Settling
    <2>5. ReadsStayFresh'
      BY <2>2 DEF ReadsStayFresh, At, Idle, Locks
    <2>6. TripMovesMoneyOnce'
      BY <2>2 DEF IInv, TripMovesMoneyOnce, RowsOf
    <2> QED
      BY <2>3, <2>4, <2>5, <2>6 DEF IInv
  <1>7. CASE UNCHANGED vars
    <2>1. balance' = balance /\ history' = history /\ call' = call
      BY <1>7 DEF vars
    <2>2. TypeOK'
      BY <2>1 DEF IInv, TypeOK
    <2>3. CallsOK'
      BY <2>1 DEF IInv, CallsOK, At
    <2>4. ReadsStayFresh'
      <3>1. \A c \in Calls : Locks(c)' = Locks(c)
        BY <2>1 DEF Locks, At
      <3> QED
        BY <2>1, <3>1 DEF IInv, ReadsStayFresh, At
    <2>5. TripMovesMoneyOnce'
      BY <2>1 DEF IInv, TripMovesMoneyOnce, RowsOf
    <2> QED
      BY <2>2, <2>3, <2>4, <2>5 DEF IInv
  <1> QED
    BY <1>1, <1>2, <1>3, <1>4, <1>5, <1>6, <1>7, CommitIInv, AdjustIInv
       DEF Next, Arrive, Continue

-----------------------------------------------------------------------------
THEOREM Invariance == Spec => []IInv
  BY InitIInv, StepIInv, PTL DEF Spec

\* No balance leaves 0..Int4Max, whatever settlements and corrections overlap
\* (settleTrip, adjust).
THEOREM TypeCorrect == Spec => []TypeOK
  BY Invariance, PTL DEF IInv

\* What settleTrip and adjust read under their locks is what they overwrite.
THEOREM NoLostUpdate == Spec => []ReadsStayFresh
  BY Invariance, PTL DEF IInv

\* A trip takes one debit of its passenger and gives one credit to its driver,
\* of no more than the debit, however often settleTrip is called for it.
THEOREM TripIsSettledOnce == Spec => []TripMovesMoneyOnce
  BY Invariance, PTL DEF IInv

\* settleTrip and adjust implement the abstract ledger.
THEOREM ImplementsLedger == Spec => RefinesLedger
  <1>1. Init => L!Init
    BY DEF Init, L!Init
  <1>2. IInv /\ [Next]_vars => [L!Post]_(L!ledgerVars)
    <2> SUFFICES ASSUME IInv, [Next]_vars PROVE [L!Post]_(L!ledgerVars)
      OBVIOUS
    <2>1. CASE UNCHANGED <<balance, history>>
      BY <2>1 DEF L!ledgerVars
    <2>2. ASSUME NEW c \in Calls, SettleCommit(c) PROVE L!Post
      <3> SUFFICES ASSUME NEW t, NEW p, NEW d, NEW a, NEW b,
                          t = call[c].trip, p = Passenger[t], d = Driver[t],
                          a = Debit(c), b = Credit(c)
                   PROVE  L!Post
        OBVIOUS
      <3>1. /\ t \in Trips /\ p \in Users /\ d \in Users /\ p # d
            /\ a \in Nat /\ b \in Nat /\ b <= a
            /\ ~ PaidTo(p, t)
            /\ Committed(p, d, t, a, b)
        BY <2>2, CommitSums
      <3>2. t # NoTrip
        BY <3>1, SettlementAssumption
      <3>3. ~ PaidTo(d, t)
        BY <3>1 DEF IInv, TripMovesMoneyOnce, RowsOf, PaidTo
      <3>4. L!Posts(p)
        <4> DEFINE row == [amount |-> - a, ref |-> t]
        <4>1. history'[p] = Append(history[p], row)
          BY <3>1 DEF Committed
        <4>2. row \in HistoryRow /\ row.ref = t /\ row.amount = - a
          BY <3>1 DEF HistoryRow
        <4> HIDE DEF row
        <4>5. /\ history'[p] # <<>>
              /\ history'[p][Len(history'[p])] = row
          BY <3>1, <4>1, <4>2, OneMoreRow DEF IInv
        <4>3. balance'[p] = balance[p] + - a
          BY <3>1 DEF Committed, IInv, TypeOK
        <4>4. ~ L!PaidTo(p, t)
          BY <3>1 DEF PaidTo, L!PaidTo
        <4> QED
          BY <4>1, <4>2, <4>3, <4>4, <4>5 DEF L!Posts
      <3>5. L!Posts(d) \/ L!Leaves(d)
        <4>1. CASE balance'[d] = balance[d] /\ history'[d] = history[d]
          BY <4>1 DEF L!Leaves
        <4>2. CASE /\ balance'[d] = balance[d] + b
                   /\ history'[d] = Append(history[d], [amount |-> b, ref |-> t])
          <5> DEFINE row == [amount |-> b, ref |-> t]
          <5>1. row \in HistoryRow /\ row.ref = t /\ row.amount = b
            BY <3>1 DEF HistoryRow
          <5>2. history'[d] = Append(history[d], row)
            BY <4>2
          <5> HIDE DEF row
          <5>3. /\ history'[d] # <<>>
                /\ history'[d][Len(history'[d])] = row
            <6>1. TypeOK /\ d \in Users
              BY <3>1 DEF IInv
            <6> QED
              BY ONLY <6>1, <5>1, <5>2, OneMoreRow
          <5>4. ~ L!PaidTo(d, t)
            BY <3>3 DEF PaidTo, L!PaidTo
          <5>5. balance'[d] = balance[d] + b
            BY <4>2
          <5> QED
            BY ONLY <5>1, <5>2, <5>3, <5>4, <5>5 DEF L!Posts
        <4> QED
          BY <3>1, <4>1, <4>2 DEF Committed
      <3>6. \A u \in Users \ {p, d} : L!Leaves(u)
        BY <3>1 DEF Committed, L!Leaves
      <3> QED
        BY <3>1, <3>4, <3>5, <3>6 DEF Committed, L!Post
    <2>3. ASSUME NEW c \in Calls, AdjustCommit(c) PROVE L!Post
      <3> SUFFICES ASSUME NEW u, NEW a, u = call[c].user, a = call[c].fare
                   PROVE  L!Post
        OBVIOUS
      <3>1. /\ u \in Users /\ a \in Int
            /\ balance[u] + a \in 0 .. Int4Max
            /\ call[c].paid = balance[u]
        BY <2>3 DEF AdjustCommit, IInv, TypeOK, CallRecord, CallsOK, ReadsStayFresh, At
      <3>2. /\ balance' = [balance EXCEPT ![u] = balance[u] + a]
            /\ history' = [history EXCEPT ![u] = Append(history[u], [amount |-> a, ref |-> NoTrip])]
        BY <2>3, <3>1 DEF AdjustCommit
      <3>3. /\ balance' \in [Users -> 0 .. Int4Max]
            /\ balance'[u] = balance[u] + a
            /\ DOMAIN history' = Users
            /\ history'[u] = Append(history[u], [amount |-> a, ref |-> NoTrip])
            /\ \A v \in Users \ {u} : balance'[v] = balance[v] /\ history'[v] = history[v]
        BY <3>1, <3>2 DEF IInv, TypeOK
      <3>4. [amount |-> a, ref |-> NoTrip] \in HistoryRow
        BY <3>1 DEF HistoryRow
      <3>5. /\ history'[u] # <<>>
            /\ history'[u][Len(history'[u])] = [amount |-> a, ref |-> NoTrip]
        BY <3>1, <3>3, <3>4, OneMoreRow DEF IInv
      <3>6. L!Posts(u)
        BY <3>3, <3>5 DEF L!Posts
      <3>7. \A v \in Users \ {u} : L!Leaves(v)
        BY <3>3 DEF L!Leaves
      <3> QED
        BY <3>3, <3>6, <3>7 DEF L!Post
    <2> QED
      BY <2>1, <2>2, <2>3 DEF Next, Arrive, Continue, Settle, LockPassenger, LockDriver,
         SettleRefused, DeadlockVictim, AdjustLock, Fail, Restart, vars
  <1> QED
    BY <1>1, <1>2, Invariance, PTL DEF Spec, RefinesLedger, L!Spec
=============================================================================
