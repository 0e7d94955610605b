----------------------------- MODULE TripsProofs -----------------------------
(***************************************************************************)
(* Proofs about Trips, for any users, trips, handlers in flight, quotes    *)
(* and limits; then about TripClient, the screens those trips are shown    *)
(* on, for any passengers, rides and calls in flight.                      *)
(***************************************************************************)
EXTENDS Trips, TripClient, FiniteSetTheorems, SequenceTheorems, TLAPS

Boarding(r) == r.step \in {"pickup_driver", "pickup_insert"}
Recording == {"count", "insert"}
Saving == {"save_read", "save_write"}

\* A row that was inserted has its two users for ever.
TripsOK ==
  \A t \in Trips :
    IF trip[t].status = "none"
      THEN trip[t].passenger = Nobody /\ trip[t].driver = Nobody
      ELSE /\ trip[t].passenger \in Users /\ trip[t].driver \in Users
           /\ trip[t].passenger # trip[t].driver

\* What a handler that carries r knows of the tables between two statements.
RecordOK(r) ==
  /\ IF r.step = "idle" THEN r.op = "none" ELSE r.trip \in Trips
  /\ Boarding(r) =>
       /\ r.user \in Users /\ r.driver \in Users /\ r.user # r.driver
       /\ trip[r.trip].status = "none"
  /\ ~ Boarding(r) /\ r.step # "idle" => trip[r.trip].status # "none"
  /\ r.step \in Recording => r.op \in {"track", "dropoff", "end"}
  /\ r.step \in {"price", "settle"} => r.op = "end"
  /\ r.step = "settle" =>
       r.entity.status = "completed" /\ r.entity.fare >= 0 /\ r.entity.share >= 0
  /\ r.step \in Saving =>
       \/ r.op = "end" /\ r.entity.status = "completed"
       \/ r.op = "cancel" /\ r.entity.status = "cancelled"
  /\ r.op = "end" =>
       /\ r.trip \in ripe
       /\ r.step \notin Recording => HasPoint(r.trip, "end")
       /\ r.step \in {"settle"} \cup Saving => billed[r.trip] # "none"

\* No two handlers mean to insert one id.
CallsOK ==
  \A c \in Calls :
    /\ RecordOK(call[c])
    /\ Boarding(call[c]) => \A e \in Calls \ {c} : call[e].trip # call[c].trip

IInv == TypeOK /\ TripsOK /\ CallsOK /\ TripIsPaidOnce /\ CompletionIsBacked

LEMMA IdleIsARecord == Idle \in CallRecord
  BY DEF Idle, Handler, CallRecord, Steps, Entity, Loaded, Statuses, Null, Columns

LEMMA InitIInv == Init => IInv
  <1> SUFFICES ASSUME Init PROVE IInv
    OBVIOUS
  <1> USE TripsAssumption
  <1>1. TypeOK
    <2>1. Unused \in TripRow
      BY DEF Unused, TripRow, Statuses, Null
    <2> QED
      BY <2>1, IdleIsARecord DEF Init, TypeOK
  <1>2. TripsOK
    BY DEF Init, TripsOK, Unused
  <1>3. CallsOK
    BY DEF Init, CallsOK, RecordOK, Boarding, Recording, Saving, Idle, Handler
  <1>4. \A u \in Users, t \in Trips : RowsOf(u, t) = {} /\ ~ PaidTo(u, t)
    BY DEF Init, RowsOf, PaidTo
  <1>5. TripIsPaidOnce
    BY <1>4 DEF TripIsPaidOnce
  <1>6. CompletionIsBacked
    BY <1>4 DEF Init, CompletionIsBacked, Unused
  <1> QED
    BY <1>1, <1>2, <1>3, <1>5, <1>6 DEF IInv

-----------------------------------------------------------------------------
tables == <<trip, points, billed, waiting, ripe, audited, balance, history>>

\* Nothing a handler in flight relies on is taken back.
TablesGrow ==
  /\ \A t \in Trips : trip[t].status # "none" => trip'[t].status # "none"
  /\ \A t \in Trips : t \in ripe => t \in ripe'
  /\ \A t \in Trips : HasPoint(t, "end") => HasPoint(t, "end")'
  /\ \A t \in Trips : billed[t] # "none" => billed'[t] # "none"

LEMMA TablesStay == UNCHANGED tables => TablesGrow
  BY DEF tables, TablesGrow, HasPoint

\* What a handler knows stays true while the tables grow and nobody inserts the
\* id it is about to insert.
LEMMA StillOK ==
  ASSUME NEW r, RecordOK(r), TablesGrow,
         Boarding(r) => trip'[r.trip].status = "none"
  PROVE  RecordOK(r)'
  <1>1. CASE r.step = "idle"
    BY <1>1 DEF RecordOK, Boarding, Recording, Saving
  <1>2. CASE r.step # "idle"
    <2>1. r.trip \in Trips
      BY <1>2 DEF RecordOK
    <2>2. /\ trip[r.trip].status # "none" => trip'[r.trip].status # "none"
          /\ r.trip \in ripe => r.trip \in ripe'
          /\ billed[r.trip] # "none" => billed'[r.trip] # "none"
          /\ HasPoint(r.trip, "end") => HasPoint(r.trip, "end")'
      BY <2>1 DEF TablesGrow
    <2> QED
      BY <1>2, <2>1, <2>2 DEF RecordOK, Boarding
  <1> QED
    BY <1>1, <1>2

LEMMA CarriedRecord ==
  ASSUME NEW e, NEW r, call'[e] = r, RecordOK(r)'
  PROVE  RecordOK(call[e])'
  BY DEF RecordOK, Boarding, HasPoint

\* A step of the handler c, which afterwards carries rec.
LEMMA CallsKept ==
  ASSUME TypeOK, CallsOK, NEW c \in Calls, NEW rec \in CallRecord,
         call' = [call EXCEPT ![c] = rec],
         TablesGrow,
         \A t \in Trips : trip[t].status = "none" /\ trip'[t].status # "none" => t = call[c].trip,
         \/ rec.trip \in {call[c].trip, NoTrip}
         \/ rec.trip \in Trips /\ trip[rec.trip].status # "none"
         \/ \A e \in Calls : call[e].trip # rec.trip,
         RecordOK(rec)',
         Boarding(rec) => \A e \in Calls \ {c} : call[e].trip # rec.trip
  PROVE  CallsOK' /\ call' \in [Calls -> CallRecord]
  <1> USE TripsAssumption
  <1>1. /\ call' \in [Calls -> CallRecord]
        /\ call'[c] = rec
        /\ \A e \in Calls \ {c} : call'[e] = call[e]
    BY DEF TypeOK
  <1>2. ASSUME NEW e \in Calls, e # c, NEW r, r = call[e]
        PROVE  /\ RecordOK(call[e])'
               /\ Boarding(r) => \A f \in Calls \ {e} : call'[f].trip # r.trip
    <2>1. RecordOK(r) /\ call'[e] = r
      BY <1>1, <1>2 DEF CallsOK
    <2>2. ASSUME Boarding(r)
          PROVE  /\ trip'[r.trip].status = "none"
                 /\ \A f \in Calls \ {e} : call'[f].trip # r.trip
      <3>1. /\ r.trip \in Trips
            /\ trip[r.trip].status = "none"
            /\ \A f \in Calls \ {e} : call[f].trip # r.trip
        BY <1>2, <2>1, <2>2 DEF CallsOK, RecordOK, Boarding
      <3>2. call[c].trip # r.trip
        BY <1>2, <3>1
      <3>3. rec.trip # r.trip
        BY <1>2, <3>1, <3>2
      <3> QED
        BY <1>1, <3>1, <3>2, <3>3
    <2>3. RecordOK(r)'
      BY ONLY <2>1, <2>2, TablesGrow, StillOK
    <2> QED
      BY ONLY <2>1, <2>2, <2>3, CarriedRecord
  <1>3. RecordOK(call[c])'
    BY ONLY <1>1, RecordOK(rec)', CarriedRecord
  <1>4. \A e \in Calls : Boarding(call'[e]) => \A f \in Calls \ {e} : call'[f].trip # call'[e].trip
    BY <1>1, <1>2
  <1>5. \A e \in Calls : RecordOK(call[e])'
    BY <1>2, <1>3
  <1> QED
    BY <1>1, <1>4, <1>5 DEF CallsOK, Boarding

\* A step that moves only handlers keeps what is said of the tables.
LEMMA TablesKept ==
  ASSUME IInv, UNCHANGED tables
  PROVE  TripsOK' /\ TripIsPaidOnce' /\ CompletionIsBacked'
  BY DEF IInv, tables, TripsOK, TripIsPaidOnce, CompletionIsBacked, RowsOf, PaidTo, HasPoint

LEMMA OnlyCallMoves ==
  ASSUME IInv, NEW c \in Calls, NEW rec \in CallRecord,
         call' = [call EXCEPT ![c] = rec],
         UNCHANGED tables, Silent,
         \/ rec.trip \in {call[c].trip, NoTrip}
         \/ rec.trip \in Trips /\ trip[rec.trip].status # "none"
         \/ \A e \in Calls : call[e].trip # rec.trip,
         RecordOK(rec),
         Boarding(rec) => \A e \in Calls \ {c} : call[e].trip # rec.trip
  PROVE  IInv'
  <1>1. TypeOK /\ CallsOK /\ TablesGrow
    BY TablesStay DEF IInv
  <1>2. \A t \in Trips : trip[t].status = "none" /\ trip'[t].status # "none" => t = call[c].trip
    BY DEF tables
  <1>3. RecordOK(rec)'
    BY DEF tables, RecordOK, HasPoint
  <1>4. CallsOK' /\ call' \in [Calls -> CallRecord]
    BY <1>1, <1>2, <1>3, CallsKept
  <1>5. TypeOK'
    BY <1>1, <1>4 DEF TypeOK, tables, Silent
  <1> QED
    BY <1>4, <1>5, TablesKept DEF IInv

\* A handler that is done or gave up.
LEMMA IdleIsOK == Idle.trip = NoTrip /\ ~ Boarding(Idle) /\ RecordOK(Idle) /\ RecordOK(Idle)'
  BY DEF RecordOK, Boarding, Recording, Saving, Idle, Handler

LEMMA FinishOnly ==
  ASSUME IInv, NEW c \in Calls, Finish(c), UNCHANGED tables, Silent
  PROVE  IInv'
  <1>1. call' = [call EXCEPT ![c] = Idle]
    BY DEF Finish
  <1> QED
    BY <1>1, IdleIsOK, IdleIsARecord, OnlyCallMoves

\* The record of a handler that went on to its next step.
LEMMA GotoEffect ==
  ASSUME TypeOK, NEW c \in Calls, NEW step \in Steps, Goto(c, step)
  PROVE  \E rec \in CallRecord :
           /\ call' = [call EXCEPT ![c] = rec]
           /\ rec.step = step
           /\ rec.op = call[c].op /\ rec.user = call[c].user /\ rec.driver = call[c].driver
           /\ rec.trip = call[c].trip /\ rec.entity = call[c].entity
  <1>1. call[c] \in CallRecord
    BY DEF TypeOK
  <1> DEFINE rec == [call[c] EXCEPT !.step = step]
  <1>2. /\ rec \in CallRecord /\ rec.step = step
        /\ rec.op = call[c].op /\ rec.user = call[c].user /\ rec.driver = call[c].driver
        /\ rec.trip = call[c].trip /\ rec.entity = call[c].entity
    BY <1>1 DEF CallRecord
  <1>3. call' = [call EXCEPT ![c] = rec]
    BY DEF Goto, TypeOK
  <1> QED
    BY <1>2, <1>3

-----------------------------------------------------------------------------
(* Steps that move nothing but a handler.                                  *)
LEMMA PickupCheckIInv ==
  ASSUME IInv, NEW c \in Calls, NEW p \in Users, NEW d \in Users, NEW t \in Trips,
         PickupCheck(c, p, d, t)
  PROVE  IInv'
  <1> DEFINE rec == Handler("pickup_driver", "pickup", p, d, t, Loaded)
  <1>1. /\ rec \in CallRecord /\ rec.trip = t
        /\ rec.step = "pickup_driver" /\ rec.op = "pickup"
        /\ rec.user = p /\ rec.driver = d
    BY DEF Handler, Loaded, CallRecord, Steps, Entity, Statuses, Null, Columns
  <1>2. /\ call' = [call EXCEPT ![c] = rec]
        /\ UNCHANGED tables /\ Silent
        /\ p # d /\ trip[t].status = "none"
        /\ \A e \in Calls : call[e].trip # t
    BY DEF PickupCheck, Start, Fresh, Unused, tables, money
  <1> HIDE DEF rec
  <1>3. RecordOK(rec)
    BY <1>1, <1>2 DEF RecordOK, Boarding, Recording, Saving
  <1> QED
    BY <1>1, <1>2, <1>3, OnlyCallMoves

LEMMA RecordingBegins ==
  ASSUME IInv, NEW c \in Calls, NEW op \in {"track", "dropoff", "end"},
         NEW u \in Users, NEW t \in Trips,
         Active(t), op = "end" => t \in ripe,
         Start(c, Handler("count", op, u, Nobody, t, Loaded)), UNCHANGED tables, Silent
  PROVE  IInv'
  <1> DEFINE rec == Handler("count", op, u, Nobody, t, Loaded)
  <1>1. /\ rec \in CallRecord /\ rec.trip = t /\ rec.step = "count" /\ rec.op = op
    BY DEF Handler, Loaded, CallRecord, Steps, Entity, Statuses, Null, Columns
  <1>2. call' = [call EXCEPT ![c] = rec] /\ trip[t].status # "none"
    BY DEF Start, Active
  <1> HIDE DEF rec
  <1>3. RecordOK(rec) /\ ~ Boarding(rec)
    BY <1>1, <1>2 DEF RecordOK, Boarding, Recording, Saving
  <1> QED
    BY <1>1, <1>2, <1>3, OnlyCallMoves

LEMMA AdminCancelIInv ==
  ASSUME IInv, NEW c \in Calls, NEW t \in Trips, AdminCancel(c, t)
  PROVE  IInv'
  <1> DEFINE entity == [status |-> "cancelled", fare |-> Null, share |-> Null]
  <1> DEFINE rec == Handler("save_read", "cancel", Nobody, Nobody, t, entity)
  <1>1. entity \in Entity /\ entity.status = "cancelled"
    BY DEF Entity, Statuses, Null
  <1>2. /\ call' = [call EXCEPT ![c] = rec] /\ trip[t].status # "none"
        /\ UNCHANGED tables /\ Silent
    BY DEF AdminCancel, Start, Active, tables, money
  <1> HIDE DEF entity
  <1>3. /\ rec \in CallRecord /\ rec.trip = t /\ rec.step = "save_read"
        /\ rec.op = "cancel" /\ rec.entity = entity
    BY <1>1 DEF Handler, CallRecord, Steps
  <1> HIDE DEF rec
  <1>4. RecordOK(rec) /\ ~ Boarding(rec)
    BY <1>1, <1>2, <1>3 DEF RecordOK, Boarding, Recording, Saving
  <1> QED
    BY <1>2, <1>3, <1>4, OnlyCallMoves

LEMMA PickupDriverIInv ==
  ASSUME IInv, NEW c \in Calls, PickupDriver(c)
  PROVE  IInv'
  <1>1. UNCHANGED tables /\ Silent
    BY DEF PickupDriver, tables, money
  <1>2. CASE Finish(c)
    BY <1>1, <1>2, FinishOnly
  <1>3. CASE Goto(c, "pickup_insert")
    <2>1. PICK rec \in CallRecord :
            /\ call' = [call EXCEPT ![c] = rec]
            /\ rec.step = "pickup_insert"
            /\ rec.op = call[c].op /\ rec.user = call[c].user /\ rec.driver = call[c].driver
            /\ rec.trip = call[c].trip /\ rec.entity = call[c].entity
      BY <1>3, GotoEffect DEF IInv, Steps
    <2>2. /\ RecordOK(call[c]) /\ At(c, "pickup_driver")
          /\ Boarding(call[c]) => \A e \in Calls \ {c} : call[e].trip # call[c].trip
      BY DEF IInv, CallsOK, PickupDriver
    <2>3. RecordOK(rec) /\ Boarding(rec)
      BY <2>1, <2>2 DEF RecordOK, Boarding, Recording, Saving, At
    <2>4. \A e \in Calls \ {c} : call[e].trip # rec.trip
      BY <2>1, <2>2 DEF Boarding, At
    <2> QED
      BY <1>1, <2>1, <2>3, <2>4, OnlyCallMoves
  <1> QED
    BY <1>2, <1>3 DEF PickupDriver

LEMMA CountPointsIInv ==
  ASSUME IInv, NEW c \in Calls, CountPoints(c)
  PROVE  IInv'
  <1> DEFINE rec == [call[c] EXCEPT !.step = "insert", !.count = Len(points[call[c].trip])]
  <1>1. RecordOK(call[c]) /\ call[c] \in CallRecord /\ At(c, "count")
    BY DEF IInv, CallsOK, TypeOK, CountPoints
  <1>2. Len(points[call[c].trip]) \in Nat
    BY <1>1 DEF RecordOK, At, IInv, TypeOK
  <1>3. /\ rec \in CallRecord /\ rec.step = "insert"
        /\ rec.op = call[c].op /\ rec.trip = call[c].trip
    BY <1>1, <1>2 DEF CallRecord, Steps
  <1>4. call' = [call EXCEPT ![c] = rec] /\ UNCHANGED tables /\ Silent
    BY DEF CountPoints, IInv, TypeOK, tables, money
  <1> HIDE DEF rec
  <1>5. RecordOK(rec) /\ ~ Boarding(rec)
    BY <1>1, <1>3 DEF RecordOK, Boarding, Recording, Saving, At
  <1> QED
    BY <1>3, <1>4, <1>5, OnlyCallMoves

LEMMA SettleFailsIInv ==
  ASSUME IInv, NEW c \in Calls, SettleFails(c)
  PROVE  IInv'
  <1>1. UNCHANGED tables /\ Silent /\ At(c, "settle") /\ RecordOK(call[c])
    BY DEF SettleFails, tables, money, IInv, CallsOK
  <1>2. PICK rec \in CallRecord :
          /\ call' = [call EXCEPT ![c] = rec]
          /\ rec.step = "save_read"
          /\ rec.op = call[c].op /\ rec.user = call[c].user /\ rec.driver = call[c].driver
          /\ rec.trip = call[c].trip /\ rec.entity = call[c].entity
    BY GotoEffect DEF IInv, Steps, SettleFails
  <1>3. RecordOK(rec) /\ ~ Boarding(rec)
    BY <1>1, <1>2 DEF RecordOK, Boarding, Recording, Saving, At
  <1> QED
    BY <1>1, <1>2, <1>3, OnlyCallMoves

LEMMA SaveReadIInv ==
  ASSUME IInv, NEW c \in Calls, SaveRead(c)
  PROVE  IInv'
  <1> SUFFICES ASSUME NEW differ, differ = { k \in Columns : trip[call[c].trip][k] # call[c].entity[k] }
               PROVE  IInv'
    OBVIOUS
  <1> DEFINE rec == [call[c] EXCEPT !.step = "save_write", !.dirty = differ]
  <1>1. RecordOK(call[c]) /\ call[c] \in CallRecord /\ At(c, "save_read")
    BY DEF IInv, CallsOK, TypeOK, SaveRead
  <1>2. differ \in SUBSET Columns
    OBVIOUS
  <1>3. /\ rec \in CallRecord /\ rec.step = "save_write"
        /\ rec.op = call[c].op /\ rec.trip = call[c].trip /\ rec.entity = call[c].entity
    BY <1>1, <1>2 DEF CallRecord, Steps
  <1>4. call' = [call EXCEPT ![c] = rec] /\ UNCHANGED tables /\ Silent
    BY DEF SaveRead, IInv, TypeOK, tables, money
  <1> HIDE DEF rec
  <1>5. RecordOK(rec) /\ ~ Boarding(rec)
    BY <1>1, <1>3 DEF RecordOK, Boarding, Recording, Saving, At
  <1> QED
    BY <1>3, <1>4, <1>5, OnlyCallMoves

-----------------------------------------------------------------------------
(* Steps that write a table of the trips.                                  *)
LEMMA PickupInsertIInv ==
  ASSUME IInv, NEW c \in Calls, PickupInsert(c)
  PROVE  IInv'
  <1> USE TripsAssumption
  <1> SUFFICES ASSUME NEW t, t = call[c].trip PROVE IInv'
    OBVIOUS
  <1>1. /\ RecordOK(call[c]) /\ At(c, "pickup_insert")
        /\ t \in Trips /\ trip[t].status = "none"
        /\ call[c].user \in Users /\ call[c].driver \in Users /\ call[c].user # call[c].driver
    BY DEF IInv, CallsOK, RecordOK, Boarding, At, PickupInsert
  <1> DEFINE row == [ status |-> "active", fare |-> Null, share |-> Null,
                      passenger |-> call[c].user, driver |-> call[c].driver ]
  <1>2. /\ row \in TripRow /\ row.status = "active"
        /\ row.passenger = call[c].user /\ row.driver = call[c].driver
    BY <1>1 DEF TripRow, Statuses, Null
  <1>3. /\ trip' = [trip EXCEPT ![t] = row]
        /\ UNCHANGED <<points, billed, waiting, ripe, audited, balance, history>>
        /\ Silent
    BY DEF PickupInsert, money
  <1> HIDE DEF row
  <1>4. /\ trip' \in [Trips -> TripRow]
        /\ trip'[t] = row
        /\ \A s \in Trips \ {t} : trip'[s] = trip[s]
    BY <1>1, <1>2, <1>3 DEF IInv, TypeOK
  <1>5. PICK rec \in CallRecord :
          /\ call' = [call EXCEPT ![c] = rec]
          /\ rec.step = "pickup_point"
          /\ rec.op = call[c].op /\ rec.user = call[c].user /\ rec.driver = call[c].driver
          /\ rec.trip = call[c].trip /\ rec.entity = call[c].entity
    BY GotoEffect DEF IInv, Steps, PickupInsert
  <1>6. TablesGrow
    BY <1>1, <1>2, <1>3, <1>4 DEF TablesGrow, HasPoint
  <1>7. RecordOK(rec)' /\ ~ Boarding(rec)
    <2>1. ~ Boarding(rec) /\ rec.trip = t /\ rec.step = "pickup_point" /\ trip'[t].status # "none"
      BY <1>2, <1>4, <1>5 DEF Boarding
    <2>2. rec.op = "end" => t \in ripe' /\ HasPoint(t, "end")
      BY <1>1, <1>3, <1>5 DEF RecordOK, At, Recording
    <2>3. rec.op = "end" => HasPoint(rec.trip, "end")'
      BY <1>3, <2>1, <2>2 DEF HasPoint
    <2> QED
      BY <1>1, <2>1, <2>2, <2>3 DEF RecordOK, Boarding, Recording, Saving
  <1>8. \A s \in Trips : trip[s].status = "none" /\ trip'[s].status # "none" => s = call[c].trip
    BY <1>4
  <1>9. CallsOK' /\ call' \in [Calls -> CallRecord]
    BY <1>5, <1>6, <1>7, <1>8, CallsKept DEF IInv
  <1>10. TypeOK'
    BY <1>3, <1>4, <1>9 DEF IInv, TypeOK, Silent
  <1>11. TripsOK'
    BY <1>1, <1>2, <1>4 DEF IInv, TripsOK
  <1>12. \A u \in Users : RowsOf(u, t) = {}
    BY <1>1 DEF IInv, TripIsPaidOnce, TripsOK
  <1>13. \A u \in Users, s \in Trips : RowsOf(u, s)' = RowsOf(u, s) /\ (PaidTo(u, s)' <=> PaidTo(u, s))
    BY <1>3 DEF RowsOf, PaidTo
  <1>14. TripIsPaidOnce'
    <2> SUFFICES ASSUME NEW s \in Trips, NEW u \in Users, NEW i \in RowsOf(u, s)'
                 PROVE  /\ RowsOf(u, s)' = {i}
                        /\ u \in {trip'[s].passenger, trip'[s].driver}
                        /\ u = trip'[s].passenger => history'[u][i].amount <= 0
                        /\ u # trip'[s].passenger =>
                             /\ history'[u][i].amount > 0
                             /\ \E j \in RowsOf(trip[s].passenger, s)' :
                                  history'[u][i].amount <= - history'[trip'[s].passenger][j].amount
      BY DEF TripIsPaidOnce
    <2>1. i \in RowsOf(u, s) /\ RowsOf(u, s)' = RowsOf(u, s)
      BY <1>13
    <2>2. s # t /\ trip'[s] = trip[s]
      BY <1>4, <1>12, <2>1
    <2>3. RowsOf(trip[s].passenger, s)' = RowsOf(trip[s].passenger, s)
      BY <1>3, <2>2 DEF RowsOf
    <2> QED
      BY <1>3, <2>1, <2>2, <2>3 DEF IInv, TripIsPaidOnce
  <1>15. CompletionIsBacked'
    <2>1. \A u \in Users : ~ PaidTo(u, t)
      BY <1>12 DEF RowsOf, PaidTo
    <2> QED
      BY <1>1, <1>2, <1>3, <1>4, <1>13, <2>1 DEF IInv, CompletionIsBacked, HasPoint
  <1> QED
    BY <1>9, <1>10, <1>11, <1>14, <1>15 DEF IInv

\* A point more.
LEMMA PointAdded ==
  ASSUME TypeOK, NEW t \in Trips, NEW n \in Nat, NEW k \in Kinds, AddPoint(t, n, k)
  PROVE  /\ points' \in [Trips -> Seq(Point)]
         /\ \A s \in Trips : HasPoint(s, "end") => HasPoint(s, "end")'
         /\ HasPoint(t, k)'
  <1> DEFINE new == [seq |-> n, kind |-> k]
  <1>1. new \in Point /\ new.kind = k
    BY DEF Point
  <1>2. points' = [points EXCEPT ![t] = Append(points[t], new)]
    BY DEF AddPoint
  <1> HIDE DEF new
  <1>3. points[t] \in Seq(Point)
    BY DEF TypeOK
  <1>4. /\ Append(points[t], new) \in Seq(Point)
        /\ Len(Append(points[t], new)) = Len(points[t]) + 1
        /\ \A i \in 1 .. Len(points[t]) : Append(points[t], new)[i] = points[t][i]
        /\ Append(points[t], new)[Len(points[t]) + 1] = new
    BY <1>1, <1>3, AppendProperties
  <1>5. /\ points' \in [Trips -> Seq(Point)]
        /\ points'[t] = Append(points[t], new)
        /\ \A s \in Trips \ {t} : points'[s] = points[s]
    BY <1>2, <1>4 DEF TypeOK
  <1>6. /\ Len(points[t]) \in Nat
        /\ DOMAIN points[t] = 1 .. Len(points[t])
        /\ DOMAIN points'[t] = 1 .. (Len(points[t]) + 1)
    BY <1>3, <1>4, <1>5
  <1>7. HasPoint(t, "end") => HasPoint(t, "end")'
    <2> SUFFICES ASSUME NEW i \in DOMAIN points[t], points[t][i].kind = "end"
                 PROVE  \E j \in DOMAIN points'[t] : points'[t][j].kind = "end"
      BY DEF HasPoint
    <2>1. i \in DOMAIN points'[t] /\ points'[t][i] = points[t][i]
      BY <1>4, <1>5, <1>6
    <2> QED
      BY <2>1
  <1>8. HasPoint(t, k)'
    <2>1. Len(points[t]) + 1 \in DOMAIN points'[t] /\ points'[t][Len(points[t]) + 1] = new
      BY <1>4, <1>5, <1>6
    <2> QED
      BY <1>1, <2>1 DEF HasPoint
  <1> QED
    BY <1>5, <1>7, <1>8 DEF HasPoint

\* A step of c that stores a point of its trip.
LEMMA PointAddedIInv ==
  ASSUME IInv, NEW c \in Calls, NEW t \in Trips, NEW n \in Nat, NEW k \in Kinds,
         t = call[c].trip,
         AddPoint(t, n, k),
         UNCHANGED <<trip, billed, waiting, ripe, audited, balance, history>>,
         bus' \subseteq Event,
         NEW rec \in CallRecord, call' = [call EXCEPT ![c] = rec],
         rec.trip \in {t, NoTrip}, ~ Boarding(rec), RecordOK(rec)'
  PROVE  IInv'
  <1>1. /\ points' \in [Trips -> Seq(Point)]
        /\ \A s \in Trips : HasPoint(s, "end") => HasPoint(s, "end")'
    BY PointAdded DEF IInv
  <1>2. TablesGrow
    BY <1>1 DEF TablesGrow
  <1>3. CallsOK' /\ call' \in [Calls -> CallRecord]
    BY <1>2, CallsKept DEF IInv
  <1>4. TypeOK'
    BY <1>1, <1>3 DEF IInv, TypeOK
  <1>5. TripsOK' /\ TripIsPaidOnce'
    BY DEF IInv, TripsOK, TripIsPaidOnce, RowsOf
  <1>6. CompletionIsBacked'
    <2>1. \A u \in Users, s \in Trips : PaidTo(u, s)' <=> PaidTo(u, s)
      BY DEF PaidTo
    <2> QED
      BY <1>1, <2>1 DEF IInv, CompletionIsBacked
  <1> QED
    BY <1>3, <1>4, <1>5, <1>6 DEF IInv

LEMMA PickupPointIInv ==
  ASSUME IInv, NEW c \in Calls, PickupPoint(c)
  PROVE  IInv'
  <1>1. RecordOK(call[c]) /\ At(c, "pickup_point") /\ call[c].trip \in Trips
    BY DEF IInv, CallsOK, RecordOK, PickupPoint, At
  <1>2. PICK rec \in CallRecord :
          /\ call' = [call EXCEPT ![c] = rec]
          /\ rec.step = "pickup_wait"
          /\ rec.op = call[c].op /\ rec.user = call[c].user /\ rec.driver = call[c].driver
          /\ rec.trip = call[c].trip /\ rec.entity = call[c].entity
    BY GotoEffect DEF IInv, Steps, PickupPoint
  <1>3. /\ AddPoint(call[c].trip, 0, "start")
        /\ UNCHANGED <<trip, billed, waiting, ripe, audited, balance, history>>
        /\ bus' \subseteq Event
    BY DEF PickupPoint, money, Silent
  <1>4. \A s \in Trips : HasPoint(s, "end") => HasPoint(s, "end")'
    BY <1>1, <1>3, PointAdded DEF IInv, Kinds
  <1>5. RecordOK(rec) /\ ~ Boarding(rec)
    BY <1>1, <1>2 DEF RecordOK, Boarding, Recording, Saving, At
  <1>6. TablesGrow
    BY <1>3, <1>4 DEF TablesGrow
  <1>7. RecordOK(rec)'
    BY <1>5, <1>6, StillOK
  <1> QED
    BY <1>1, <1>2, <1>3, <1>5, <1>7, PointAddedIInv DEF Kinds

LEMMA InsertPointIInv ==
  ASSUME IInv, NEW c \in Calls, InsertPoint(c)
  PROVE  IInv'
  <1> SUFFICES ASSUME NEW t, NEW op, t = call[c].trip, op = call[c].op PROVE IInv'
    OBVIOUS
  <1>1. /\ RecordOK(call[c]) /\ At(c, "insert") /\ t \in Trips
        /\ op \in {"track", "dropoff", "end"} /\ call[c].count \in Nat
        /\ trip[t].status # "none"
        /\ op = "end" => t \in ripe
    BY DEF IInv, CallsOK, RecordOK, InsertPoint, At, Recording, TypeOK, CallRecord, Boarding
  <1>2. op \in Kinds
    BY <1>1 DEF Kinds
  <1>3. /\ AddPoint(t, call[c].count, op)
        /\ UNCHANGED <<trip, billed, waiting, ripe, audited, balance, history>>
        /\ bus' \subseteq Event
    BY <1>1 DEF InsertPoint, money, Silent, Emit, Event
  <1>4. HasPoint(t, op)'
    BY <1>1, <1>2, <1>3, PointAdded DEF IInv
  <1>5. CASE op = "end"
    <2>1. PICK rec \in CallRecord :
            /\ call' = [call EXCEPT ![c] = rec]
            /\ rec.step = "price"
            /\ rec.op = call[c].op /\ rec.user = call[c].user /\ rec.driver = call[c].driver
            /\ rec.trip = call[c].trip /\ rec.entity = call[c].entity
      <3>1. Goto(c, "price") /\ TypeOK /\ "price" \in Steps
        BY <1>5 DEF InsertPoint, IInv, Steps
      <3> QED
        BY ONLY <3>1, c \in Calls, GotoEffect
    <2>2. rec.trip = t /\ rec.op = "end"
      BY <1>5, <2>1
    <2>3. HasPoint(rec.trip, "end")'
      BY <1>4, <1>5, <2>2
    <2>4. RecordOK(rec)' /\ ~ Boarding(rec)
      <3>1. t \in Trips /\ trip'[t].status # "none" /\ t \in ripe'
        BY <1>1, <1>3, <1>5
      <3>2. rec.step = "price"
        BY <2>1
      <3> QED
        BY ONLY <2>2, <2>3, <3>1, <3>2 DEF RecordOK, Boarding, Recording, Saving
    <2> QED
      BY <1>1, <1>2, <1>3, <2>1, <2>2, <2>4, PointAddedIInv
  <1>6. CASE op # "end"
    <2>1. call' = [call EXCEPT ![c] = Idle]
      BY <1>6 DEF InsertPoint, Finish
    <2> QED
      BY <1>1, <1>2, <1>3, <2>1, IdleIsOK, IdleIsARecord, PointAddedIInv
  <1> QED
    BY <1>5, <1>6

\* A step that writes waiting, audited or bus, which nothing proved depends on.
LEMMA SideTables ==
  ASSUME IInv, NEW c \in Calls, Finish(c),
         UNCHANGED <<trip, points, billed, ripe, balance, history>>,
         waiting' \subseteq Users, audited' \subseteq Trips, bus' \subseteq Event
  PROVE  IInv'
  <1>1. call' = [call EXCEPT ![c] = Idle]
    BY DEF Finish
  <1>2. TablesGrow
    BY DEF TablesGrow, HasPoint
  <1>3. CallsOK' /\ call' \in [Calls -> CallRecord]
    BY <1>1, <1>2, IdleIsOK, IdleIsARecord, CallsKept DEF IInv
  <1>4. TypeOK'
    BY <1>3 DEF IInv, TypeOK
  <1>5. TripsOK' /\ TripIsPaidOnce' /\ CompletionIsBacked'
    BY DEF IInv, TripsOK, TripIsPaidOnce, CompletionIsBacked, RowsOf, PaidTo, HasPoint
  <1> QED
    BY <1>3, <1>4, <1>5 DEF IInv

LEMMA PickupWaitIInv ==
  ASSUME IInv, NEW c \in Calls, PickupWait(c)
  PROVE  IInv'
  <1>1. call[c].trip \in Trips
    BY DEF IInv, CallsOK, RecordOK, PickupWait, At
  <1>2. bus' \subseteq Event
    BY <1>1 DEF PickupWait, Emit, Event
  <1>3. waiting' \subseteq Users /\ audited' \subseteq Trips
    BY DEF IInv, TypeOK, PickupWait
  <1> QED
    BY <1>2, <1>3, SideTables DEF PickupWait, money

LEMMA RecordAuditIInv ==
  ASSUME IInv, NEW c \in Calls, RecordAudit(c)
  PROVE  IInv'
  <1>1. call[c].trip \in Trips
    BY DEF IInv, CallsOK, RecordOK, RecordAudit, At
  <1>2. waiting' \subseteq Users /\ audited' \subseteq Trips /\ bus' \subseteq Event
    BY <1>1 DEF IInv, TypeOK, RecordAudit, Silent
  <1> QED
    BY <1>2, SideTables DEF RecordAudit, money

LEMMA PriceTripIInv ==
  ASSUME IInv, NEW c \in Calls, PriceTrip(c)
  PROVE  IInv'
  <1> USE TripsAssumption
  <1> SUFFICES ASSUME NEW t, t = call[c].trip PROVE IInv'
    OBVIOUS
  <1>1. /\ RecordOK(call[c]) /\ At(c, "price") /\ call[c] \in CallRecord
        /\ t \in Trips /\ trip[t].status # "none" /\ call[c].op = "end"
        /\ t \in ripe /\ HasPoint(t, "end")
    BY DEF IInv, CallsOK, RecordOK, PriceTrip, At, Recording, TypeOK, Boarding
  <1>2. PICK q \in Quotes, k \in LastKinds(t) :
          /\ call' = [call EXCEPT ![c].step = "settle",
                                  ![c].entity = [status |-> "completed", fare |-> q.fare, share |-> q.share]]
          /\ billed' = [billed EXCEPT ![t] = k]
    BY DEF PriceTrip
  <1>3. k \in Kinds
    <2>1. points[t] \in Seq(Point)
      BY <1>1 DEF IInv, TypeOK
    <2>2. PICK i \in DOMAIN points[t] : k = points[t][i].kind
      BY DEF LastKinds
    <2>3. points[t][i] \in Point
      BY <2>1, <2>2
    <2> QED
      BY <2>2, <2>3 DEF Point
  <1> DEFINE entity == [status |-> "completed", fare |-> q.fare, share |-> q.share]
  <1>4. q.fare \in Nat /\ q.share \in Nat
    OBVIOUS
  <1>5. entity \in Entity /\ entity.status = "completed" /\ entity.fare >= 0 /\ entity.share >= 0
    BY <1>4 DEF Entity, Statuses
  <1> HIDE DEF entity
  <1>6. PICK rec \in CallRecord :
          /\ call' = [call EXCEPT ![c] = rec]
          /\ rec.step = "settle" /\ rec.op = "end" /\ rec.trip = t /\ rec.entity = entity
    <2> DEFINE r == [call[c] EXCEPT !.step = "settle", !.entity = entity]
    <2>1. /\ r \in CallRecord /\ r.step = "settle" /\ r.op = "end"
          /\ r.trip = t /\ r.entity = entity
      BY <1>1, <1>5 DEF CallRecord, Steps
    <2>2. call' = [call EXCEPT ![c] = r]
      BY <1>2 DEF IInv, TypeOK, entity
    <2> QED
      BY <2>1, <2>2
  <1>8. /\ billed' \in [Trips -> Kinds \cup {"none"}]
        /\ billed'[t] # "none"
        /\ \A s \in Trips : billed[s] # "none" => billed'[s] # "none"
        /\ UNCHANGED <<trip, points, waiting, ripe, audited, balance, history>> /\ Silent
    BY <1>1, <1>2, <1>3 DEF IInv, TypeOK, Kinds, PriceTrip, money
  <1>9. TablesGrow
    BY <1>8 DEF TablesGrow, HasPoint
  <1>10. RecordOK(rec)' /\ ~ Boarding(rec)
    <2>1. HasPoint(rec.trip, "end")'
      BY <1>1, <1>6, <1>8 DEF HasPoint
    <2> QED
      BY <1>1, <1>5, <1>6, <1>8, <2>1 DEF RecordOK, Boarding, Recording, Saving
  <1>11. CallsOK' /\ call' \in [Calls -> CallRecord]
    BY <1>6, <1>8, <1>9, <1>10, CallsKept DEF IInv
  <1>12. TypeOK'
    BY <1>8, <1>11 DEF IInv, TypeOK, Silent
  <1>13. TripsOK' /\ TripIsPaidOnce'
    BY <1>8 DEF IInv, TripsOK, TripIsPaidOnce, RowsOf
  <1>14. CompletionIsBacked'
    BY <1>8 DEF IInv, CompletionIsBacked, PaidTo, HasPoint
  <1> QED
    BY <1>11, <1>12, <1>13, <1>14 DEF IInv

LEMMA SaveWriteIInv ==
  ASSUME IInv, NEW c \in Calls, SaveWrite(c)
  PROVE  IInv'
  <1> SUFFICES ASSUME NEW t, t = call[c].trip PROVE IInv'
    OBVIOUS
  <1>1. /\ RecordOK(call[c]) /\ At(c, "save_write") /\ call[c] \in CallRecord
        /\ t \in Trips /\ trip[t].status # "none" /\ trip[t] \in TripRow
        /\ call[c].entity \in Entity
    BY DEF IInv, CallsOK, RecordOK, SaveWrite, At, TypeOK, Boarding, CallRecord
  <1>2. \/ /\ call[c].op = "end" /\ call[c].entity.status = "completed"
           /\ t \in ripe /\ HasPoint(t, "end") /\ billed[t] # "none"
        \/ call[c].op = "cancel" /\ call[c].entity.status = "cancelled"
    BY <1>1 DEF RecordOK, At, Saving, Recording
  <1>3. /\ trip' \in [Trips -> TripRow]
        /\ \A s \in Trips \ {t} : trip'[s] = trip[s]
        /\ trip'[t].status \in {trip[t].status, call[c].entity.status}
        /\ trip'[t].passenger = trip[t].passenger /\ trip'[t].driver = trip[t].driver
        /\ UNCHANGED <<points, billed, waiting, ripe, audited, balance, history>>
    BY <1>1 DEF SaveWrite, IInv, TypeOK, TripRow, Entity, money
  <1>4. trip'[t].status # "none"
    BY <1>1, <1>2, <1>3
  <1>5. TablesGrow
    BY <1>3, <1>4 DEF TablesGrow, HasPoint
  <1>6. \A s \in Trips : trip[s].status = "none" <=> trip'[s].status = "none"
    BY <1>1, <1>3, <1>4
  <1>7. CallsOK' /\ call' \in [Calls -> CallRecord] /\ bus' \subseteq Event
    <2>1. CASE call[c].op = "cancel"
      <3>1. Goto(c, "audit") /\ Silent /\ TypeOK /\ "audit" \in Steps
        BY <2>1 DEF SaveWrite, IInv, Steps
      <3>2. PICK rec \in CallRecord :
              /\ call' = [call EXCEPT ![c] = rec]
              /\ rec.step = "audit"
              /\ rec.op = call[c].op /\ rec.user = call[c].user /\ rec.driver = call[c].driver
              /\ rec.trip = call[c].trip /\ rec.entity = call[c].entity
        BY ONLY <3>1, c \in Calls, GotoEffect
      <3>3. RecordOK(rec)' /\ ~ Boarding(rec)
        <4>1. rec.trip = t /\ rec.op = "cancel" /\ rec.step = "audit"
          BY <2>1, <3>2
        <4> QED
          BY ONLY <1>1, <1>4, <4>1 DEF RecordOK, Boarding, Recording, Saving
      <3> QED
        <4>1. CallsOK /\ TypeOK /\ rec.trip = call[c].trip
              /\ \A s \in Trips : trip[s].status = "none" /\ trip'[s].status # "none" => s = call[c].trip
          BY <1>6, <3>2 DEF IInv
        <4>2. CallsOK' /\ call' \in [Calls -> CallRecord]
          BY ONLY <1>5, <3>2, <3>3, <4>1, c \in Calls, CallsKept
        <4> QED
          BY <3>1, <4>2 DEF Silent
    <2>2. CASE call[c].op # "cancel"
      <3>1. call' = [call EXCEPT ![c] = Idle] /\ Emit("trip:completed", t)
        BY <2>2 DEF SaveWrite, Finish
      <3>2. bus' \subseteq Event
        BY <1>1, <3>1 DEF Emit, Event
      <3> QED
        <4>1. CallsOK /\ TypeOK
              /\ \A s \in Trips : trip[s].status = "none" /\ trip'[s].status # "none" => s = call[c].trip
          BY <1>6 DEF IInv
        <4>2. CallsOK' /\ call' \in [Calls -> CallRecord]
          BY ONLY <1>5, <3>1, <4>1, c \in Calls, IdleIsOK, IdleIsARecord, CallsKept
        <4> QED
          BY <3>2, <4>2
    <2> QED
      BY <2>1, <2>2
  <1>8. TypeOK'
    BY <1>3, <1>7 DEF IInv, TypeOK
  <1>9. TripsOK'
    BY <1>3, <1>4, <1>6 DEF IInv, TripsOK
  <1>10. TripIsPaidOnce'
    <2>1. \A s \in Trips : trip'[s].passenger = trip[s].passenger /\ trip'[s].driver = trip[s].driver
      BY <1>3
    <2> QED
      BY <1>3, <2>1 DEF IInv, TripIsPaidOnce, RowsOf
  <1>11. CompletionIsBacked'
    <2>1. \A s \in Trips, u \in Users : PaidTo(u, s)' <=> PaidTo(u, s)
      BY <1>3 DEF PaidTo
    <2>2. \A s \in Trips : HasPoint(s, "end")' <=> HasPoint(s, "end")
      BY <1>3 DEF HasPoint
    <2>3. \A s \in Trips : trip'[s].status = "completed" =>
            \/ trip[s].status = "completed"
            \/ s \in ripe /\ HasPoint(s, "end") /\ billed[s] # "none"
      BY <1>2, <1>3
    <2> QED
      BY <1>3, <2>1, <2>2, <2>3 DEF IInv, CompletionIsBacked
  <1> QED
    BY <1>7, <1>8, <1>9, <1>10, <1>11 DEF IInv

-----------------------------------------------------------------------------
(* The settlement.                                                         *)
\* Rows of a history that grew by one.
LEMMA OneMoreRow ==
  ASSUME TypeOK, NEW u \in Users, NEW row \in HistoryRow,
         history'[u] = Append(history[u], row)
  PROVE  /\ history'[u] \in Seq(HistoryRow)
         /\ history'[u] # <<>>
         /\ Len(history'[u]) = Len(history[u]) + 1
         /\ Len(history[u]) \in Nat
         /\ DOMAIN history'[u] = DOMAIN history[u] \cup {Len(history[u]) + 1}
         /\ Len(history[u]) + 1 \notin DOMAIN history[u]
         /\ \A i \in DOMAIN history[u] : history'[u][i] = history[u][i]
         /\ history'[u][Len(history[u]) + 1] = row
  <1>1. history[u] \in Seq(HistoryRow)
    BY DEF TypeOK
  <1>2. /\ Append(history[u], row) \in Seq(HistoryRow)
        /\ Len(Append(history[u], row)) = Len(history[u]) + 1
        /\ \A i \in 1 .. Len(history[u]) : Append(history[u], row)[i] = history[u][i]
        /\ Append(history[u], row)[Len(history[u]) + 1] = row
    BY <1>1, AppendProperties
  <1>3. /\ Len(history[u]) \in Nat
        /\ DOMAIN history[u] = 1 .. Len(history[u])
        /\ DOMAIN Append(history[u], row) = 1 .. (Len(history[u]) + 1)
    BY <1>1, <1>2
  <1>4. 1 .. (Len(history[u]) + 1) = (1 .. Len(history[u])) \cup {Len(history[u]) + 1}
    BY <1>3
  <1>5. Append(history[u], row) # <<>>
    BY <1>1
  <1> QED
    BY <1>2, <1>3, <1>4, <1>5

\* The rows of a trip after its row was appended, or that of something else.
LEMMA RowsAfter ==
  ASSUME TypeOK, NEW u \in Users, NEW a \in Int, NEW ref \in Trips \cup {NoTrip},
         history'[u] = Append(history[u], [amount |-> a, ref |-> ref])
  PROVE  /\ \A t \in Trips : t # ref => RowsOf(u, t)' = RowsOf(u, t)
         /\ RowsOf(u, ref)' = RowsOf(u, ref) \cup {Len(history[u]) + 1}
         /\ history'[u][Len(history[u]) + 1].amount = a
         /\ \A i \in DOMAIN history[u] : history'[u][i] = history[u][i]
  <1> DEFINE row == [amount |-> a, ref |-> ref]
  <1>1. row \in HistoryRow
    BY DEF HistoryRow
  <1>2. /\ DOMAIN history'[u] = DOMAIN history[u] \cup {Len(history[u]) + 1}
        /\ Len(history[u]) + 1 \notin DOMAIN history[u]
        /\ \A i \in DOMAIN history[u] : history'[u][i] = history[u][i]
        /\ history'[u][Len(history[u]) + 1] = row
    BY <1>1, OneMoreRow
  <1>3. row.ref = ref /\ row.amount = a
    OBVIOUS
  <1> HIDE DEF row
  <1> QED
    BY <1>2, <1>3 DEF RowsOf

\* What the commit of a settlement does to the money.
Committed(p, d, t, a, b) ==
  /\ balance' \in [Users -> 0 .. Int4Max]
  /\ balance'[p] = balance[p] - a
  /\ history'[p] = Append(history[p], [amount |-> - a, ref |-> t])
  /\ \/ b = 0 /\ balance'[d] = balance[d] /\ history'[d] = history[d]
     \/ /\ b > 0
        /\ balance'[d] = balance[d] + b
        /\ history'[d] = Append(history[d], [amount |-> b, ref |-> t])
  /\ \A u \in Users \ {p, d} : balance'[u] = balance[u] /\ history'[u] = history[u]
  /\ DOMAIN history' = Users

LEMMA SettlementSums ==
  ASSUME IInv, NEW c \in Calls, SettleTrip(c),
         NEW t, NEW p, NEW d, NEW a, NEW b,
         t = call[c].trip, p = trip[t].passenger, d = trip[t].driver,
         a = Debited(c), b = Credited(c)
  PROVE  /\ t \in Trips /\ p \in Users /\ d \in Users /\ p # d
         /\ a \in Nat /\ b \in Nat /\ b <= a
         /\ ~ PaidTo(p, t)
         /\ Committed(p, d, t, a, b)
  <1> USE TripsAssumption DEF IInv
  <1>1. At(c, "settle") /\ CanSettle(c) /\ RecordOK(call[c])
    BY DEF SettleTrip, CallsOK
  <1>2. /\ t \in Trips /\ trip[t].status # "none"
        /\ call[c].entity \in Entity
        /\ call[c].entity.fare >= 0 /\ call[c].entity.share >= 0
    BY <1>1 DEF RecordOK, At, Boarding, TypeOK, CallRecord
  <1>3. call[c].entity.fare \in Int /\ call[c].entity.share \in Int
    BY <1>2 DEF Entity
  <1>4. p \in Users /\ d \in Users /\ p # d
    BY <1>2 DEF TripsOK
  <1>5. balance[p] \in 0 .. Int4Max /\ balance[d] \in 0 .. Int4Max
    BY <1>4 DEF TypeOK
  <1>6. a \in 0 .. balance[p]
    BY <1>2, <1>3, <1>5 DEF Debited, Lesser
  <1>7. b \in 0 .. a
    BY <1>2, <1>3, <1>5, <1>6 DEF Credited, Lesser
  <1>8. /\ ~ PaidTo(p, t)
        /\ balance[d] + b \in 0 .. Int4Max
    BY <1>1, <1>5, <1>6, <1>7 DEF CanSettle
  <1>9. balance[p] - a \in 0 .. Int4Max
    BY <1>5, <1>6
  <1>10. balance' = [balance EXCEPT ![p] = @ - a, ![d] = @ + b]
    BY DEF SettleTrip
  <1>11. history' = [u \in Users |->
           IF u = p THEN Append(history[u], [amount |-> - a, ref |-> t])
           ELSE IF u = d /\ b > 0
           THEN Append(history[u], [amount |-> b, ref |-> t]) ELSE history[u]]
    BY DEF SettleTrip
  <1>12. b = 0 \/ b > 0
    BY <1>7, <1>6, <1>5
  <1>13. balance' \in [Users -> 0 .. Int4Max]
    BY <1>4, <1>8, <1>9, <1>10 DEF TypeOK
  <1>14. balance'[p] = balance[p] - a /\ balance'[d] = balance[d] + b
    BY <1>4, <1>10 DEF TypeOK
  <1>15. \/ b = 0 /\ balance'[d] = balance[d] /\ history'[d] = history[d]
         \/ /\ b > 0
            /\ balance'[d] = balance[d] + b
            /\ history'[d] = Append(history[d], [amount |-> b, ref |-> t])
    <2>1. CASE b = 0
      BY <2>1, <1>4, <1>5, <1>11, <1>14
    <2>2. CASE b > 0
      BY <2>2, <1>4, <1>11, <1>14
    <2> QED
      BY <1>12, <2>1, <2>2
  <1>16. \A u \in Users \ {p, d} : balance'[u] = balance[u] /\ history'[u] = history[u]
    BY <1>4, <1>10, <1>11 DEF TypeOK
  <1>17. Committed(p, d, t, a, b)
    BY <1>4, <1>11, <1>13, <1>14, <1>15, <1>16 DEF Committed
  <1> QED
    BY <1>2, <1>4, <1>5, <1>6, <1>7, <1>8, <1>17

LEMMA RowAppended ==
  ASSUME NEW h \in Seq(HistoryRow), NEW row \in HistoryRow
  PROVE  Append(h, row) \in Seq(HistoryRow)
  BY AppendProperties

LEMMA SettleTripIInv ==
  ASSUME IInv, NEW c \in Calls, SettleTrip(c)
  PROVE  IInv'
  <1> USE TripsAssumption
  <1> SUFFICES ASSUME NEW t, NEW p, NEW d, NEW a, NEW b,
                      t = call[c].trip, p = trip[t].passenger, d = trip[t].driver,
                      a = Debited(c), b = Credited(c)
               PROVE  IInv'
    OBVIOUS
  <1>1. /\ t \in Trips /\ p \in Users /\ d \in Users /\ p # d
        /\ a \in Nat /\ b \in Nat /\ b <= a
        /\ ~ PaidTo(p, t)
        /\ Committed(p, d, t, a, b)
    BY SettlementSums
  <1>2. /\ RecordOK(call[c]) /\ At(c, "settle") /\ call[c] \in CallRecord
        /\ call[c].op = "end" /\ trip[t].status # "none"
        /\ t \in ripe /\ HasPoint(t, "end") /\ billed[t] # "none"
    BY DEF IInv, CallsOK, RecordOK, SettleTrip, At, Recording, TypeOK, Boarding
  <1>3. UNCHANGED <<trip, points, billed, waiting, ripe, audited>> /\ Silent
    BY DEF SettleTrip
  <1>4. PICK rec \in CallRecord :
          /\ call' = [call EXCEPT ![c] = rec]
          /\ rec.step = "save_read" /\ rec.op = "end" /\ rec.trip = t
          /\ rec.entity.status = "completed"
    <2>1. Settled(c) \in Entity /\ Settled(c).status = "completed"
      BY <1>1 DEF Settled, Entity, Statuses
    <2> DEFINE r == [call[c] EXCEPT !.step = "save_read", !.entity = Settled(c)]
    <2>2. /\ r \in CallRecord /\ r.step = "save_read" /\ r.op = "end"
          /\ r.trip = t /\ r.entity = Settled(c)
      BY <1>2, <2>1 DEF CallRecord, Steps
    <2>3. call' = [call EXCEPT ![c] = r]
      BY DEF SettleTrip, IInv, TypeOK
    <2> HIDE DEF r
    <2> QED
      BY <2>1, <2>2, <2>3
  <1>5. TablesGrow
    BY <1>3 DEF TablesGrow, HasPoint
  <1>6. RecordOK(rec)' /\ ~ Boarding(rec)
    <2>1. HasPoint(rec.trip, "end")'
      BY <1>2, <1>3, <1>4 DEF HasPoint
    <2> QED
      BY <1>1, <1>2, <1>3, <1>4, <2>1 DEF RecordOK, Boarding, Recording, Saving
  <1>7. CallsOK' /\ call' \in [Calls -> CallRecord]
    <2>1. CallsOK /\ TypeOK /\ rec.trip = call[c].trip
          /\ \A s \in Trips : trip[s].status = "none" /\ trip'[s].status # "none" => s = call[c].trip
      BY <1>3, <1>4 DEF IInv
    <2> QED
      BY ONLY <1>4, <1>5, <1>6, <2>1, c \in Calls, CallsKept
  <1>8. history' \in [Users -> Seq(HistoryRow)]
    <2>1. [amount |-> - a, ref |-> t] \in HistoryRow /\ [amount |-> b, ref |-> t] \in HistoryRow
      BY <1>1 DEF HistoryRow
    <2>2. history'[p] \in Seq(HistoryRow)
      <3>1. history'[p] = Append(history[p], [amount |-> - a, ref |-> t])
        BY <1>1 DEF Committed
      <3>2. history[p] \in Seq(HistoryRow)
        BY <1>1 DEF IInv, TypeOK
      <3> QED
        BY ONLY <2>1, <3>1, <3>2, RowAppended
    <2>3. history'[d] \in Seq(HistoryRow)
      <3>1. CASE history'[d] = history[d]
        BY <1>1, <3>1 DEF IInv, TypeOK
      <3>2. CASE history'[d] = Append(history[d], [amount |-> b, ref |-> t])
        <4>1. history[d] \in Seq(HistoryRow)
          BY <1>1 DEF IInv, TypeOK
        <4> QED
          BY ONLY <2>1, <3>2, <4>1, RowAppended
      <3> QED
        BY <1>1, <3>1, <3>2 DEF Committed
    <2>4. \A u \in Users : history'[u] \in Seq(HistoryRow)
      BY <1>1, <2>2, <2>3 DEF Committed, IInv, TypeOK
    <2>5. history' = [u \in Users |-> history'[u]]
      BY DEF SettleTrip
    <2> QED
      BY <2>4, <2>5
  <1>9. TypeOK'
    BY <1>1, <1>3, <1>7, <1>8 DEF IInv, TypeOK, Committed, Silent
  <1>10. TripsOK'
    BY <1>3 DEF IInv, TripsOK
  <1>11. /\ \A s \in Trips : s # t => RowsOf(p, s)' = RowsOf(p, s)
         /\ RowsOf(p, t)' = {Len(history[p]) + 1}
         /\ history'[p][Len(history[p]) + 1].amount = - a
         /\ \A i \in DOMAIN history[p] : history'[p][i] = history[p][i]
    <2>1. history'[p] = Append(history[p], [amount |-> - a, ref |-> t])
      BY <1>1 DEF Committed
    <2>2. TypeOK /\ p \in Users /\ - a \in Int /\ t \in Trips \cup {NoTrip}
      BY <1>1 DEF IInv
    <2>3. /\ \A s \in Trips : s # t => RowsOf(p, s)' = RowsOf(p, s)
          /\ RowsOf(p, t)' = RowsOf(p, t) \cup {Len(history[p]) + 1}
          /\ history'[p][Len(history[p]) + 1].amount = - a
          /\ \A i \in DOMAIN history[p] : history'[p][i] = history[p][i]
      BY ONLY <2>1, <2>2, RowsAfter
    <2>4. RowsOf(p, t) = {}
      BY <1>1 DEF PaidTo, RowsOf
    <2> QED
      BY <2>3, <2>4
  <1>12. RowsOf(d, t) = {}
    <2>1. RowsOf(p, t) = {}
      BY <1>1 DEF PaidTo, RowsOf
    <2>2. \A i \in RowsOf(d, t) : d # p => \E j \in RowsOf(p, t) : TRUE
      BY <1>1 DEF IInv, TripIsPaidOnce
    <2> QED
      BY <1>1, <2>1, <2>2
  <1>13. /\ \A s \in Trips : s # t => RowsOf(d, s)' = RowsOf(d, s)
         /\ \A i \in DOMAIN history[d] : history'[d][i] = history[d][i]
         /\ \/ RowsOf(d, t)' = {}
            \/ /\ RowsOf(d, t)' = {Len(history[d]) + 1}
               /\ history'[d][Len(history[d]) + 1].amount = b
               /\ b > 0
    <2>1. CASE history'[d] = history[d]
      BY <1>12, <2>1 DEF RowsOf
    <2>2. CASE b > 0 /\ history'[d] = Append(history[d], [amount |-> b, ref |-> t])
      <3>1. TypeOK /\ d \in Users /\ b \in Int /\ t \in Trips \cup {NoTrip}
        BY <1>1 DEF IInv
      <3>2. /\ \A s \in Trips : s # t => RowsOf(d, s)' = RowsOf(d, s)
            /\ RowsOf(d, t)' = RowsOf(d, t) \cup {Len(history[d]) + 1}
            /\ history'[d][Len(history[d]) + 1].amount = b
            /\ \A i \in DOMAIN history[d] : history'[d][i] = history[d][i]
        BY ONLY <2>2, <3>1, RowsAfter
      <3> QED
        BY <1>12, <2>2, <3>2
    <2> QED
      BY <1>1, <2>1, <2>2 DEF Committed
  <1>14. \A u \in Users \ {p, d}, s \in Trips : RowsOf(u, s)' = RowsOf(u, s) /\ history'[u] = history[u]
    BY <1>1 DEF Committed, RowsOf
  <1>15. TripIsPaidOnce'
    <2> SUFFICES ASSUME NEW s \in Trips, NEW u \in Users, NEW i \in RowsOf(u, s)',
                        NEW payer, payer = trip[s].passenger
                 PROVE  /\ RowsOf(u, s)' = {i}
                        /\ u \in {payer, trip[s].driver}
                        /\ u = payer => history'[u][i].amount <= 0
                        /\ u # payer =>
                             /\ history'[u][i].amount > 0
                             /\ \E j \in RowsOf(payer, s)' :
                                  history'[u][i].amount <= - history'[payer][j].amount
      BY <1>3 DEF TripIsPaidOnce, RowsOf
    <2>1. CASE s = t
      <3>1. payer = p /\ trip[s].driver = d
        BY <2>1
      <3>2. CASE u = p
        <4>1. i \in RowsOf(p, t)' /\ RowsOf(p, t)' = {Len(history[p]) + 1}
          BY ONLY <1>11, <2>1, <3>2, i \in RowsOf(u, s)'
        <4>2. RowsOf(p, t)' = {i} /\ history'[p][i].amount = - a
          BY ONLY <1>11, <4>1
        <4>3. - a <= 0
          BY <1>1
        <4> QED
          BY ONLY <2>1, <3>1, <3>2, <4>2, <4>3
      <3>3. CASE u = d
        <4>0. i \in RowsOf(d, t)'
          BY ONLY <2>1, <3>3, i \in RowsOf(u, s)'
        <4>1. /\ RowsOf(d, t)' = {i}
              /\ history'[d][i].amount = b /\ b > 0
          BY ONLY <1>13, <4>0
        <4>2. Len(history[p]) + 1 \in RowsOf(p, t)'
          BY <1>11
        <4>3. b <= - history'[p][Len(history[p]) + 1].amount
          <5>1. a \in Nat /\ b \in Nat /\ b <= a
            BY <1>1
          <5>2. \A x : x = - a => b <= - x
            BY ONLY <5>1
          <5> QED
            BY ONLY <1>11, <5>2
        <4> QED
          BY <1>1, <2>1, <3>1, <3>3, <4>1, <4>2, <4>3
      <3>4. CASE u \notin {p, d}
        <4>1. i \in RowsOf(u, t)
          BY <1>14, <2>1, <3>4
        <4> QED
          BY <1>1, <3>4, <4>1 DEF IInv, TripIsPaidOnce
      <3> QED
        BY <3>2, <3>3, <3>4
    <2>2. CASE s # t
      <3>1. ASSUME NEW v \in Users
            PROVE  /\ RowsOf(v, s)' = RowsOf(v, s)
                   /\ \A j \in RowsOf(v, s) : history'[v][j] = history[v][j]
        <4>1. RowsOf(v, s) \subseteq DOMAIN history[v]
          BY DEF RowsOf
        <4>2. CASE v = p
          BY ONLY <1>11, <2>2, <4>1, <4>2, s \in Trips
        <4>3. CASE v = d
          BY ONLY <1>13, <2>2, <4>1, <4>3, s \in Trips
        <4>4. CASE v \in Users \ {p, d}
          BY ONLY <1>14, <4>4, s \in Trips
        <4> QED
          BY <4>2, <4>3, <4>4
      <3>2. i \in RowsOf(u, s) /\ history'[u][i] = history[u][i] /\ RowsOf(u, s)' = RowsOf(u, s)
        BY <3>1
      <3>3. /\ RowsOf(u, s) = {i}
            /\ u \in {payer, trip[s].driver}
            /\ u = payer => history[u][i].amount <= 0
            /\ u # payer =>
                 /\ history[u][i].amount > 0
                 /\ \E j \in RowsOf(payer, s) : history[u][i].amount <= - history[payer][j].amount
        BY <3>2 DEF IInv, TripIsPaidOnce
      <3>4. payer \in Users
        BY <3>3 DEF IInv, TripsOK
      <3>5. /\ RowsOf(payer, s)' = RowsOf(payer, s)
            /\ \A j \in RowsOf(payer, s) : history'[payer][j] = history[payer][j]
        BY <3>1, <3>4
      <3> QED
        BY <3>2, <3>3, <3>5
    <2> QED
      BY <2>1, <2>2
  <1>16. CompletionIsBacked'
    <2> SUFFICES ASSUME NEW s \in Trips,
                        trip'[s].status = "completed" \/ (\E u \in Users : PaidTo(u, s)')
                 PROVE  s \in ripe /\ HasPoint(s, "end") /\ billed[s] # "none"
      BY <1>3 DEF CompletionIsBacked, HasPoint
    <2>1. CASE s = t
      BY <1>2, <2>1
    <2>2. CASE s # t
      <3>1. \A u \in Users : PaidTo(u, s)' => PaidTo(u, s)
        <4>1. ASSUME NEW u \in Users PROVE RowsOf(u, s)' = RowsOf(u, s)
          <5>1. CASE u = p
            BY ONLY <1>11, <2>2, <5>1, s \in Trips
          <5>2. CASE u = d
            BY ONLY <1>13, <2>2, <5>2, s \in Trips
          <5>3. CASE u \in Users \ {p, d}
            BY ONLY <1>14, <5>3, s \in Trips
          <5> QED
            BY <5>1, <5>2, <5>3
        <4>2. \A u \in Users : PaidTo(u, s)' => \E i : i \in RowsOf(u, s)'
          BY DEF PaidTo, RowsOf
        <4>3. \A u \in Users : \A i \in RowsOf(u, s) : PaidTo(u, s)
          BY DEF PaidTo, RowsOf
        <4>4. ASSUME NEW u \in Users, PaidTo(u, s)' PROVE PaidTo(u, s)
          <5>1. PICK i : i \in RowsOf(u, s)'
            BY ONLY u \in Users, <4>4, <4>2
          <5>2. i \in RowsOf(u, s)
            BY ONLY u \in Users, <4>1, <5>1
          <5> QED
            BY ONLY u \in Users, <4>3, <5>2
        <4> QED
          BY ONLY <4>4
      <3> QED
        BY <1>3, <3>1 DEF IInv, CompletionIsBacked
    <2> QED
      BY <2>1, <2>2
  <1> QED
    BY <1>7, <1>9, <1>10, <1>15, <1>16 DEF IInv

-----------------------------------------------------------------------------
LEMMA StepIInv == IInv /\ [Next]_vars => IInv'
  <1> SUFFICES ASSUME IInv, [Next]_vars PROVE IInv'
    OBVIOUS
  <1>1. ASSUME NEW c \in Calls, Arrive(c) PROVE IInv'
    <2>1. ASSUME NEW p \in Users, NEW d \in Users, NEW t \in Trips, PickupCheck(c, p, d, t)
          PROVE  IInv'
      BY <2>1, PickupCheckIInv
    <2>2. ASSUME NEW p \in Users, NEW t \in Trips, RequestDropoff(c, p, t) PROVE IInv'
      <3>1. /\ Active(t) /\ UNCHANGED tables /\ Silent
            /\ Start(c, Handler("count", "dropoff", p, Nobody, t, Loaded))
        BY <2>2 DEF RequestDropoff, tables, money
      <3> QED
        BY <3>1, RecordingBegins
    <2>3. ASSUME NEW d \in Users, NEW t \in Trips, CompleteByDriver(c, d, t) PROVE IInv'
      <3>1. /\ Active(t) /\ t \in ripe /\ UNCHANGED tables /\ Silent
            /\ Start(c, Handler("count", "end", d, Nobody, t, Loaded))
        BY <2>3 DEF CompleteByDriver, tables, money
      <3> QED
        BY <3>1, RecordingBegins
    <2>4. ASSUME NEW p \in Users, TrackFind(c, p) PROVE IInv'
      <3>1. PICK t \in Trips :
              /\ Active(t)
              /\ Start(c, Handler("count", "track", p, Nobody, t, Loaded))
        BY <2>4 DEF TrackFind, ActiveTripsOf
      <3>2. UNCHANGED tables /\ Silent
        BY <2>4 DEF TrackFind, tables, money
      <3> QED
        BY <3>1, <3>2, RecordingBegins
    <2>5. ASSUME NEW t \in Trips, AdminCancel(c, t) PROVE IInv'
      BY <2>5, AdminCancelIInv
    <2> QED
      BY <1>1, <2>1, <2>2, <2>3, <2>4, <2>5 DEF Arrive
  <1>2. ASSUME NEW c \in Calls, Continue(c) PROVE IInv'
    BY <1>2, PickupDriverIInv, PickupInsertIInv, PickupPointIInv, PickupWaitIInv,
       CountPointsIInv, InsertPointIInv, PriceTripIInv, SettleTripIInv, SettleFailsIInv,
       SaveReadIInv, SaveWriteIInv, RecordAuditIInv DEF Continue
  <1>3. ASSUME NEW c \in Calls, Fail(c) PROVE IInv'
    BY <1>3, FinishOnly DEF Fail, tables, money
  <1>4. ASSUME NEW u \in Users, PassengerWait(u) PROVE IInv'
    <2>1. /\ waiting' \subseteq Users /\ bus' \subseteq Event
          /\ UNCHANGED <<trip, points, billed, ripe, audited, balance, history, call>>
      BY <1>4 DEF PassengerWait, IInv, TypeOK, Silent, money
    <2> QED
      BY <2>1 DEF IInv, TypeOK, TripsOK, CallsOK, RecordOK, Boarding, TripIsPaidOnce,
         CompletionIsBacked, RowsOf, PaidTo, HasPoint
  <1>5. ASSUME NEW t \in Trips, DelayPasses(t) PROVE IInv'
    <2>1. /\ ripe' = ripe \cup {t} /\ bus' \subseteq Event
          /\ UNCHANGED <<trip, points, billed, waiting, audited, balance, history, call>>
      BY <1>5 DEF DelayPasses, Silent, money
    <2>2. TypeOK'
      BY <2>1 DEF IInv, TypeOK
    <2>3. TripsOK' /\ TripIsPaidOnce' /\ CompletionIsBacked'
      BY <2>1 DEF IInv, TripsOK, TripIsPaidOnce, CompletionIsBacked, RowsOf, PaidTo, HasPoint
    <2>4. CallsOK'
      BY <2>1 DEF IInv, CallsOK, RecordOK, Boarding, HasPoint
    <2> QED
      BY <2>2, <2>3, <2>4 DEF IInv
  <1>6. CASE Restart
    <2>1. /\ call' = [c \in Calls |-> Idle] /\ UNCHANGED tables /\ Silent
      BY <1>6 DEF Restart, tables, money
    <2>2. TypeOK'
      BY <2>1, IdleIsARecord DEF IInv, TypeOK, tables, Silent
    <2>3. \A c \in Calls : RecordOK(call[c])'
      BY <2>1, IdleIsOK, CarriedRecord
    <2>4. CallsOK'
      BY <2>1, <2>3, IdleIsOK DEF CallsOK, Boarding
    <2> QED
      BY <2>1, <2>2, <2>4, TablesKept DEF IInv
  <1>7. CASE UNCHANGED vars
    BY <1>7 DEF vars, IInv, TypeOK, TripsOK, CallsOK, RecordOK, Boarding, TripIsPaidOnce,
       CompletionIsBacked, RowsOf, PaidTo, HasPoint
  <1> QED
    BY <1>1, <1>2, <1>3, <1>4, <1>5, <1>6, <1>7 DEF Next

THEOREM Invariance == Spec => []IInv
  BY InitIInv, StepIInv, PTL DEF Spec

\* No balance leaves 0..Int4Max, and every row and every handler is well formed
\* (all of TripsService, settleTrip, AdminTripsService.cancel).
THEOREM TypeCorrect == Spec => []TypeOK
  BY Invariance, PTL DEF IInv

\* The rows of a trip are one debit of its passenger and at most one credit of
\* its driver, of no more than the debit, whatever overlaps, fails or restarts
\* (finalizeTrip, settleTrip, cancel).
THEOREM PaidOnce == Spec => []TripIsPaidOnce
  BY Invariance, PTL DEF IInv

\* No trip is completed or paid before its minimum delay and without its end
\* point and a priced route (ensureMinDuration, finalizeTrip).
THEOREM NoFakeRide == Spec => []CompletionIsBacked
  BY Invariance, PTL DEF IInv

-----------------------------------------------------------------------------
(* The order of the points.                                                *)
\* A point's seq is below its place in the table, and so is that of a point
\* about to be inserted.
PointsOrdered ==
  /\ \A t \in Trips : \A i \in DOMAIN points[t] : points[t][i].seq < i
  /\ \A c \in Calls : At(c, "insert") => call[c].count <= Len(points[call[c].trip])

LEMMA AppendedPoint ==
  ASSUME TypeOK, PointsOrdered, NEW t \in Trips, NEW n \in Nat, NEW k \in Kinds,
         AddPoint(t, n, k), n <= Len(points[t])
  PROVE  /\ \A s \in Trips : \A i \in DOMAIN points'[s] : points'[s][i].seq < i
         /\ \A s \in Trips : /\ Len(points[s]) \in Nat /\ Len(points'[s]) \in Nat
                             /\ Len(points[s]) <= Len(points'[s])
  <1> DEFINE new == [seq |-> n, kind |-> k]
  <1>1. new \in Point /\ new.seq = n
    BY DEF Point
  <1>2. points' = [points EXCEPT ![t] = Append(points[t], new)]
    BY DEF AddPoint
  <1> HIDE DEF new
  <1>3. \A s \in Trips : points[s] \in Seq(Point)
    BY DEF TypeOK
  <1>4. /\ Append(points[t], new) \in Seq(Point)
        /\ Len(Append(points[t], new)) = Len(points[t]) + 1
        /\ \A i \in 1 .. Len(points[t]) : Append(points[t], new)[i] = points[t][i]
        /\ Append(points[t], new)[Len(points[t]) + 1] = new
    BY <1>1, <1>3, AppendProperties
  <1>5. points'[t] = Append(points[t], new) /\ \A s \in Trips \ {t} : points'[s] = points[s]
    BY <1>2 DEF TypeOK
  <1>6. /\ Len(points[t]) \in Nat
        /\ DOMAIN points[t] = 1 .. Len(points[t])
        /\ DOMAIN points'[t] = 1 .. (Len(points[t]) + 1)
    BY <1>3, <1>4, <1>5
  <1>7. \A i \in DOMAIN points'[t] : points'[t][i].seq < i
    <2> SUFFICES ASSUME NEW i \in DOMAIN points'[t] PROVE points'[t][i].seq < i
      OBVIOUS
    <2>1. CASE i \in DOMAIN points[t]
      BY <1>4, <1>5, <1>6, <2>1 DEF PointsOrdered
    <2>2. CASE i = Len(points[t]) + 1
      <3>1. points'[t][i] = new
        BY <1>4, <1>5, <2>2
      <3> QED
        BY <1>1, <1>6, <2>2, <3>1
    <2> QED
      BY <1>6, <2>1, <2>2
  <1>8. \A s \in Trips : Len(points[s]) \in Nat
    BY <1>3
  <1>9. Len(points'[t]) = Len(points[t]) + 1
    BY <1>4, <1>5
  <1>10. \A s \in Trips : \A i \in DOMAIN points'[s] : points'[s][i].seq < i
    <2>1. \A s \in Trips : \A i \in DOMAIN points[s] : points[s][i].seq < i
      BY DEF PointsOrdered
    <2> QED
      BY ONLY <1>5, <1>7, <2>1
  <1>11. ASSUME NEW s \in Trips
         PROVE  /\ Len(points[s]) \in Nat /\ Len(points'[s]) \in Nat
                /\ Len(points[s]) <= Len(points'[s])
    <2>1. CASE s = t
      BY ONLY <1>8, <1>9, <1>11, <2>1
    <2>2. CASE s # t
      BY ONLY <1>5, <1>8, <1>11, <2>2
    <2> QED
      BY <2>1, <2>2
  <1> QED
    BY <1>10, <1>11

LEMMA StepPointsOrdered == IInv /\ PointsOrdered /\ [Next]_vars => PointsOrdered'
  <1> SUFFICES ASSUME IInv, PointsOrdered, [Next]_vars PROVE PointsOrdered'
    OBVIOUS
  <1>1. ASSUME NEW c \in Calls, NEW t \in Trips, NEW n \in Nat, NEW k \in Kinds,
               AddPoint(t, n, k), n <= Len(points[t]),
               \A e \in Calls : At(e, "insert")' => call'[e] = call[e]
        PROVE  PointsOrdered'
    <2>1. /\ \A s \in Trips : \A i \in DOMAIN points'[s] : points'[s][i].seq < i
          /\ \A s \in Trips : /\ Len(points[s]) \in Nat /\ Len(points'[s]) \in Nat
                              /\ Len(points[s]) <= Len(points'[s])
      BY <1>1, AppendedPoint DEF IInv
    <2>2. ASSUME NEW e \in Calls, call'[e].step = "insert"
          PROVE  call'[e].count <= Len(points'[call'[e].trip])
      <3>1. /\ call'[e] = call[e] /\ call[e].trip \in Trips
            /\ call[e].count \in Nat
            /\ call[e].count <= Len(points[call[e].trip])
        BY <1>1, <2>2 DEF At, IInv, CallsOK, RecordOK, TypeOK, CallRecord, PointsOrdered
      <3> QED
        BY <2>1, <3>1
    <2> QED
      BY <2>1, <2>2 DEF PointsOrdered, At
  <1>2. ASSUME UNCHANGED points, \A e \in Calls : At(e, "insert")' => call'[e] = call[e]
        PROVE  PointsOrdered'
    BY <1>2 DEF PointsOrdered, At
  <1>3. ASSUME NEW c \in Calls, NEW step \in Steps \ {"insert"}, Goto(c, step)
        PROVE  \A e \in Calls : At(e, "insert")' => call'[e] = call[e]
    <2>1. /\ call'[c].step = step
          /\ \A e \in Calls \ {c} : call'[e] = call[e]
      BY <1>3 DEF Goto, IInv, TypeOK, CallRecord
    <2> QED
      BY <2>1 DEF At
  <1>4. ASSUME NEW c \in Calls, NEW rec, rec.step # "insert", call' = [call EXCEPT ![c] = rec]
        PROVE  \A e \in Calls : At(e, "insert")' => call'[e] = call[e]
    BY <1>4 DEF At, IInv, TypeOK
  <1>5. ASSUME NEW c \in Calls, Finish(c)
        PROVE  \A e \in Calls : At(e, "insert")' => call'[e] = call[e]
    <2>1. Idle.step # "insert"
      BY DEF Idle, Handler
    <2> QED
      BY <1>4, <1>5, <2>1 DEF Finish
  <1>6. ASSUME NEW c \in Calls, Arrive(c) PROVE PointsOrdered'
    <2>1. UNCHANGED points
      BY <1>6 DEF Arrive, PickupCheck, RequestDropoff, CompleteByDriver, TrackFind, AdminCancel
    <2>2. \E step \in Steps \ {"insert"} : \E op, u, d, t, entity :
            Start(c, Handler(step, op, u, d, t, entity))
      <3>1. {"pickup_driver", "count", "save_read"} \subseteq Steps \ {"insert"}
        BY DEF Steps
      <3>2. CASE \E u \in Users, t \in Trips, d \in Users : PickupCheck(c, u, d, t)
        BY <3>1, <3>2 DEF PickupCheck
      <3>3. CASE \E u \in Users, t \in Trips : RequestDropoff(c, u, t) \/ CompleteByDriver(c, u, t)
        BY <3>1, <3>3 DEF RequestDropoff, CompleteByDriver
      <3>4. CASE \E u \in Users : TrackFind(c, u)
        BY <3>1, <3>4 DEF TrackFind
      <3>5. CASE \E t \in Trips : AdminCancel(c, t)
        BY <3>1, <3>5 DEF AdminCancel
      <3> QED
        BY <1>6, <3>2, <3>3, <3>4, <3>5 DEF Arrive
    <2>3. \A step, op, u, d, t, entity : Handler(step, op, u, d, t, entity).step = step
      BY DEF Handler
    <2>4. \E rec : rec.step # "insert" /\ call' = [call EXCEPT ![c] = rec]
      <3>1. PICK step \in Steps \ {"insert"} : \E op, u, d, t, entity :
              Start(c, Handler(step, op, u, d, t, entity))
        BY <2>2
      <3>2. PICK op, u, d, t, entity : Start(c, Handler(step, op, u, d, t, entity))
        BY <3>1
      <3> DEFINE rec == Handler(step, op, u, d, t, entity)
      <3>3. rec.step # "insert"
        BY <2>3
      <3>4. call' = [call EXCEPT ![c] = rec]
        BY <3>2 DEF Start
      <3> QED
        BY <3>3, <3>4
    <2> QED
      BY <1>2, <1>4, <2>1, <2>4
  <1>7. ASSUME NEW c \in Calls, Continue(c) PROVE PointsOrdered'
    <2>1. CASE PickupDriver(c)
      BY <1>2, <1>3, <1>5, <2>1 DEF PickupDriver, Goto, Finish, At, IInv, TypeOK, CallRecord, Steps
    <2>2. CASE PickupInsert(c)
      BY <1>2, <1>3, <2>2 DEF PickupInsert, Steps
    <2>3. CASE PickupPoint(c)
      <3>1. call[c].trip \in Trips /\ AddPoint(call[c].trip, 0, "start") /\ "start" \in Kinds
        BY <2>3 DEF PickupPoint, IInv, CallsOK, RecordOK, At, Kinds
      <3>2. 0 <= Len(points[call[c].trip])
        BY <3>1 DEF IInv, TypeOK
      <3>3. \A e \in Calls : At(e, "insert")' => call'[e] = call[e]
        BY <1>3, <2>3 DEF PickupPoint, Steps
      <3> QED
        BY <1>1, <3>1, <3>2, <3>3
    <2>4. CASE PickupWait(c)
      BY <1>2, <1>5, <2>4 DEF PickupWait
    <2>5. CASE CountPoints(c)
      <3>1. /\ call[c] \in CallRecord /\ points' = points
            /\ call' = [call EXCEPT ![c].step = "insert", ![c].count = Len(points[call[c].trip])]
        BY <2>5 DEF CountPoints, IInv, TypeOK
      <3>2. /\ call'[c].count = Len(points[call[c].trip]) /\ call'[c].trip = call[c].trip
            /\ \A e \in Calls \ {c} : call'[e] = call[e]
        BY <3>1 DEF IInv, TypeOK, CallRecord
      <3>3. call[c].trip \in Trips
        BY <2>5 DEF CountPoints, IInv, CallsOK, RecordOK, At
      <3>4. Len(points[call[c].trip]) \in Nat
        BY <3>3 DEF IInv, TypeOK
      <3>5. ASSUME NEW e \in Calls, call'[e].step = "insert"
            PROVE  call'[e].count <= Len(points'[call'[e].trip])
        <4>1. CASE e = c
          BY <3>1, <3>2, <3>4, <4>1
        <4>2. CASE e # c
          <5>1. call'[e] = call[e] /\ call[e].step = "insert"
            BY <3>2, <3>5, <4>2
          <5>2. call[e].count <= Len(points[call[e].trip])
            BY <5>1 DEF PointsOrdered, At
          <5> QED
            BY <3>1, <5>1, <5>2
        <4> QED
          BY <4>1, <4>2
      <3>6. \A s \in Trips : \A i \in DOMAIN points'[s] : points'[s][i].seq < i
        BY <3>1 DEF PointsOrdered
      <3> QED
        BY <3>5, <3>6 DEF PointsOrdered, At
    <2>6. CASE InsertPoint(c)
      <3> SUFFICES ASSUME NEW t, NEW op, NEW n, t = call[c].trip, op = call[c].op, n = call[c].count
                   PROVE  PointsOrdered'
        OBVIOUS
      <3>1. /\ t \in Trips /\ op \in Kinds /\ n \in Nat /\ n <= Len(points[t])
            /\ AddPoint(t, n, op)
        BY <2>6 DEF InsertPoint, IInv, CallsOK, RecordOK, At, Recording, Kinds, TypeOK, CallRecord,
           PointsOrdered
      <3>2. \A e \in Calls : At(e, "insert")' => call'[e] = call[e]
        <4>1. Goto(c, "price") \/ Finish(c)
          BY <2>6 DEF InsertPoint
        <4> QED
          BY <1>3, <1>5, <4>1 DEF Steps
      <3> QED
        BY <1>1, <3>1, <3>2
    <2>7. CASE PriceTrip(c)
      <3>1. call'[c].step = "settle" /\ \A e \in Calls \ {c} : call'[e] = call[e]
        BY <2>7 DEF PriceTrip, IInv, TypeOK, CallRecord
      <3> QED
        BY <1>2, <2>7, <3>1 DEF PriceTrip, At
    <2>8. CASE SettleTrip(c)
      <3>1. call'[c].step = "save_read" /\ \A e \in Calls \ {c} : call'[e] = call[e]
        BY <2>8 DEF SettleTrip, IInv, TypeOK, CallRecord
      <3> QED
        BY <1>2, <2>8, <3>1 DEF SettleTrip, At
    <2>9. CASE SettleFails(c)
      BY <1>2, <1>3, <2>9 DEF SettleFails, Steps
    <2>10. CASE SaveRead(c)
      <3>1. call'[c].step = "save_write" /\ \A e \in Calls \ {c} : call'[e] = call[e]
        BY <2>10 DEF SaveRead, IInv, TypeOK, CallRecord
      <3> QED
        BY <1>2, <2>10, <3>1 DEF SaveRead, At
    <2>11. CASE SaveWrite(c)
      <3>1. (Goto(c, "audit") \/ Finish(c)) /\ UNCHANGED points
        BY <2>11 DEF SaveWrite
      <3> QED
        BY <1>2, <1>3, <1>5, <3>1 DEF Steps
    <2>12. CASE RecordAudit(c)
      BY <1>2, <1>5, <2>12 DEF RecordAudit
    <2> QED
      BY <1>7, <2>1, <2>2, <2>3, <2>4, <2>5, <2>6, <2>7, <2>8, <2>9, <2>10, <2>11, <2>12 DEF Continue
  <1>8. ASSUME NEW c \in Calls, Fail(c) PROVE PointsOrdered'
    BY <1>2, <1>5, <1>8 DEF Fail
  <1>9. CASE (\E u \in Users : PassengerWait(u)) \/ (\E t \in Trips : DelayPasses(t)) \/ UNCHANGED vars
    BY <1>2, <1>9 DEF PassengerWait, DelayPasses, vars
  <1>10. CASE Restart
    BY <1>2, <1>10 DEF Restart, At, Idle, Handler
  <1> QED
    BY <1>6, <1>7, <1>8, <1>9, <1>10 DEF Next

\* Only countTripPoints takes a handler from "count" to "insert".
LEMMA OnlyCountingCounts ==
  ASSUME IInv, [Next]_vars, NEW c \in Calls, At(c, "count"), call'[c].step = "insert"
  PROVE  CountPoints(c)
  <1>1. call \in [Calls -> CallRecord] /\ call[c].step = "count" /\ Idle.step = "idle"
    BY DEF IInv, TypeOK, At, Idle, Handler
  <1>2. ASSUME NEW e \in Calls, NEW rec, call' = [call EXCEPT ![e] = rec],
               e = c => rec.step # "insert"
        PROVE  FALSE
    BY <1>1, <1>2
  <1>3. ASSUME NEW e \in Calls, Finish(e) PROVE FALSE
    BY <1>1, <1>2, <1>3 DEF Finish
  <1>4. ASSUME NEW e \in Calls, NEW rec, e # c, call' = [call EXCEPT ![e] = rec] PROVE FALSE
    BY <1>1, <1>4
  <1>5. ASSUME NEW e \in Calls, NEW step, e # c, Goto(e, step) PROVE FALSE
    BY <1>1, <1>5 DEF Goto
  <1>6. ASSUME NEW e \in Calls, NEW rec, Start(e, rec) PROVE FALSE
    <2>1. e # c
      BY <1>1, <1>6 DEF Start
    <2> QED
      BY <1>4, <1>6, <2>1 DEF Start
  <1>7. ASSUME NEW e \in Calls, Arrive(e) PROVE FALSE
    BY <1>6, <1>7 DEF Arrive, PickupCheck, RequestDropoff, CompleteByDriver, TrackFind, AdminCancel
  <1>8. ASSUME NEW e \in Calls, Continue(e), ~ CountPoints(c) PROVE FALSE
    <2>1. e # c
      BY <1>1, <1>8 DEF Continue, PickupDriver, PickupInsert, PickupPoint, PickupWait,
         InsertPoint, PriceTrip, SettleTrip, SettleFails, SaveRead, SaveWrite, RecordAudit, At
    <2>2. \/ \E rec : call' = [call EXCEPT ![e] = rec]
          \/ Finish(e) \/ \E step : Goto(e, step)
      <3>1. CASE CountPoints(e) \/ PriceTrip(e) \/ SettleTrip(e) \/ SaveRead(e)
        BY <3>1 DEF CountPoints, PriceTrip, SettleTrip, SaveRead
      <3>2. CASE PickupDriver(e) \/ PickupInsert(e) \/ PickupPoint(e) \/ PickupWait(e)
        BY <3>2 DEF PickupDriver, PickupInsert, PickupPoint, PickupWait
      <3>3. CASE InsertPoint(e) \/ SettleFails(e) \/ SaveWrite(e) \/ RecordAudit(e)
        BY <3>3 DEF InsertPoint, SettleFails, SaveWrite, RecordAudit
      <3> QED
        BY <1>8, <3>1, <3>2, <3>3 DEF Continue
    <2> QED
      BY <1>3, <1>4, <1>5, <2>1, <2>2
  <1>9. CASE (\E u \in Users : PassengerWait(u)) \/ (\E t \in Trips : DelayPasses(t)) \/ UNCHANGED vars
    BY <1>1, <1>9 DEF PassengerWait, DelayPasses, vars
  <1>10. CASE Restart
    BY <1>1, <1>10 DEF Restart
  <1>11. ASSUME NEW e \in Calls, Fail(e) PROVE FALSE
    BY <1>3, <1>11 DEF Fail
  <1> QED
    BY <1>7, <1>8, <1>9, <1>10, <1>11 DEF Next

\* A point never sorts before one stored when its recorder counted
\* (countTripPoints, recordTripPoint).
THEOREM PointsKeepOrder == Spec => PointsKeepTheirOrder
  <1>1. Init => PointsOrdered
    BY DEF Init, PointsOrdered, At, Idle, Handler
  <1>2. IInv /\ PointsOrdered /\ [Next]_vars =>
          [ \A c \in Calls : At(c, "count") /\ call'[c].step = "insert" =>
              \A i \in DOMAIN points[call[c].trip] :
                points[call[c].trip][i].seq < call'[c].count ]_vars
    <2> SUFFICES ASSUME IInv, PointsOrdered, [Next]_vars,
                        NEW c \in Calls, At(c, "count"), call'[c].step = "insert",
                        NEW i \in DOMAIN points[call[c].trip]
                 PROVE  points[call[c].trip][i].seq < call'[c].count
      OBVIOUS
    <2>1. CountPoints(c)
      BY OnlyCountingCounts
    <2>2. call'[c].count = Len(points[call[c].trip]) /\ call[c].trip \in Trips
      BY <2>1 DEF CountPoints, IInv, TypeOK, CallRecord, CallsOK, RecordOK, At
    <2>3. points[call[c].trip] \in Seq(Point)
      BY <2>2 DEF IInv, TypeOK
    <2>4. /\ i \in 1 .. Len(points[call[c].trip])
          /\ Len(points[call[c].trip]) \in Nat
      BY <2>3
    <2>5. points[call[c].trip][i].seq \in Nat
      <3>1. points[call[c].trip][i] \in Point
        BY <2>3, <2>4
      <3> QED
        BY <3>1 DEF Point
    <2>6. points[call[c].trip][i].seq < i
      BY <2>2 DEF PointsOrdered
    <2> QED
      BY <2>2, <2>4, <2>5, <2>6
  <1> QED
    BY <1>1, <1>2, StepPointsOrdered, Invariance, PTL DEF Spec, PointsKeepTheirOrder

-----------------------------------------------------------------------------
(* The wallets and their rows implement the ledger.                        *)

LEMMA SettlementPosts ==
  ASSUME IInv, NEW c \in Calls, SettleTrip(c)
  PROVE  L!Post
  <1> SUFFICES ASSUME NEW t, NEW p, NEW d, NEW a, NEW b,
                      t = call[c].trip, p = trip[t].passenger, d = trip[t].driver,
                      a = Debited(c), b = Credited(c)
               PROVE  L!Post
    OBVIOUS
  <1>1. /\ t \in Trips /\ p \in Users /\ d \in Users /\ p # d
        /\ a \in Nat /\ b \in Nat /\ b <= a
        /\ ~ PaidTo(p, t)
        /\ Committed(p, d, t, a, b)
    BY SettlementSums
  <1>2. ~ PaidTo(d, t)
    <2> SUFFICES ASSUME NEW i \in RowsOf(d, t) PROVE FALSE
      BY DEF PaidTo, RowsOf
    <2>1. RowsOf(p, t) # {}
      BY <1>1 DEF IInv, TripIsPaidOnce
    <2> QED
      BY <1>1, <2>1 DEF PaidTo, RowsOf
  <1>3. L!Posts(p)
    <2> DEFINE row == [amount |-> - a, ref |-> t]
    <2>1. history'[p] = Append(history[p], row)
      BY <1>1 DEF Committed
    <2>2. row \in HistoryRow /\ row.ref = t /\ row.amount = - a
      BY <1>1 DEF HistoryRow
    <2> HIDE DEF row
    <2>3. /\ history'[p] # <<>>
          /\ history'[p][Len(history'[p])] = row
      <3>1. TypeOK /\ p \in Users
        BY <1>1 DEF IInv
      <3> QED
        BY ONLY <2>1, <2>2, <3>1, OneMoreRow
    <2>4. balance'[p] = balance[p] + - a
      BY <1>1 DEF Committed, IInv, TypeOK
    <2>5. ~ L!PaidTo(p, t)
      BY <1>1 DEF PaidTo, L!PaidTo
    <2> QED
      BY <2>1, <2>2, <2>3, <2>4, <2>5 DEF L!Posts
  <1>4. L!Posts(d) \/ L!Leaves(d)
    <2>1. CASE balance'[d] = balance[d] /\ history'[d] = history[d]
      BY <2>1 DEF L!Leaves
    <2>2. CASE /\ balance'[d] = balance[d] + b
               /\ history'[d] = Append(history[d], [amount |-> b, ref |-> t])
      <3> DEFINE row == [amount |-> b, ref |-> t]
      <3>1. row \in HistoryRow /\ row.ref = t /\ row.amount = b
        BY <1>1 DEF HistoryRow
      <3>2. history'[d] = Append(history[d], row)
        BY <2>2
      <3> HIDE DEF row
      <3>3. /\ history'[d] # <<>>
            /\ history'[d][Len(history'[d])] = row
        <4>1. TypeOK /\ d \in Users
          BY <1>1 DEF IInv
        <4> QED
          BY ONLY <4>1, <3>1, <3>2, OneMoreRow
      <3>4. ~ L!PaidTo(d, t)
        BY <1>2 DEF PaidTo, L!PaidTo
      <3>5. balance'[d] = balance[d] + b
        BY <2>2
      <3> QED
        BY ONLY <3>1, <3>2, <3>3, <3>4, <3>5 DEF L!Posts
    <2> QED
      BY <1>1, <2>1, <2>2 DEF Committed
  <1>5. \A u \in Users \ {p, d} : L!Leaves(u)
    BY <1>1 DEF Committed, L!Leaves
  <1> QED
    BY <1>1, <1>3, <1>4, <1>5 DEF Committed, L!Post

\* Through every interleaving, failure and restart of its handlers, a ride moves
\* money as the ledger allows: wallets and wallet_transactions implement it.
THEOREM ImplementsLedger == Spec => RefinesLedger
  <1>1. Init => L!Init
    BY DEF Init, L!Init
  <1>2. IInv /\ [Next]_vars => [L!Post]_(L!ledgerVars)
    <2> SUFFICES ASSUME IInv, [Next]_vars PROVE [L!Post]_(L!ledgerVars)
      OBVIOUS
    <2>1. CASE UNCHANGED money
      BY <2>1 DEF L!ledgerVars, money
    <2>2. CASE \E c \in Calls : SettleTrip(c)
      BY <2>2, SettlementPosts
    <2>3. ASSUME NEW c \in Calls, Arrive(c) PROVE UNCHANGED money
      BY <2>3 DEF Arrive, PickupCheck, RequestDropoff, CompleteByDriver, TrackFind, AdminCancel
    <2>4. ASSUME NEW c \in Calls, Continue(c), ~ SettleTrip(c) PROVE UNCHANGED money
      BY <2>4 DEF Continue, PickupDriver, PickupInsert, PickupPoint, PickupWait, CountPoints,
         InsertPoint, PriceTrip, SettleFails, SaveRead, SaveWrite, RecordAudit
    <2>5. CASE \/ \E c \in Calls : Fail(c)
               \/ \E u \in Users : PassengerWait(u)
               \/ \E t \in Trips : DelayPasses(t)
               \/ Restart \/ UNCHANGED vars
      <3>1. UNCHANGED money
        BY <2>5 DEF Fail, PassengerWait, DelayPasses, Restart, vars, money
      <3> QED
        BY <2>1, <3>1
    <2> QED
      BY <2>1, <2>2, <2>3, <2>4, <2>5 DEF Next
  <1> QED
    BY <1>1, <1>2, Invariance, PTL DEF Spec, RefinesLedger, L!Spec

-----------------------------------------------------------------------------
(* The screens of a ride (TripClient): the inductive invariant.            *)
\* The calls of a sequence, in whatever order.
Flying(cs) == { cs[i] : i \in DOMAIN cs }

\* Trips that have started; trips of a passenger; at most one of them.
Started(T) == \A t \in T : t[2] <= ride[t[1]].n
Of(p, T) == \A t \in T : t[1] = p
AtMostOne(T) == \E t \in Rides : T \subseteq {t}

RidesOK == \A p \in Passengers : ride[p].on => ride[p].n >= 1

TabOK(p) ==
  LET t == tab[p] IN
  /\ t.page = "trip" <=> t.viewed # {}
  /\ t.active = {} \/ AtMostOne(t.active)
  /\ t.viewed = {} \/ AtMostOne(t.viewed)
  /\ Started(t.active \cup t.viewed \cup t.awaiting) /\ Of(p, t.active \cup t.viewed \cup t.awaiting)

DeskOK ==
  /\ Started(desk.pending \cup desk.sheet)
  /\ desk.dialog # NoDialog => Started({desk.dialog.trip})

\* A call is of the page that is still there, and its answer, of a trip that exists.
AsksOK(k) ==
  /\ k.kind \in {"sheet", "complete"} <=> k.who = Driver
  /\ k.who # Driver => Of(k.who, k.about \cup k.rides)
  /\ Started(k.about \cup k.rides)
  /\ k.origin = "gone" => k.kind \in Writes
  /\ k.kind = "complete" => AtMostOne(k.about)
  /\ k.kind = "trip" => tab[k.who].page = "trip" /\ k.about = tab[k.who].viewed
  /\ k.stage = "answered" =>
       /\ k.kind = "complete" => k.about \cap Onboard = {}
       /\ k.kind = "pickup" => k.rides # {} /\ AtMostOne(k.rides)
       /\ k.kind = "active" => k.rides = {} \/ AtMostOne(k.rides)
AllAskOK == \A k \in Flying(calls) : AsksOK(k)

\* An event tells of a trip that exists; one that ended is over for good.
TellsOK(c, e) ==
  /\ Started({e.trip})
  /\ c # Driver => e.trip[1] = c
  /\ e.kind = "completed" => e.trip \notin Onboard
AllTellOK == \A c \in Clients : \A i \in DOMAIN mail[c] : TellsOK(c, mail[c][i])

\* The events that change a store: started and completed.  j is the one before i.
Moving(p, i) == i \in DOMAIN mail[p] /\ mail[p][i].kind # "dropoff_requested"
Between(p, j, i) == \E m \in DOMAIN mail[p] : j < m /\ m < i /\ Moving(p, m)
Before(p, j, i) == Moving(p, j) /\ j < i /\ ~Between(p, j, i)
IsFirst(p, i) == Moving(p, i) /\ ~Between(p, 0, i)
IsLast(p, i) == Moving(p, i) /\ ~Between(p, i, Len(mail[p]) + 1)

\* The store of a passenger, once it has heard everything, holds the ride he is in.
StoreOK(p) ==
  <<p, "store">> \notin misled =>
    /\ (\A i \in DOMAIN mail[p] : ~Moving(p, i)) => tab[p].active = RideOf(p)
    /\ \A i \in DOMAIN mail[p] : IsLast(p, i) =>
         RideOf(p) = IF mail[p][i].kind = "started" THEN {mail[p][i].trip} ELSE {}
    /\ \A i \in DOMAIN mail[p] : mail[p][i].kind = "completed" =>
         /\ \A j \in DOMAIN mail[p] : Before(p, j, i) => mail[p][j] = [kind |-> "started", trip |-> mail[p][i].trip]
         /\ IsFirst(p, i) /\ IsLast(p, i) => tab[p].active \subseteq {mail[p][i].trip}

\* The page of a trip shows how it is, or will load again.
PageLoads(p) == \E k \in Flying(calls) : k.kind = "trip" /\ k.who = p
EndComes(p) == \E i \in DOMAIN mail[p] : mail[p][i].kind = "completed" /\ {mail[p][i].trip} = tab[p].viewed
PageRight(p) == tab[p].shown = "active" <=> tab[p].viewed = RideOf(p)
PageOK(p) ==
  <<p, "page">> \notin misled /\ tab[p].page = "trip" /\ tab[p].shown # "error" =>
    PageLoads(p) \/ EndComes(p) \/ PageRight(p)

\* A request a passenger knows of has reached the driver, or will.
Requested(c, t) == \E i \in DOMAIN mail[c] : mail[c][i] = [kind |-> "dropoff_requested", trip |-> t]
RequestsOK ==
  <<Driver, "store">> \notin misled =>
    \A t \in Onboard : (t \in tab[t[1]].awaiting \/ Requested(t[1], t)) =>
      t \in desk.pending \/ Requested(Driver, t)

RideIInv ==
  /\ ClientTypeOK /\ RidesOK /\ DeskOK /\ AllAskOK /\ AllTellOK /\ RequestsOK
  /\ \A p \in Passengers : TabOK(p) /\ StoreOK(p) /\ PageOK(p)

LEMMA OneReplaced ==
  ASSUME NEW S, NEW s \in Seq(S), NEW i \in DOMAIN s, NEW e \in S, NEW t, t = [s EXCEPT ![i] = e]
  PROVE  /\ t \in Seq(S) /\ Len(t) = Len(s) /\ DOMAIN t = DOMAIN s
         /\ t[i] = e /\ \A k \in DOMAIN s \ {i} : t[k] = s[k]
OBVIOUS

\* One element appended.
LEMMA OneAppended ==
  ASSUME NEW S, NEW s \in Seq(S), NEW e \in S, NEW t, t = Append(s, e)
  PROVE  /\ t \in Seq(S) /\ Len(t) = Len(s) + 1 /\ DOMAIN t = DOMAIN s \cup {Len(s) + 1}
         /\ t[Len(s) + 1] = e /\ \A k \in DOMAIN s : t[k] = s[k]
OBVIOUS

\* Where element k was before element i was removed.
Was(i, k) == IF k < i THEN k ELSE k + 1
\* One element removed: the others keep their order.
LEMMA OneRemoved ==
  ASSUME NEW S, NEW s \in Seq(S), NEW i \in DOMAIN s, NEW t, t = RemoveAt(s, i)
  PROVE  /\ t \in Seq(S) /\ Len(t) = Len(s) - 1
         /\ \A k \in DOMAIN t : t[k] = s[Was(i, k)] /\ Was(i, k) \in DOMAIN s
         /\ \A j \in DOMAIN s \ {i} : \E k \in DOMAIN t : t[k] = s[j]
<1> DEFINE u == SubSeq(s, 1, i - 1)
           v == SubSeq(s, i + 1, Len(s))
<1>1. i \in 1..Len(s) /\ Len(s) \in Nat
  OBVIOUS
<1>2. u \in Seq(S) /\ Len(u) = i - 1 /\ \A k \in 1..(i - 1) : u[k] = s[k]
  BY <1>1
<1>3. v \in Seq(S) /\ Len(v) = Len(s) - i /\ \A k \in 1..(Len(s) - i) : v[k] = s[i + k]
  BY <1>1
<1>4. t = u \o v
  BY DEF RemoveAt
<1> HIDE DEF u, v
<1>5. t \in Seq(S) /\ Len(t) = Len(s) - 1
  BY <1>1, <1>2, <1>3, <1>4
<1>6. ASSUME NEW k \in DOMAIN t
      PROVE  /\ t[k] = s[IF k < i THEN k ELSE k + 1]
             /\ (IF k < i THEN k ELSE k + 1) \in DOMAIN s
  <2>1. k \in 1..(Len(s) - 1)
    BY <1>5
  <2>2. CASE k < i
    BY <2>1, <2>2, <1>1, <1>2, <1>3, <1>4
  <2>3. CASE ~(k < i)
    <3> DEFINE m == k - (i - 1)
    <3>1. t[k] = v[m]
      BY <2>1, <2>3, <1>1, <1>2, <1>3, <1>4
    <3>2. m \in 1..(Len(s) - i) /\ i + m = k + 1 /\ k + 1 \in 1..Len(s)
      BY <2>1, <2>3, <1>1
    <3> HIDE DEF m
    <3>3. v[m] = s[k + 1]
      BY <3>2, <1>3
    <3> QED BY <3>1, <3>2, <3>3, <2>3
  <2> QED BY <2>2, <2>3
<1>7. ASSUME NEW j \in DOMAIN s \ {i}
      PROVE  \E k \in DOMAIN t : t[k] = s[j]
  <2> DEFINE k == IF j < i THEN j ELSE j - 1
  <2>1. k \in DOMAIN t /\ (IF k < i THEN k ELSE k + 1) = j
    BY <1>1, <1>5
  <2> HIDE DEF k
  <2> QED BY <2>1, <1>6
<1> QED BY <1>5, <1>6, <1>7 DEF Was

\* One element behind a sequence, and two.
LEMMA OneBehind ==
  ASSUME NEW S, NEW s \in Seq(S), NEW e \in S, NEW t, t = s \o << e >>
  PROVE  /\ t \in Seq(S) /\ Len(t) = Len(s) + 1 /\ DOMAIN t = DOMAIN s \cup {Len(s) + 1}
         /\ t[Len(s) + 1] = e /\ \A k \in DOMAIN s : t[k] = s[k]
OBVIOUS

\* Without its head.
LEMMA TailOf ==
  ASSUME NEW S, NEW s \in Seq(S), s # << >>, NEW t, t = Tail(s)
  PROVE  /\ t \in Seq(S) /\ Len(s) >= 1 /\ Len(t) = Len(s) - 1 /\ Head(s) = s[1]
         /\ \A k \in DOMAIN t : t[k] = s[k + 1] /\ k + 1 \in DOMAIN s
         /\ \A k \in DOMAIN s \ {1} : k - 1 \in DOMAIN t /\ t[k - 1] = s[k]
OBVIOUS

\* The members of a finite set of numbers in order: each comes once.
LEMMA AllInOrder ==
  ASSUME NEW I \in SUBSET Nat, IsFiniteSet(I), NEW o \in InOrder(I)
  PROVE  /\ o \in Seq(I)
         /\ \A k, m \in DOMAIN o : o[k] = o[m] => k = m
         /\ \A i \in I : \E k \in DOMAIN o : o[k] = i
<1> DEFINE n == Cardinality(I)
<1>1. n \in Nat
  BY FS_CardinalityType
<1>2. o \in [1..n -> I] /\ \A j, k \in 1..n : j < k => o[j] < o[k]
  BY DEF InOrder
<1> HIDE DEF n
<1>3. \A k, m \in 1..n : o[k] = o[m] => k = m
  <2>1. \A k \in 1..n : o[k] \in Nat
    BY <1>2
  <2> QED BY <1>1, <1>2, <2>1
<1> DEFINE R == { o[k] : k \in 1..n }
<1>4. R \subseteq I
  BY <1>2
<1>5. ExistsBijection(1..n, R)
  <2>1. o \in Bijection(1..n, R)
    BY <1>2, <1>3 DEF Bijection, Injection, Surjection, IsInjective
  <2> QED BY <2>1 DEF ExistsBijection
<1>6. Cardinality(R) = n
  BY <1>1, <1>4, <1>5, FS_Subset, FS_CountingElements
<1>7. R = I
  BY <1>4, <1>6, FS_Subset DEF n
<1>8. \A i \in I : \E k \in 1..n : o[k] = i
  BY <1>7
<1>9. o \in Seq(I) /\ DOMAIN o = 1..n
  BY <1>1, <1>2
<1> QED BY <1>3, <1>8, <1>9

-----------------------------------------------------------------------------
(* What becomes of the calls.                                              *)
\* One more call.
LEMMA CallSent ==
  ASSUME NEW cs \in Seq(Call), NEW k \in Call, NEW ds, ds = cs \o << k >>
  PROVE  ds \in Seq(Call) /\ Flying(ds) = Flying(cs) \cup {k}
BY OneBehind DEF Flying

\* A call that is over.
LEMMA CallDone ==
  ASSUME calls \in Seq(Call), NEW i \in DOMAIN calls, NEW ds, ds = Done(i)
  PROVE  /\ ds \in Seq(Call) /\ Flying(ds) \subseteq Flying(calls)
         /\ \A k \in Flying(calls) : k \in Flying(ds) \/ k = calls[i]
<1>1. ds = RemoveAt(calls, i)
  BY DEF Done
<1>2. /\ ds \in Seq(Call)
      /\ \A j \in DOMAIN ds : ds[j] = calls[Was(i, j)] /\ Was(i, j) \in DOMAIN calls
      /\ \A j \in DOMAIN calls \ {i} : \E m \in DOMAIN ds : ds[m] = calls[j]
  BY <1>1, OneRemoved, SMT
<1> QED BY <1>2 DEF Flying

\* A call that goes on.
LEMMA CallMoved ==
  ASSUME calls \in Seq(Call), NEW i \in DOMAIN calls, NEW k \in Call, NEW ds, ds = [calls EXCEPT ![i] = k]
  PROVE  /\ ds \in Seq(Call) /\ Flying(ds) \subseteq Flying(calls) \cup {k} /\ k \in Flying(ds)
         /\ \A m \in Flying(calls) : m \in Flying(ds) \/ m = calls[i]
BY OneReplaced DEF Flying

\* Calls picked in order.
LEMMA CallsPicked ==
  ASSUME NEW I \in SUBSET Nat, IsFiniteSet(I), NEW o \in InOrder(I), NEW e \in [I -> Call],
         NEW ds, ds = [j \in DOMAIN o |-> e[o[j]]]
  PROVE  ds \in Seq(Call) /\ Flying(ds) = { e[i] : i \in I }
<1>1. o \in Seq(I) /\ \A i \in I : \E k \in DOMAIN o : o[k] = i
  BY AllInOrder
<1>2. DOMAIN o = 1..Len(o) /\ Len(o) \in Nat /\ \A j \in DOMAIN o : o[j] \in I
  BY <1>1
<1>3. ds \in Seq(Call) /\ DOMAIN ds = DOMAIN o
  BY <1>2
<1> QED BY <1>1, <1>2, <1>3 DEF Flying

\* Calls behind others.
LEMMA CallsBehind ==
  ASSUME NEW cs \in Seq(Call), NEW asks \in Seq(Call), NEW ds, ds = cs \o asks
  PROVE  ds \in Seq(Call) /\ Flying(ds) = Flying(cs) \cup Flying(asks)
<1>1. ds \in Seq(Call) /\ Len(ds) = Len(cs) + Len(asks)
  OBVIOUS
<1>2. \A j \in DOMAIN cs : j \in DOMAIN ds /\ ds[j] = cs[j]
  OBVIOUS
<1>3. \A j \in DOMAIN asks : Len(cs) + j \in DOMAIN ds /\ ds[Len(cs) + j] = asks[j]
  OBVIOUS
<1>4. \A j \in DOMAIN ds : j \in DOMAIN cs \/ (j - Len(cs) \in DOMAIN asks /\ ds[j] = asks[j - Len(cs)])
  OBVIOUS
<1>5. \A j \in DOMAIN ds : \/ \E m \in DOMAIN cs : ds[j] = cs[m]
                          \/ \E m \in DOMAIN asks : ds[j] = asks[m]
  BY <1>2, <1>4
<1>6. Flying(ds) \subseteq Flying(cs) \cup Flying(asks)
  BY <1>5, Zenon DEF Flying
<1>7. Flying(cs) \subseteq Flying(ds)
  BY <1>2 DEF Flying
<1>8. Flying(asks) \subseteq Flying(ds)
  BY <1>3 DEF Flying
<1> QED BY <1>1, <1>6, <1>7, <1>8

LEMMA OrphanIsACall ==
  ASSUME NEW c, NEW k \in Call
  PROVE  /\ Orphan(c, k) \in Call
         /\ Orphan(c, k) = k \/ (k.who = c /\ k.origin = "page" /\ Orphan(c, k) = [k EXCEPT !.origin = "tab"])
BY DEF Orphan, Call

\* c leaves its page: the calls that only that page awaits are forgotten.
LEMMA LeavingEffect ==
  ASSUME NEW c, NEW cs \in Seq(Call), NEW asks \in Seq(Call), Leaving(c, cs, asks)
  PROVE  /\ calls' \in Seq(Call)
         /\ \A k \in Flying(calls') :
              \/ k \in Flying(asks)
              \/ \E m \in Flying(cs) : k = Orphan(c, m) /\ (m.who # c \/ m.kind \notin {"trip", "sheet"})
         /\ Flying(asks) \subseteq Flying(calls')
         /\ \A k \in Flying(cs) : k.who # c => k \in Flying(calls')
<1> DEFINE I == Surviving(c, cs)
<1>1. I \subseteq DOMAIN cs /\ DOMAIN cs = 1..Len(cs) /\ Len(cs) \in Nat
  BY DEF Surviving
<1>2. IsFiniteSet(I) /\ I \in SUBSET Nat
  <2>1. IsFiniteSet(1..Len(cs))
    BY <1>1, FS_Interval
  <2> QED BY <1>1, <2>1, FS_Subset
<1>3. PICK o \in InOrder(I) : calls' = [j \in DOMAIN o |-> Orphan(c, cs[o[j]])] \o asks
  BY DEF Leaving, Sending
<1> DEFINE e == [i \in I |-> Orphan(c, cs[i])]
           ds == [j \in DOMAIN o |-> e[o[j]]]
<1>4. e \in [I -> Call]
  BY <1>1, OrphanIsACall
<1>5. \A j \in DOMAIN o : o[j] \in I
  BY <1>2, AllInOrder
<1>6. calls' = ds \o asks
  <2>1. [j \in DOMAIN o |-> Orphan(c, cs[o[j]])] = ds
    BY <1>5
  <2> QED BY <1>3, <2>1, Zenon
<1>7. \A i \in I : e[i] = Orphan(c, cs[i])
  OBVIOUS
<1> HIDE DEF I, e
<1>8. ds \in Seq(Call) /\ Flying(ds) = { e[i] : i \in I }
  BY <1>2, <1>4, CallsPicked
<1> HIDE DEF ds
<1>9. calls' \in Seq(Call) /\ Flying(calls') = { e[i] : i \in I } \cup Flying(asks)
  BY <1>6, <1>8, CallsBehind
<1>10. \A i \in I : cs[i] \in Flying(cs) /\ (cs[i].who # c \/ cs[i].kind \notin {"trip", "sheet"})
  BY <1>1 DEF I, Surviving, Flying
<1>11. \A k \in Flying(cs) : k.who # c => \E i \in I : e[i] = k
  <2> SUFFICES ASSUME NEW i \in DOMAIN cs, cs[i].who # c
               PROVE  i \in I /\ e[i] = cs[i]
    BY DEF Flying
  <2>1. i \in I
    BY DEF I, Surviving
  <2> QED BY <2>1, <1>7 DEF Orphan
<1> QED BY <1>7, <1>9, <1>10, <1>11

-----------------------------------------------------------------------------
(* What becomes of the rides.                                              *)
RideT == ride \in [Passengers -> [n : 0..MaxRides, on : BOOLEAN]]

\* The rides go on: no trip is forgotten, none that is over starts again.
RidesGoOn ==
  /\ RideT' /\ RidesOK'
  /\ \A p \in Passengers : ride[p].n <= ride'[p].n
  /\ \A t \in Onboard' : t \in Onboard \/ ~Started({t})

LEMMA OnTheRide ==
  ASSUME NEW r \in [n : 0..MaxRides, on : BOOLEAN], NEW m
  PROVE  r = [n |-> m, on |-> TRUE] <=> r.on /\ r.n = m
<1>1. r = [n |-> r.n, on |-> r.on] /\ r.on \in BOOLEAN
  OBVIOUS
<1>2. r.on = TRUE /\ r.n = m => r = [n |-> m, on |-> TRUE]
  BY <1>1
<1>3. r = [n |-> m, on |-> TRUE] => r.on /\ r.n = m
  OBVIOUS
<1> QED BY <1>1, <1>2, <1>3

LEMMA OnboardIs ==
  ASSUME RideT, NEW t \in Rides
  PROVE  t \in Onboard <=> ride[t[1]].on /\ ride[t[1]].n = t[2]
<1>1. t[1] \in Passengers /\ ride[t[1]] \in [n : 0..MaxRides, on : BOOLEAN]
  BY DEF RideT, Rides
<1>2. IsActive(t) <=> ride[t[1]].on /\ ride[t[1]].n = t[2]
  BY <1>1, OnTheRide, Zenon DEF IsActive
<1> QED BY <1>2 DEF Onboard

LEMMA OnboardIsNext ==
  ASSUME RideT', NEW t \in Rides
  PROVE  t \in Onboard' <=> ride'[t[1]].on /\ ride'[t[1]].n = t[2]
<1>1. t[1] \in Passengers /\ ride'[t[1]] \in [n : 0..MaxRides, on : BOOLEAN]
  BY DEF RideT, Rides
<1>2. IsActive(t)' <=> ride'[t[1]].on /\ ride'[t[1]].n = t[2]
  BY <1>1, OnTheRide, Zenon DEF IsActive
<1> QED BY <1>2 DEF Onboard

LEMMA RideIs ==
  ASSUME RideT, RidesOK, NEW p \in Passengers
  PROVE  /\ ride[p].on => <<p, ride[p].n>> \in Rides /\ RideOf(p) = {<<p, ride[p].n>>}
         /\ ~ride[p].on => RideOf(p) = {}
<1>1. ride[p].n \in 0..MaxRides
  BY DEF RideT
<1>2. \A t \in RideOf(p) : t \in Rides /\ t[1] = p /\ ride[p].on /\ ride[p].n = t[2]
  BY OnboardIs DEF RideOf, Onboard
<1>3. \A t \in RideOf(p) : t = <<p, ride[p].n>>
  BY <1>2 DEF Rides
<1>4. CASE ride[p].on
  <2>1. <<p, ride[p].n>> \in Rides
    BY <1>1, <1>4, TripClientAssumption DEF RidesOK, Rides
  <2>2. <<p, ride[p].n>> \in RideOf(p)
    BY <2>1, <1>4, OnboardIs DEF RideOf
  <2> QED BY <1>3, <1>4, <2>1, <2>2
<1>5. CASE ~ride[p].on
  BY <1>2, <1>5
<1> QED BY <1>4, <1>5

LEMMA RideIsNext ==
  ASSUME RideT', RidesOK', NEW p \in Passengers
  PROVE  /\ ride'[p].on => <<p, ride'[p].n>> \in Rides /\ RideOf(p)' = {<<p, ride'[p].n>>}
         /\ ~ride'[p].on => RideOf(p)' = {}
<1>1. ride'[p].n \in 0..MaxRides
  BY DEF RideT
<1>2. \A t \in RideOf(p)' : t \in Rides /\ t[1] = p /\ ride'[p].on /\ ride'[p].n = t[2]
  BY OnboardIsNext DEF RideOf, Onboard
<1>3. \A t \in RideOf(p)' : t = <<p, ride'[p].n>>
  BY <1>2 DEF Rides
<1>4. CASE ride'[p].on
  <2>1. <<p, ride'[p].n>> \in Rides
    BY <1>1, <1>4, TripClientAssumption DEF RidesOK, Rides
  <2>2. <<p, ride'[p].n>> \in RideOf(p)'
    BY <2>1, <1>4, OnboardIsNext DEF RideOf
  <2> QED BY <1>3, <1>4, <2>1, <2>2
<1>5. CASE ~ride'[p].on
  BY <1>2, <1>5
<1> QED BY <1>4, <1>5

\* The server does nothing to them.
LEMMA RidesStand ==
  ASSUME RideT, RidesOK, ride' = ride
  PROVE  RidesGoOn /\ Onboard' = Onboard /\ \A p : RideOf(p)' = RideOf(p)
<1>1. Onboard' = Onboard
  BY DEF Onboard, IsActive
<1>2. \A p : RideOf(p)' = RideOf(p)
  BY <1>1 DEF RideOf
<1>3. RideT' /\ RidesOK' /\ \A p \in Passengers : ride[p].n <= ride'[p].n
  BY DEF RideT, RidesOK
<1> QED BY <1>1, <1>2, <1>3 DEF RidesGoOn

LEMMA StartedStill ==
  ASSUME RideT, RidesGoOn, NEW T \in SUBSET Rides, Started(T)
  PROVE  Started(T)'
<1> SUFFICES ASSUME NEW t \in T PROVE t[2] <= ride'[t[1]].n
  BY DEF Started
<1>1. t[1] \in Passengers /\ t[2] \in Nat /\ t[2] <= ride[t[1]].n
  BY TripClientAssumption DEF Rides, Started
<1>2. ride[t[1]].n \in Nat /\ ride'[t[1]].n \in Nat /\ ride[t[1]].n <= ride'[t[1]].n
  BY <1>1, TripClientAssumption DEF RideT, RidesGoOn
<1> QED BY <1>1, <1>2

\* A trip that is over stays over.
LEMMA OverStill ==
  ASSUME RidesGoOn, NEW T \in SUBSET Rides, Started(T), T \cap Onboard = {}
  PROVE  T \cap Onboard' = {}
BY DEF RidesGoOn, Started

-----------------------------------------------------------------------------
(* What a step that does not concern them leaves of the invariant's parts. *)
LEMMA AsksStill ==
  ASSUME RideT, RidesGoOn, NEW k \in Call, AsksOK(k),
         k.kind = "trip" => tab'[k.who].page = tab[k.who].page /\ tab'[k.who].viewed = tab[k.who].viewed
  PROVE  AsksOK(k)'
<1>1. k.about \cup k.rides \in SUBSET Rides /\ k.about \in SUBSET Rides
  BY DEF Call
<1>2. Started(k.about \cup k.rides)'
  BY <1>1, StartedStill, Zenon DEF AsksOK
<1>3. k.about \cap Onboard = {} => k.about \cap Onboard' = {}
  <2>1. Started(k.about)
    BY DEF AsksOK, Started
  <2> QED BY <1>1, <2>1, OverStill
<1> QED BY <1>2, <1>3 DEF AsksOK, Of, AtMostOne

LEMMA TellsStill ==
  ASSUME RideT, RidesGoOn, NEW c, NEW e \in ClientEvent, TellsOK(c, e)
  PROVE  TellsOK(c, e)'
<1>1. {e.trip} \in SUBSET Rides
  BY DEF ClientEvent
<1>2. Started({e.trip})'
  BY <1>1, StartedStill DEF TellsOK
<1>3. {e.trip} \cap Onboard = {} => {e.trip} \cap Onboard' = {}
  BY <1>1, OverStill DEF TellsOK
<1> QED BY <1>2, <1>3 DEF TellsOK

LEMMA TabStill ==
  ASSUME RideT, RidesGoOn, NEW p \in Passengers, tab \in [Passengers -> Tab], TabOK(p),
         tab'[p].page = tab[p].page, tab'[p].viewed = tab[p].viewed,
         tab'[p].active = tab[p].active, tab'[p].awaiting = tab[p].awaiting
  PROVE  TabOK(p)'
<1>1. tab[p].active \cup tab[p].viewed \cup tab[p].awaiting \in SUBSET Rides
  BY DEF Tab
<1>2. Started(tab[p].active \cup tab[p].viewed \cup tab[p].awaiting)'
  BY <1>1, StartedStill DEF TabOK
<1> QED BY <1>2 DEF TabOK, Of, AtMostOne, Started

LEMMA StoreStill ==
  ASSUME NEW p, StoreOK(p), tab'[p].active = tab[p].active, mail'[p] = mail[p],
         RideOf(p)' = RideOf(p), <<p, "store">> \in misled => <<p, "store">> \in misled'
  PROVE  StoreOK(p)'
<1>1. \A i : Moving(p, i)' <=> Moving(p, i)
  BY DEF Moving
<1>2. \A j, i : Between(p, j, i)' <=> Between(p, j, i)
  BY <1>1 DEF Between
<1>3. \A j, i : Before(p, j, i)' <=> Before(p, j, i)
  BY <1>1, <1>2 DEF Before
<1>4. \A i : (IsFirst(p, i)' <=> IsFirst(p, i)) /\ (IsLast(p, i)' <=> IsLast(p, i))
  BY <1>1, <1>2 DEF IsFirst, IsLast
<1> QED BY <1>1, <1>3, <1>4 DEF StoreOK

LEMMA PageStill ==
  ASSUME NEW p, PageOK(p), tab'[p].page = tab[p].page, tab'[p].viewed = tab[p].viewed,
         tab'[p].shown = tab[p].shown, EndComes(p) => EndComes(p)',
         RideOf(p)' = RideOf(p), <<p, "page">> \in misled => <<p, "page">> \in misled',
         PageLoads(p) => PageLoads(p)'
  PROVE  PageOK(p)'
BY DEF PageOK, PageRight

\* A step is not about p.
SameTab(p) ==
  /\ tab'[p].page = tab[p].page /\ tab'[p].viewed = tab[p].viewed /\ tab'[p].shown = tab[p].shown
  /\ tab'[p].active = tab[p].active /\ tab'[p].awaiting = tab[p].awaiting
Untouched(p) ==
  /\ SameTab(p) /\ mail'[p] = mail[p] /\ RideOf(p)' = RideOf(p)
  /\ PageLoads(p) => PageLoads(p)'
  /\ \A w \in {"store", "page"} : <<p, w>> \in misled => <<p, w>> \in misled'
TabIsFine(p) == TabOK(p) /\ StoreOK(p) /\ PageOK(p)

LEMMA UntouchedStill ==
  ASSUME RideT, RidesGoOn, NEW p \in Passengers, tab \in [Passengers -> Tab], TabIsFine(p), Untouched(p)
  PROVE  TabIsFine(p)'
<1>1. TabOK(p)'
  BY TabStill DEF TabIsFine, Untouched, SameTab
<1>2. StoreOK(p)'
  BY StoreStill DEF TabIsFine, Untouched, SameTab
<1>3. EndComes(p) => EndComes(p)'
  BY DEF Untouched, SameTab, EndComes
<1>4. PageOK(p)'
  BY <1>3, PageStill DEF TabIsFine, Untouched, SameTab
<1> QED BY <1>1, <1>2, <1>4 DEF TabIsFine

-----------------------------------------------------------------------------
(* A passenger goes to a page; his store is told something.                *)
LEMMA AskIsACall ==
  ASSUME NEW c \in Clients, NEW kind \in Reads \cup Writes, NEW T \in SUBSET Rides, NEW o \in {"page", "tab"},
         NEW asks, asks = Asked(c, kind, T, o)
  PROVE  \E k \in Call : /\ asks = << k >> /\ Flying(asks) = {k}
                         /\ k.who = c /\ k.kind = kind /\ k.about = T /\ k.rides = {}
                         /\ k.origin = o /\ k.stage = "sent"
<1> DEFINE k == [ who |-> c, kind |-> kind, about |-> T, origin |-> o, stage |-> "sent", rides |-> {} ]
<1>1. k \in Call
  BY DEF Call
<1>2. Flying(<< k >>) = {k}
  BY DEF Flying
<1> QED BY <1>1, <1>2 DEF Asked

LEMMA NoneFlying == << >> \in Seq(Call) /\ Flying(<< >>) = {}
BY DEF Flying

LEMMA AllAskStill ==
  ASSUME RideT, RidesGoOn, calls \in Seq(Call), AllAskOK,
         \A q \in Passengers : tab'[q].page = tab[q].page /\ tab'[q].viewed = tab[q].viewed,
         \A k \in Flying(calls') : k \in Flying(calls) \/ AsksOK(k)'
  PROVE  AllAskOK'
<1> SUFFICES ASSUME NEW k \in Flying(calls) PROVE AsksOK(k)'
  BY DEF AllAskOK
<1>1. k \in Call /\ AsksOK(k)
  BY DEF AllAskOK, Flying
<1>2. k.kind = "trip" => k.who \in Passengers
  BY <1>1 DEF AsksOK, Call, Clients
<1> QED BY <1>1, <1>2, AsksStill

\* The trips p's store and page may speak of.
Sound(p, T) == T \in SUBSET Rides /\ Started(T) /\ Of(p, T)
One(T) == T = {} \/ AtMostOne(T)
\* The calls cs are calls in flight, and all that load a trip.
KeepsLoads(cs) ==
  /\ cs \in Seq(Call) /\ Flying(cs) \subseteq Flying(calls)
  /\ \A k \in Flying(calls) : k.kind = "trip" => k \in Flying(cs)

\* What a visit brings about, whatever the page.
Visited(p, t) ==
  /\ tab' \in [Passengers -> Tab] /\ \A q \in Passengers \ {p} : tab'[q] = tab[q]
  /\ tab'[p].active = t.active /\ tab'[p].awaiting = t.awaiting /\ TabOK(p)'
  /\ calls' \in Seq(Call) /\ AllAskOK'
  /\ \A q \in Passengers \ {p} : PageLoads(q) => PageLoads(q)'

LEMMA VisitEffect ==
  ASSUME RideT, RidesOK, ride' = ride, tab \in [Passengers -> Tab], calls \in Seq(Call), AllAskOK,
         NEW p \in Passengers, NEW t \in Tab, NEW page \in Pages, NEW T, NEW cs,
         page = "trip" <=> T # {}, One(T), One(t.active),
         Sound(p, T), Sound(p, t.active), Sound(p, t.awaiting), KeepsLoads(cs),
         Visit(p, t, page, T, cs)
  PROVE  /\ Visited(p, t)
         /\ tab'[p].page = "trip" => PageLoads(p)'
<1> DEFINE onward == page = "scan" /\ t.active # {}
           there == IF onward THEN "trip" ELSE page
           which == IF onward THEN t.active ELSE T
           asks == Mounts(p, there, which)
           new == [t EXCEPT !.page = there, !.viewed = which, !.shown = "loading", !.submitting = FALSE]
<1>1. there \in Pages /\ (there = "trip" <=> which # {}) /\ One(which) /\ Sound(p, which)
  BY DEF Pages
<1>2. tab' = [tab EXCEPT ![p] = new] /\ Leaving(p, cs, asks)
  BY DEF Visit
<1>3. /\ new \in Tab /\ new.page = there /\ new.viewed = which /\ new.active = t.active
      /\ new.awaiting = t.awaiting
  BY <1>1 DEF Tab, Sound
<1> HIDE DEF new, there, which, asks
<1>4. /\ tab' \in [Passengers -> Tab] /\ tab'[p] = new
      /\ \A q \in Passengers \ {p} : tab'[q] = tab[q]
  BY <1>2, <1>3
<1>5. /\ asks \in Seq(Call)
      /\ \A k \in Flying(asks) : /\ k \in Call /\ k.who = p /\ k.rides = {} /\ k.stage = "sent" /\ k.origin = "page"
                                 /\ \/ k.kind = "active" /\ k.about = {}
                                    \/ k.kind = "trip" /\ there = "trip" /\ k.about = which
      /\ there = "trip" => \E k \in Flying(asks) : k.kind = "trip" /\ k.who = p
  <2>1. p \in Clients
    BY DEF Clients
  <2>2. CASE there \in {"map", "trips"}
    <3>1. asks = Asked(p, "active", {}, "page")
      BY <2>2 DEF asks, Mounts, Ask
    <3>2. PICK k \in Call : /\ asks = << k >> /\ Flying(asks) = {k} /\ k.who = p /\ k.kind = "active"
                            /\ k.about = {} /\ k.rides = {} /\ k.origin = "page" /\ k.stage = "sent"
      <4>1. "active" \in Reads \cup Writes /\ {} \in SUBSET Rides /\ "page" \in {"page", "tab"}
        BY DEF Reads
      <4> QED BY <2>1, <3>1, <4>1, AskIsACall
    <3> QED BY <2>2, <3>2
  <2>3. CASE there = "trip"
    <3>1. asks = Asked(p, "trip", which, "page")
      BY <2>3 DEF asks, Mounts, Ask
    <3>2. PICK k \in Call : /\ asks = << k >> /\ Flying(asks) = {k} /\ k.who = p /\ k.kind = "trip"
                            /\ k.about = which /\ k.rides = {} /\ k.origin = "page" /\ k.stage = "sent"
      <4>1. "trip" \in Reads \cup Writes /\ which \in SUBSET Rides /\ "page" \in {"page", "tab"}
        BY <1>1 DEF Reads, Sound
      <4> QED BY <2>1, <3>1, <4>1, AskIsACall
    <3> QED BY <2>3, <3>2
  <2>4. CASE there = "scan"
    <3>1. asks = << >>
      BY <2>4 DEF asks, Mounts
    <3> QED BY <2>4, <3>1, NoneFlying
  <2> QED BY <1>1, <2>2, <2>3, <2>4 DEF Pages
<1>6. /\ calls' \in Seq(Call)
      /\ \A k \in Flying(calls') :
           \/ k \in Flying(asks)
           \/ \E m \in Flying(cs) : k = Orphan(p, m) /\ (m.who # p \/ m.kind \notin {"trip", "sheet"})
      /\ Flying(asks) \subseteq Flying(calls')
      /\ \A k \in Flying(cs) : k.who # p => k \in Flying(calls')
  <2>1. cs \in Seq(Call)
    BY DEF KeepsLoads
  <2> QED BY <1>2, <1>5, <2>1, LeavingEffect
<1>7. RidesGoOn /\ Onboard' = Onboard
  BY RidesStand
<1>8. Started(which)' /\ Started(t.active)' /\ Started(t.awaiting)'
  BY <1>1, <1>7, StartedStill DEF Sound
<1>9. TabOK(p)'
  BY <1>1, <1>3, <1>4, <1>8 DEF TabOK, Started, Of, Sound, One, AtMostOne
<1>10. ASSUME NEW k \in Flying(asks) PROVE AsksOK(k)'
  <2>1. p # Driver
    BY TripClientAssumption
  <2>2. Started(k.about \cup k.rides)' /\ Of(p, k.about \cup k.rides)
    BY <1>1, <1>5, <1>8, <1>10 DEF Started, Of, Sound
  <2>3. k.kind = "trip" => tab'[k.who].page = "trip" /\ k.about = tab'[k.who].viewed
    BY <1>3, <1>4, <1>5, <1>10
  <2> QED BY <2>1, <2>2, <2>3, <1>5, <1>10 DEF AsksOK, Of
<1>11. ASSUME NEW m \in Flying(cs), m.who # p \/ m.kind \notin {"trip", "sheet"}
       PROVE  AsksOK(Orphan(p, m))'
  <2>1. m \in Call /\ AsksOK(m)
    BY <1>11 DEF KeepsLoads, AllAskOK, Flying
  <2>2. m.kind = "trip" => m.who \in Passengers \ {p}
    BY <1>11, <2>1 DEF AsksOK, Call, Clients
  <2>3. AsksOK(m)'
    BY <1>4, <1>7, <2>1, <2>2, AsksStill
  <2>4. Orphan(p, m) = m \/ Orphan(p, m) = [m EXCEPT !.origin = "tab"]
    BY DEF Orphan
  <2>5. /\ Orphan(p, m).who = m.who /\ Orphan(p, m).kind = m.kind /\ Orphan(p, m).about = m.about
        /\ Orphan(p, m).rides = m.rides /\ Orphan(p, m).stage = m.stage
        /\ Orphan(p, m).origin = "gone" => m.origin = "gone"
    BY <2>1, <2>4 DEF Call
  <2> QED BY <2>3, <2>5 DEF AsksOK, Of, AtMostOne
<1>12. AllAskOK'
  BY <1>6, <1>10, <1>11 DEF AllAskOK
<1>13. \A q \in Passengers \ {p} : PageLoads(q) => PageLoads(q)'
  BY <1>6 DEF PageLoads, KeepsLoads
<1>14. tab'[p].page = "trip" => PageLoads(p)'
  BY <1>3, <1>4, <1>5, <1>6 DEF PageLoads
<1> QED BY <1>3, <1>4, <1>6, <1>9, <1>12, <1>13, <1>14 DEF Visited

\* The store becomes t, but for the page: p is sent to his new trip, or his page
\* stays as it is and loads again when the trip it shows is over.
LEMMA StoredEffect ==
  ASSUME RideT, RidesOK, ride' = ride, tab \in [Passengers -> Tab], calls \in Seq(Call), AllAskOK,
         NEW p \in Passengers, NEW t \in Tab, NEW over \in SUBSET Rides, NEW cs,
         TabOK(p), t.page = tab[p].page, t.viewed = tab[p].viewed, t.shown = tab[p].shown,
         One(t.active), Sound(p, t.active), Sound(p, t.awaiting), KeepsLoads(cs),
         Stored(p, t, over, cs)
  PROVE  /\ Visited(p, t)
         /\ \/ tab'[p].page = "trip" => PageLoads(p)'
            \/ /\ tab'[p].page = tab[p].page /\ tab'[p].viewed = tab[p].viewed /\ tab'[p].shown = tab[p].shown
               /\ PageLoads(p) => PageLoads(p)'
               /\ tab[p].page = "trip" /\ over # {} /\ over = tab[p].viewed => PageLoads(p)'
<1>1. CASE t.page \in {"map", "scan"} /\ t.active \notin {tab[p].active, {}}
  <2>1. Visit(p, t, "trip", t.active, cs)
    BY <1>1 DEF Stored
  <2>2. "trip" \in Pages /\ t.active # {}
    BY <1>1 DEF Pages
  <2> QED BY <2>1, <2>2, VisitEffect
<1>2. CASE ~(t.page \in {"map", "scan"} /\ t.active \notin {tab[p].active, {}})
  <2> DEFINE again == t.page = "trips" /\ (t.active # tab[p].active \/ over # {})
             reload == t.page = "trip" /\ over # {} /\ over = t.viewed
             asks == CASE again -> Ask(p, "active", {}) [] reload -> Ask(p, "trip", over) [] OTHER -> << >>
  <2>1. tab' = [tab EXCEPT ![p] = t] /\ calls' = cs \o asks
    BY <1>2 DEF Stored, Sending
  <2>2. /\ tab' \in [Passengers -> Tab] /\ tab'[p] = t /\ \A q \in Passengers \ {p} : tab'[q] = tab[q]
        /\ \A q \in Passengers : tab'[q].page = tab[q].page /\ tab'[q].viewed = tab[q].viewed
    BY <2>1
  <2>3. again => ~reload
    OBVIOUS
  <2>4. /\ asks \in Seq(Call)
        /\ \A k \in Flying(asks) : /\ k \in Call /\ k.who = p /\ k.rides = {} /\ k.stage = "sent" /\ k.origin = "page"
                                   /\ \/ k.kind = "active" /\ k.about = {}
                                      \/ k.kind = "trip" /\ reload /\ k.about = over
        /\ reload => \E k \in Flying(asks) : k.kind = "trip" /\ k.who = p
    <3>1. p \in Clients /\ "page" \in {"page", "tab"} /\ "active" \in Reads \cup Writes
          /\ "trip" \in Reads \cup Writes /\ {} \in SUBSET Rides
      BY DEF Clients, Reads
    <3>2. CASE again
      <4>1. asks = Asked(p, "active", {}, "page")
        BY <3>2 DEF Ask
      <4> HIDE DEF asks
      <4>2. PICK k \in Call : /\ asks = << k >> /\ Flying(asks) = {k} /\ k.who = p /\ k.kind = "active"
                              /\ k.about = {} /\ k.rides = {} /\ k.origin = "page" /\ k.stage = "sent"
        BY <3>1, <4>1, AskIsACall
      <4> QED BY <2>3, <3>2, <4>2
    <3>3. CASE reload
      <4>1. asks = Asked(p, "trip", over, "page")
        BY <2>3, <3>3 DEF Ask
      <4> HIDE DEF asks
      <4>2. PICK k \in Call : /\ asks = << k >> /\ Flying(asks) = {k} /\ k.who = p /\ k.kind = "trip"
                              /\ k.about = over /\ k.rides = {} /\ k.origin = "page" /\ k.stage = "sent"
        BY <3>1, <4>1, AskIsACall
      <4> QED BY <3>3, <4>2
    <3>4. CASE ~again /\ ~reload
      <4>1. asks = << >>
        BY <3>4
      <4> QED BY <3>4, <4>1, NoneFlying
    <3> QED BY <3>2, <3>3, <3>4
  <2> HIDE DEF asks, again
  <2>5. calls' \in Seq(Call) /\ Flying(calls') = Flying(cs) \cup Flying(asks)
    <3>1. cs \in Seq(Call) /\ asks \in Seq(Call) /\ calls' = cs \o asks
      BY <2>1, <2>4 DEF KeepsLoads
    <3> QED BY <3>1, CallsBehind
  <2>6. RidesGoOn /\ Onboard' = Onboard
    BY RidesStand
  <2>7. Started(t.viewed)' /\ Started(t.active)' /\ Started(t.awaiting)'
    <3>1. Sound(p, t.viewed)
      BY DEF Sound, TabOK, Started, Of, Tab
    <3>2. /\ t.viewed \in SUBSET Rides /\ t.active \in SUBSET Rides /\ t.awaiting \in SUBSET Rides
          /\ Started(t.viewed) /\ Started(t.active) /\ Started(t.awaiting)
      BY <3>1 DEF Sound
    <3> QED BY <2>6, <3>2, StartedStill
  <2>8. TabOK(p)'
    BY <2>2, <2>7 DEF TabOK, Started, Of, Sound, One, AtMostOne
  <2>9. ASSUME NEW k \in Flying(asks) PROVE AsksOK(k)'
    <3>1. p # Driver
      BY TripClientAssumption
    <3>2. Started(k.about \cup k.rides)' /\ Of(p, k.about \cup k.rides)
      BY <2>4, <2>7, <2>9 DEF Started, Of, TabOK
    <3>3. k.kind = "trip" => tab'[k.who].page = "trip" /\ k.about = tab'[k.who].viewed
      BY <2>2, <2>4, <2>9
    <3> QED BY <3>1, <3>2, <3>3, <2>4, <2>9 DEF AsksOK, Of
  <2>10. AllAskOK'
    BY <2>2, <2>5, <2>6, <2>9, AllAskStill DEF KeepsLoads
  <2>11. \A q \in Passengers : PageLoads(q) => PageLoads(q)'
    BY <2>5 DEF PageLoads, KeepsLoads
  <2>12. reload => PageLoads(p)'
    BY <2>4, <2>5 DEF PageLoads
  <2> QED BY <2>2, <2>5, <2>8, <2>10, <2>11, <2>12 DEF Visited
<1> QED BY <1>1, <1>2

-----------------------------------------------------------------------------
(* The events on their way to a passenger.                                 *)
LEMMA EventAppended ==
  ASSUME NEW p, mail[p] \in Seq(ClientEvent), NEW e \in ClientEvent, mail'[p] = Append(mail[p], e),
         NEW n, n = Len(mail[p])
  PROVE  /\ n \in Nat /\ Len(mail'[p]) = n + 1 /\ DOMAIN mail[p] = 1..n /\ DOMAIN mail'[p] = 1..(n + 1)
         /\ mail'[p][n + 1] = e /\ \A i \in 1..n : mail'[p][i] = mail[p][i]
         /\ \A i \in 1..n : Moving(p, i)' <=> Moving(p, i)
         /\ Moving(p, n + 1)' <=> e.kind # "dropoff_requested"
         /\ \A j \in 0..n, i \in 1..(n + 1) : Between(p, j, i)' <=> Between(p, j, i)
         /\ \A j \in 0..n : Between(p, j, n + 2)' <=> Between(p, j, n + 1) \/ e.kind # "dropoff_requested"
<1>1. /\ n \in Nat /\ Len(mail'[p]) = n + 1 /\ DOMAIN mail[p] = 1..n /\ DOMAIN mail'[p] = 1..(n + 1)
      /\ mail'[p][n + 1] = e /\ \A i \in 1..n : mail'[p][i] = mail[p][i]
  <2>1. mail[p] \in Seq(ClientEvent) /\ Len(mail[p]) \in Nat /\ DOMAIN mail[p] = 1..Len(mail[p])
    OBVIOUS
  <2>2. /\ mail'[p] \in Seq(ClientEvent) /\ Len(mail'[p]) = Len(mail[p]) + 1
        /\ mail'[p][Len(mail[p]) + 1] = e /\ \A k \in DOMAIN mail[p] : mail'[p][k] = mail[p][k]
    BY OneAppended
  <2> QED BY <2>1, <2>2
<1>2. (\A i \in 1..n : Moving(p, i)' <=> Moving(p, i)) /\ (Moving(p, n + 1)' <=> e.kind # "dropoff_requested")
  BY <1>1 DEF Moving
<1>3. ASSUME NEW j \in 0..n, NEW i \in 1..(n + 1) PROVE Between(p, j, i)' <=> Between(p, j, i)
  BY <1>1, <1>2 DEF Between
<1>4. ASSUME NEW j \in 0..n PROVE Between(p, j, n + 2)' <=> Between(p, j, n + 1) \/ e.kind # "dropoff_requested"
  <2>1. \A m \in 1..(n + 1) : m < n + 2 /\ (m < n + 1 <=> m \in 1..n) /\ (m \in 1..n \/ m = n + 1)
    BY <1>1
  <2>2. j < n + 1
    BY <1>1
  <2> QED BY <2>1, <2>2, <1>1, <1>2 DEF Between
<1> QED BY <1>1, <1>2, <1>3, <1>4

LEMMA EventTaken ==
  ASSUME NEW p, mail[p] \in Seq(ClientEvent), mail[p] # << >>, mail'[p] = Tail(mail[p]),
         NEW n, n = Len(mail[p])
  PROVE  /\ n \in Nat /\ n >= 1 /\ Len(mail'[p]) = n - 1
         /\ DOMAIN mail[p] = 1..n /\ DOMAIN mail'[p] = 1..(n - 1)
         /\ Head(mail[p]) = mail[p][1] /\ \A i \in 1..(n - 1) : mail'[p][i] = mail[p][i + 1]
         /\ \A i \in 1..(n - 1) : Moving(p, i)' <=> Moving(p, i + 1)
         /\ \A j, i \in 0..n : Between(p, j, i)' <=> Between(p, j + 1, i + 1)
<1>1. /\ n \in Nat /\ n >= 1 /\ Len(mail'[p]) = n - 1
      /\ DOMAIN mail[p] = 1..n /\ DOMAIN mail'[p] = 1..(n - 1)
      /\ Head(mail[p]) = mail[p][1] /\ \A i \in 1..(n - 1) : mail'[p][i] = mail[p][i + 1]
  OBVIOUS
<1>2. \A i \in 1..(n - 1) : Moving(p, i)' <=> Moving(p, i + 1)
  BY <1>1 DEF Moving
<1>3. ASSUME NEW j \in 0..n, NEW i \in 0..n PROVE Between(p, j, i)' <=> Between(p, j + 1, i + 1)
  <2>1. ASSUME Between(p, j, i)' PROVE Between(p, j + 1, i + 1)
    <3>1. PICK m \in 1..(n - 1) : j < m /\ m < i /\ Moving(p, m)'
      BY <1>1, <2>1 DEF Between
    <3>2. m + 1 \in 1..n /\ j + 1 < m + 1 /\ m + 1 < i + 1 /\ Moving(p, m + 1)
      BY <1>1, <1>2, <3>1
    <3> QED BY <1>1, <3>2 DEF Between
  <2>2. ASSUME Between(p, j + 1, i + 1) PROVE Between(p, j, i)'
    <3>1. PICK m \in 1..n : j + 1 < m /\ m < i + 1 /\ Moving(p, m)
      BY <1>1, <2>2 DEF Between
    <3>2. m - 1 \in 1..(n - 1) /\ j < m - 1 /\ m - 1 < i /\ (m - 1) + 1 = m
      BY <1>1, <3>1
    <3>3. Moving(p, m - 1)'
      BY <1>2, <3>1, <3>2
    <3> QED BY <1>1, <3>2, <3>3 DEF Between
  <2> QED BY <2>1, <2>2
<1> QED BY <1>1, <1>2, <1>3

\* A passenger is told of what becomes of his ride.
LEMMA StoreIsTold ==
  ASSUME NEW p, mail[p] \in Seq(ClientEvent), NEW e \in ClientEvent, mail'[p] = Append(mail[p], e),
         StoreOK(p), tab'[p].active = tab[p].active, <<p, "store">> \in misled => <<p, "store">> \in misled',
         \/ e.kind = "dropoff_requested" /\ RideOf(p)' = RideOf(p)
         \/ e.kind = "started" /\ RideOf(p)' = {e.trip}
         \/ e.kind = "completed" /\ RideOf(p) = {e.trip} /\ RideOf(p)' = {}
  PROVE  StoreOK(p)'
<1> SUFFICES ASSUME <<p, "store">> \notin misled
    PROVE  /\ (\A i \in DOMAIN mail'[p] : ~Moving(p, i)') => tab'[p].active = RideOf(p)'
           /\ \A i \in DOMAIN mail'[p] : IsLast(p, i)' =>
                RideOf(p)' = IF mail'[p][i].kind = "started" THEN {mail'[p][i].trip} ELSE {}
           /\ \A i \in DOMAIN mail'[p] : mail'[p][i].kind = "completed" =>
                /\ \A j \in DOMAIN mail'[p] : Before(p, j, i)' => mail'[p][j] = [kind |-> "started", trip |-> mail'[p][i].trip]
                /\ IsFirst(p, i)' /\ IsLast(p, i)' => tab'[p].active \subseteq {mail'[p][i].trip}
  BY DEF StoreOK
<1>0. PICK n : n = Len(mail[p])
  OBVIOUS
<1>1. /\ n \in Nat /\ Len(mail'[p]) = n + 1 /\ DOMAIN mail[p] = 1..n /\ DOMAIN mail'[p] = 1..(n + 1)
      /\ mail'[p][n + 1] = e /\ \A i \in 1..n : mail'[p][i] = mail[p][i]
      /\ \A i \in 1..n : Moving(p, i)' <=> Moving(p, i)
      /\ Moving(p, n + 1)' <=> e.kind # "dropoff_requested"
      /\ \A j \in 0..n, i \in 1..(n + 1) : Between(p, j, i)' <=> Between(p, j, i)
      /\ \A j \in 0..n : Between(p, j, n + 2)' <=> Between(p, j, n + 1) \/ e.kind # "dropoff_requested"
  BY <1>0, EventAppended
<1>2. /\ (\A i \in 1..n : ~Moving(p, i)) => tab[p].active = RideOf(p)
      /\ \A i \in 1..n : IsLast(p, i) => RideOf(p) = IF mail[p][i].kind = "started" THEN {mail[p][i].trip} ELSE {}
      /\ \A i \in 1..n : mail[p][i].kind = "completed" =>
           /\ \A j \in 1..n : Before(p, j, i) => mail[p][j] = [kind |-> "started", trip |-> mail[p][i].trip]
           /\ IsFirst(p, i) /\ IsLast(p, i) => tab[p].active \subseteq {mail[p][i].trip}
  BY <1>1 DEF StoreOK
<1>3. /\ \A i \in 1..n : IsFirst(p, i)' <=> IsFirst(p, i)
      /\ \A i \in 1..n : IsLast(p, i)' <=> IsLast(p, i) /\ e.kind = "dropoff_requested"
      /\ \A i \in 1..n, j \in 1..(n + 1) : Before(p, j, i)' => j \in 1..n /\ Before(p, j, i)
  <2>1. \A i \in 1..n : IsFirst(p, i)' <=> IsFirst(p, i)
    BY <1>1 DEF IsFirst
  <2>2. \A i \in 1..n : IsLast(p, i) <=> Moving(p, i) /\ ~Between(p, i, n + 1)
    BY <1>0 DEF IsLast
  <2>3. \A i \in 1..n : IsLast(p, i)' <=> Moving(p, i)' /\ ~Between(p, i, n + 2)'
    <3>1. Len(mail'[p]) + 1 = n + 2
      BY <1>1
    <3> QED BY <3>1 DEF IsLast
  <2>4. \A i \in 1..n : i \in 0..n
    BY <1>1
  <2>5. \A i \in 1..n : IsLast(p, i)' <=> IsLast(p, i) /\ e.kind = "dropoff_requested"
    BY <1>1, <2>2, <2>3, <2>4, Zenon
  <2>6. ASSUME NEW i \in 1..n, NEW j \in 1..(n + 1), Before(p, j, i)'
        PROVE  j \in 1..n /\ Before(p, j, i)
    <3>1. j < i /\ j \in 1..n /\ j \in 0..n /\ i \in 1..(n + 1)
      BY <1>1, <2>6 DEF Before
    <3> QED BY <1>1, <2>6, <3>1 DEF Before
  <2> QED BY <2>1, <2>5, <2>6
<1>4. CASE e.kind = "dropoff_requested"
  <2>1. ~Moving(p, n + 1)' /\ ~IsLast(p, n + 1)'
    BY <1>1, <1>4 DEF IsLast
  <2>2. \A i \in 1..(n + 1) : i \in 1..n \/ i = n + 1
    BY <1>1
  <2>3. \A i \in 1..n : i \in 1..(n + 1)
    BY <1>1
  <2>4. (\A i \in 1..(n + 1) : ~Moving(p, i)') => tab'[p].active = RideOf(p)'
    BY <1>1, <1>2, <1>4, <2>3
  <2>5. ASSUME NEW i \in 1..(n + 1), IsLast(p, i)'
        PROVE  RideOf(p)' = IF mail'[p][i].kind = "started" THEN {mail'[p][i].trip} ELSE {}
    <3>1. i \in 1..n /\ IsLast(p, i) /\ mail'[p][i] = mail[p][i]
      BY <1>1, <1>3, <2>1, <2>2, <2>5
    <3> QED BY <1>2, <1>4, <3>1
  <2>6. ASSUME NEW i \in 1..(n + 1), mail'[p][i].kind = "completed"
        PROVE  /\ \A j \in 1..(n + 1) : Before(p, j, i)' => mail'[p][j] = [kind |-> "started", trip |-> mail'[p][i].trip]
               /\ IsFirst(p, i)' /\ IsLast(p, i)' => tab'[p].active \subseteq {mail'[p][i].trip}
    <3>1. i \in 1..n /\ mail'[p][i] = mail[p][i] /\ mail[p][i].kind = "completed"
      BY <1>1, <1>4, <2>2, <2>6
    <3>2. ASSUME NEW j \in 1..(n + 1), Before(p, j, i)'
          PROVE  mail'[p][j] = [kind |-> "started", trip |-> mail'[p][i].trip]
      <4>1. j \in 1..n /\ Before(p, j, i) /\ mail'[p][j] = mail[p][j]
        BY <1>1, <1>3, <3>1, <3>2
      <4> QED BY <1>2, <3>1, <4>1
    <3> QED BY <1>2, <1>3, <3>1, <3>2
  <2> QED BY <1>1, <2>4, <2>5, <2>6
<1>5. CASE e.kind = "started"
  <2>1. Moving(p, n + 1)' /\ n + 1 \in 1..(n + 1) /\ e.kind # "completed"
    BY <1>1, <1>5
  <2>2. \A i \in 1..(n + 1) : i \in 1..n \/ i = n + 1
    BY <1>1
  <2>3. \A i \in 1..(n + 1) : IsLast(p, i)' => i = n + 1
    BY <2>2, <1>3, <1>5
  <2> QED BY <1>1, <1>2, <1>3, <1>5, <2>1, <2>2, <2>3
<1>6. CASE e.kind = "completed"
  <2>1. Moving(p, n + 1)' /\ n + 1 \in 1..(n + 1)
    BY <1>1, <1>6
  <2>2. \A i \in 1..(n + 1) : i \in 1..n \/ i = n + 1
    BY <1>1
  <2>3. \A i \in 1..(n + 1) : IsLast(p, i)' => i = n + 1
    BY <2>2, <1>3, <1>6
  <2>4. ASSUME NEW j \in 1..(n + 1), Before(p, j, n + 1)'
        PROVE  mail'[p][j] = [kind |-> "started", trip |-> e.trip]
    <3>1. j \in 1..n /\ Moving(p, j)' /\ ~Between(p, j, n + 1)'
      BY <1>1, <2>4 DEF Before
    <3>2. j \in 0..n /\ n + 1 \in 1..(n + 1)
      BY <1>1, <3>1
    <3>3. IsLast(p, j)
      BY <1>0, <1>1, <3>1, <3>2 DEF IsLast
    <3>4. mail[p][j].kind = "started" /\ mail[p][j].trip = e.trip
      BY <1>2, <1>6, <3>1, <3>3
    <3>5. mail[p][j] \in ClientEvent
      BY <1>1, <3>1
    <3>6. mail[p][j] = [kind |-> mail[p][j].kind, trip |-> mail[p][j].trip]
      BY <3>5 DEF ClientEvent
    <3> QED BY <1>1, <3>1, <3>4, <3>6
  <2>5. IsFirst(p, n + 1)' => tab'[p].active \subseteq {e.trip}
    <3> SUFFICES ASSUME IsFirst(p, n + 1)' PROVE tab'[p].active = {e.trip}
      OBVIOUS
    <3>1. ~Between(p, 0, n + 1)
      BY <1>1 DEF IsFirst
    <3>2. ASSUME NEW i \in 1..n PROVE ~Moving(p, i)
      <4>1. 0 < i /\ i < n + 1 /\ i \in DOMAIN mail[p]
        BY <1>1
      <4> QED BY <3>1, <4>1 DEF Between
    <3> QED BY <1>2, <1>6, <3>2
  <2>6. mail'[p][n + 1].kind # "started" /\ mail'[p][n + 1].trip = e.trip /\ RideOf(p)' = {}
    BY <1>1, <1>6
  <2>7. \A i \in 1..(n + 1) : IsLast(p, i)' =>
          RideOf(p)' = IF mail'[p][i].kind = "started" THEN {mail'[p][i].trip} ELSE {}
    BY <2>3, <2>6
  <2>8. ASSUME NEW i \in 1..n, mail'[p][i].kind = "completed"
        PROVE  /\ \A j \in 1..(n + 1) : Before(p, j, i)' => mail'[p][j] = [kind |-> "started", trip |-> mail'[p][i].trip]
               /\ IsFirst(p, i)' /\ IsLast(p, i)' => tab'[p].active \subseteq {mail'[p][i].trip}
    <3>1. mail'[p][i] = mail[p][i] /\ ~IsLast(p, i)'
      BY <1>1, <1>3, <1>6, <2>8
    <3>2. ASSUME NEW j \in 1..(n + 1), Before(p, j, i)'
          PROVE  mail'[p][j] = [kind |-> "started", trip |-> mail'[p][i].trip]
      <4>1. j \in 1..n /\ Before(p, j, i) /\ mail'[p][j] = mail[p][j]
        BY <1>1, <1>3, <3>2
      <4> QED BY <1>2, <2>8, <3>1, <4>1
    <3> QED BY <3>1, <3>2
  <2>9. ~(\A i \in 1..(n + 1) : ~Moving(p, i)')
    BY <2>1
  <2> QED BY <1>1, <2>2, <2>4, <2>5, <2>6, <2>7, <2>8, <2>9
<1> QED BY <1>4, <1>5, <1>6 DEF ClientEvent

\* A passenger's store hears the next event.
LEMMA StoreHears ==
  ASSUME NEW p, mail[p] \in Seq(ClientEvent), mail[p] # << >>, mail'[p] = Tail(mail[p]),
         StoreOK(p), <<p, "store">> \in misled => <<p, "store">> \in misled', RideOf(p)' = RideOf(p),
         NEW e, e = Head(mail[p]),
         \/ e.kind = "dropoff_requested" /\ tab'[p].active = tab[p].active
         \/ e.kind = "started" /\ tab'[p].active = {e.trip}
         \/ e.kind = "completed" /\ tab'[p].active = tab[p].active \ {e.trip}
  PROVE  StoreOK(p)'
<1> SUFFICES ASSUME <<p, "store">> \notin misled
    PROVE  /\ (\A i \in DOMAIN mail'[p] : ~Moving(p, i)') => tab'[p].active = RideOf(p)'
           /\ \A i \in DOMAIN mail'[p] : IsLast(p, i)' =>
                RideOf(p)' = IF mail'[p][i].kind = "started" THEN {mail'[p][i].trip} ELSE {}
           /\ \A i \in DOMAIN mail'[p] : mail'[p][i].kind = "completed" =>
                /\ \A j \in DOMAIN mail'[p] : Before(p, j, i)' => mail'[p][j] = [kind |-> "started", trip |-> mail'[p][i].trip]
                /\ IsFirst(p, i)' /\ IsLast(p, i)' => tab'[p].active \subseteq {mail'[p][i].trip}
  BY DEF StoreOK
<1>0. PICK n : n = Len(mail[p])
  OBVIOUS
<1>1. /\ n \in Nat /\ n >= 1 /\ Len(mail'[p]) = n - 1
      /\ DOMAIN mail[p] = 1..n /\ DOMAIN mail'[p] = 1..(n - 1)
      /\ Head(mail[p]) = mail[p][1] /\ \A i \in 1..(n - 1) : mail'[p][i] = mail[p][i + 1]
      /\ \A i \in 1..(n - 1) : Moving(p, i)' <=> Moving(p, i + 1)
      /\ \A j, i \in 0..n : Between(p, j, i)' <=> Between(p, j + 1, i + 1)
  BY <1>0, EventTaken
<1>2. /\ (\A i \in 1..n : ~Moving(p, i)) => tab[p].active = RideOf(p)
      /\ \A i \in 1..n : IsLast(p, i) => RideOf(p) = IF mail[p][i].kind = "started" THEN {mail[p][i].trip} ELSE {}
      /\ \A i \in 1..n : mail[p][i].kind = "completed" =>
           /\ \A j \in 1..n : Before(p, j, i) => mail[p][j] = [kind |-> "started", trip |-> mail[p][i].trip]
           /\ IsFirst(p, i) /\ IsLast(p, i) => tab[p].active \subseteq {mail[p][i].trip}
  BY <1>1 DEF StoreOK
<1>3. \A i \in 1..(n - 1) : i + 1 \in 1..n /\ i \in 0..n
  BY <1>1
<1>4. \A i \in 1..(n - 1) : IsLast(p, i)' <=> IsLast(p, i + 1)
  <2>1. ASSUME NEW i \in 1..(n - 1) PROVE IsLast(p, i)' <=> Moving(p, i)' /\ ~Between(p, i, n)'
    <3>1. Len(mail'[p]) + 1 = n
      BY <1>1
    <3> QED BY <3>1 DEF IsLast
  <2>2. \A i \in 1..(n - 1) : IsLast(p, i + 1) <=> Moving(p, i + 1) /\ ~Between(p, i + 1, n + 1)
    BY <1>0 DEF IsLast
  <2>3. n \in 0..n
    BY <1>1
  <2> QED BY <1>1, <1>3, <2>1, <2>2, <2>3
<1>5. ASSUME NEW i \in 1..(n - 1), NEW j \in 1..(n - 1), Before(p, j, i)'
      PROVE  Before(p, j + 1, i + 1)
  BY <1>1, <1>3, <1>5 DEF Before
<1>6. ASSUME NEW i \in 1..(n - 1), IsFirst(p, i)'
      PROVE  /\ Moving(p, i + 1) /\ ~Between(p, 1, i + 1)
             /\ IF Moving(p, 1) THEN Before(p, 1, i + 1) ELSE IsFirst(p, i + 1)
  <2>1. Moving(p, i + 1) /\ ~Between(p, 1, i + 1)
    <3>1. 0 \in 0..n /\ 0 + 1 = 1
      BY <1>1
    <3> QED BY <1>1, <1>3, <1>6, <3>1 DEF IsFirst
  <2>2. 1 < i + 1 /\ \A m \in 1..n : m = 1 \/ 1 < m
    BY <1>1
  <2>3. ~Moving(p, 1) => ~Between(p, 0, i + 1)
    BY <1>1, <2>1, <2>2 DEF Between
  <2> QED BY <2>1, <2>2, <2>3 DEF Before, IsFirst
<1>7. 1 \in 1..n /\ mail[p][1] = e /\ (Moving(p, 1) <=> e.kind # "dropoff_requested")
  BY <1>1 DEF Moving
<1>8. \A i \in 1..n : i = 1 \/ (i - 1 \in 1..(n - 1) /\ (i - 1) + 1 = i)
  BY <1>1
<1>9. ASSUME \A i \in 1..(n - 1) : ~Moving(p, i)'
      PROVE  tab'[p].active = RideOf(p)'
  <2>1. ASSUME NEW i \in 1..n PROVE i = 1 \/ ~Moving(p, i)
    <3>1. i # 1 => i - 1 \in 1..(n - 1) /\ (Moving(p, i - 1)' <=> Moving(p, (i - 1) + 1)) /\ (i - 1) + 1 = i
      BY <1>1, <1>8
    <3> QED BY <1>9, <3>1
  <2>2. CASE ~Moving(p, 1)
    BY <1>2, <1>7, <2>1, <2>2
  <2>3. CASE Moving(p, 1)
    <3>1. ~Between(p, 0, 1) /\ ~Between(p, 1, n + 1)
      BY <1>1, <2>1 DEF Between
    <3>2. IsFirst(p, 1) /\ IsLast(p, 1)
      BY <1>0, <2>3, <3>1 DEF IsFirst, IsLast
    <3>3. CASE e.kind = "started"
      BY <1>2, <1>7, <3>2, <3>3
    <3>4. CASE e.kind = "completed"
      BY <1>2, <1>7, <3>2, <3>4
    <3> QED BY <1>7, <2>3, <3>3, <3>4
  <2> QED BY <2>2, <2>3
<1>10. ASSUME NEW i \in 1..(n - 1), IsLast(p, i)'
       PROVE  RideOf(p)' = IF mail'[p][i].kind = "started" THEN {mail'[p][i].trip} ELSE {}
  <2>1. IsLast(p, i + 1) /\ mail'[p][i] = mail[p][i + 1] /\ i + 1 \in 1..n
    BY <1>1, <1>3, <1>4, <1>10
  <2> QED BY <1>2, <2>1
<1>11. ASSUME NEW i \in 1..(n - 1), mail'[p][i].kind = "completed"
       PROVE  /\ \A j \in 1..(n - 1) : Before(p, j, i)' => mail'[p][j] = [kind |-> "started", trip |-> mail'[p][i].trip]
              /\ IsFirst(p, i)' /\ IsLast(p, i)' => tab'[p].active \subseteq {mail'[p][i].trip}
  <2>1. mail'[p][i] = mail[p][i + 1] /\ i + 1 \in 1..n /\ mail[p][i + 1].kind = "completed"
    BY <1>1, <1>3, <1>11
  <2>2. ASSUME NEW j \in 1..(n - 1), Before(p, j, i)'
        PROVE  mail'[p][j] = [kind |-> "started", trip |-> mail'[p][i].trip]
    <3>1. Before(p, j + 1, i + 1) /\ mail'[p][j] = mail[p][j + 1] /\ j + 1 \in 1..n
      BY <1>1, <1>3, <1>5, <2>2
    <3>2. mail[p][j + 1] = [kind |-> "started", trip |-> mail[p][i + 1].trip]
      BY <1>2, <2>1, <3>1, Zenon
    <3> QED BY <2>1, <3>1, <3>2
  <2>3. ASSUME IsFirst(p, i)', IsLast(p, i)' PROVE tab'[p].active \subseteq {mail'[p][i].trip}
    <3>1. CASE Moving(p, 1)
      <4>1. e = [kind |-> "started", trip |-> mail[p][i + 1].trip]
        BY <1>2, <1>6, <1>7, <2>1, <2>3, <3>1
      <4>2. e.kind = "started" /\ e.trip = mail[p][i + 1].trip
        BY <4>1
      <4> QED BY <2>1, <4>2
    <3>2. CASE ~Moving(p, 1)
      <4>1. IsFirst(p, i + 1) /\ IsLast(p, i + 1)
        BY <1>4, <1>6, <2>3, <3>2
      <4> QED BY <1>2, <1>7, <2>1, <3>2, <4>1
    <3> QED BY <3>1, <3>2
  <2> QED BY <2>2, <2>3
<1> QED BY <1>1, <1>9, <1>10, <1>11

-----------------------------------------------------------------------------
(* The steps.                                                              *)
LEMMA Typed ==
  ASSUME RideIInv
  PROVE  /\ RideT /\ RidesOK /\ tab \in [Passengers -> Tab] /\ desk \in Desk /\ mail \in [Clients -> Seq(ClientEvent)]
         /\ calls \in Seq(Call) /\ link \in [Clients -> BOOLEAN] /\ turns \in [Clients -> 0..MaxTurns]
         /\ misled \in SUBSET (Clients \X {"store", "page"})
         /\ DeskOK /\ AllAskOK /\ AllTellOK /\ RequestsOK /\ \A p \in Passengers : TabIsFine(p)
BY DEF RideIInv, ClientTypeOK, RideT, TabIsFine

LEMMA OneAtMost ==
  ASSUME NEW S, S = {} \/ \E t : S = {t}
  PROVE  Cardinality(S) <= 1
<1>1. CASE S = {}
  BY <1>1, FS_EmptySet
<1>2. CASE \E t : S = {t}
  BY <1>2, FS_Singleton
<1> QED BY <1>1, <1>2

\* Every event is one that told the truth before, or does now.
LEMMA AllTellStill ==
  ASSUME RideT, RidesGoOn,
         \A c \in Clients : \A i \in DOMAIN mail'[c] :
           \E e \in ClientEvent : mail'[c][i] = e /\ (TellsOK(c, e) \/ TellsOK(c, e)')
  PROVE  AllTellOK'
<1> SUFFICES ASSUME NEW c \in Clients, NEW i \in DOMAIN mail'[c] PROVE TellsOK(c, mail[c][i])'
  BY DEF AllTellOK
<1>1. PICK e \in ClientEvent : mail'[c][i] = e /\ (TellsOK(c, e) \/ TellsOK(c, e)')
  OBVIOUS
<1>2. TellsOK(c, e)'
  BY <1>1, TellsStill
<1> QED BY <1>1, <1>2

LEMMA Assembled ==
  ASSUME RidesGoOn, tab' \in [Passengers -> Tab], desk' \in Desk, mail' \in [Clients -> Seq(ClientEvent)],
         calls' \in Seq(Call), link' \in [Clients -> BOOLEAN], turns' \in [Clients -> 0..MaxTurns],
         misled' \in SUBSET (Clients \X {"store", "page"}),
         DeskOK', AllAskOK', AllTellOK', RequestsOK', \A p \in Passengers : TabIsFine(p)'
  PROVE  RideIInv'
<1>1. ASSUME NEW p \in Passengers
      PROVE  Cardinality(tab'[p].active) <= 1 /\ (tab'[p].page = "trip" <=> tab'[p].viewed # {})
  <2>1. TabOK(p)'
    BY DEF TabIsFine
  <2>3. tab'[p].active = {} \/ \E t \in Rides : tab'[p].active = {t}
    BY <2>1 DEF TabOK, AtMostOne
  <2>4. Cardinality(tab'[p].active) <= 1
    BY <2>3, OneAtMost
  <2> QED BY <2>1, <2>4 DEF TabOK
<1>2. ClientTypeOK'
  BY <1>1 DEF ClientTypeOK, RidesGoOn, RideT
<1> QED BY <1>2 DEF RideIInv, RidesGoOn, TabIsFine

LEMMA TurnTaken ==
  ASSUME turns \in [Clients -> 0..MaxTurns], NEW c \in Clients, Turn(c)
  PROVE  turns' \in [Clients -> 0..MaxTurns]
<1>1. MaxTurns \in Nat /\ turns[c] \in 0..MaxTurns /\ turns[c] < MaxTurns
  BY TripClientAssumption DEF Turn
<1>2. turns' = [turns EXCEPT ![c] = turns[c] + 1] /\ turns[c] + 1 \in 0..MaxTurns
  BY <1>1 DEF Turn
<1> QED BY <1>2

LEMMA InitRideIInv == ClientInit => RideIInv
<1> SUFFICES ASSUME ClientInit PROVE RideIInv
  OBVIOUS
<1>1. RideT /\ RidesOK
  BY TripClientAssumption DEF ClientInit, RideT, RidesOK
<1>2. \A p \in Passengers : /\ tab[p] \in Tab /\ tab[p].active = {} /\ tab[p].viewed = {} /\ tab[p].awaiting = {}
                            /\ tab[p].page = "scan"
  BY DEF ClientInit, FreshTab, Tab, Pages
<1>3. tab \in [Passengers -> Tab]
  BY <1>2 DEF ClientInit
<1>4. desk \in Desk /\ DeskOK
  BY DEF ClientInit, Desk, DeskOK, NoDialog, Started
<1>5. calls \in Seq(Call) /\ mail \in [Clients -> Seq(ClientEvent)] /\ link \in [Clients -> BOOLEAN] /\ misled = {}
      /\ Flying(calls) = {}
  BY DEF ClientInit, Flying
<1>6. turns \in [Clients -> 0..MaxTurns]
  BY TripClientAssumption DEF ClientInit
<1>7. AllAskOK /\ AllTellOK
  BY <1>5 DEF ClientInit, AllAskOK, AllTellOK
<1>8. \A p \in Passengers : RideOf(p) = {}
  BY <1>1, RideIs DEF ClientInit
<1>9. \A p \in Passengers : p \in Clients /\ mail[p] = << >> /\ DOMAIN mail[p] = {}
  BY DEF ClientInit, Clients
<1>10. ASSUME NEW p \in Passengers PROVE TabOK(p) /\ StoreOK(p) /\ PageOK(p)
  <2>1. TabOK(p)
    BY <1>2 DEF TabOK, Started, Of
  <2>2. StoreOK(p)
    BY <1>2, <1>8, <1>9 DEF StoreOK
  <2>3. PageOK(p)
    BY <1>2 DEF PageOK
  <2> QED BY <2>1, <2>2, <2>3
<1>11. RequestsOK
  <2> SUFFICES ASSUME NEW t \in Onboard PROVE FALSE
    BY DEF RequestsOK
  <2>1. t \in Rides /\ t[1] \in Passengers /\ ride[t[1]].on
    BY <1>1, OnboardIs DEF Onboard, Rides
  <2> QED BY <2>1 DEF ClientInit
<1>12. ASSUME NEW p \in Passengers
       PROVE  Cardinality(tab[p].active) <= 1 /\ (tab[p].page = "trip" <=> tab[p].viewed # {})
  <2>2. Cardinality(tab[p].active) <= 1
    BY <1>2, OneAtMost
  <2> QED BY <1>2, <2>2
<1>13. ClientTypeOK
  BY <1>1, <1>3, <1>4, <1>5, <1>6, <1>12 DEF ClientTypeOK, RideT
<1> QED BY <1>1, <1>4, <1>7, <1>10, <1>11, <1>13 DEF RideIInv

\* The rides, what the tabs show, the events and the history stand: the driver's
\* screen moves, and calls that load no trip.
LEMMA DeskStep ==
  ASSUME RideIInv, ride' = ride, tab' \in [Passengers -> Tab], \A p \in Passengers : SameTab(p),
         misled' = misled, mail' \in [Clients -> Seq(ClientEvent)],
         \A p \in Passengers : mail'[p] = mail[p],
         \A i \in DOMAIN mail'[Driver] : TellsOK(Driver, mail'[Driver][i]),
         link' \in [Clients -> BOOLEAN], turns' \in [Clients -> 0..MaxTurns],
         desk' \in Desk, DeskOK',
         \A t \in Onboard : t \in desk.pending \/ Requested(Driver, t) => t \in desk'.pending \/ Requested(Driver, t)',
         calls' \in Seq(Call), \A k \in Flying(calls') : k \in Flying(calls) \/ AsksOK(k)',
         \A p \in Passengers : PageLoads(p) => PageLoads(p)'
  PROVE  RideIInv'
<1>1. RidesGoOn /\ Onboard' = Onboard /\ \A p : RideOf(p)' = RideOf(p)
  BY Typed, RidesStand
<1>2. AllAskOK'
  BY <1>1, Typed, AllAskStill DEF SameTab
<1>3. AllTellOK'
  <2>1. ASSUME NEW c \in Clients, NEW i \in DOMAIN mail'[c]
        PROVE  \E e \in ClientEvent : mail'[c][i] = e /\ TellsOK(c, e)
    <3>1. mail'[c][i] \in ClientEvent
      OBVIOUS
    <3>2. c # Driver => mail'[c] = mail[c]
      BY DEF Clients
    <3>3. TellsOK(c, mail'[c][i])
      BY <3>2, Typed DEF AllTellOK
    <3> QED BY <3>1, <3>3
  <2> QED BY <1>1, <2>1, Typed, AllTellStill
<1>4. RequestsOK'
  <2>1. \A p \in Passengers : \A t : Requested(p, t)' <=> Requested(p, t)
    BY DEF Requested
  <2>2. \A t \in Onboard : t[1] \in Passengers
    BY DEF Onboard, Rides
  <2> QED BY <1>1, <2>1, <2>2, Typed DEF RequestsOK, SameTab
<1>5. ASSUME NEW p \in Passengers PROVE TabIsFine(p)'
  <2>1. Untouched(p)
    BY <1>1 DEF Untouched
  <2> QED BY <1>1, <2>1, Typed, UntouchedStill
<1> QED BY <1>1, <1>2, <1>3, <1>4, <1>5, Typed, Assembled

-----------------------------------------------------------------------------
(* The server's steps.                                                     *)
LEMMA RideFacts ==
  ASSUME RideT, RidesOK
  PROVE  /\ Onboard \in SUBSET Rides /\ Started(Onboard)
         /\ \A p \in Passengers : Sound(p, RideOf(p)) /\ One(RideOf(p))
<1>1. Onboard \in SUBSET Rides
  BY DEF Onboard
<1>2. \A t \in Onboard : t[2] <= ride[t[1]].n
  <2> SUFFICES ASSUME NEW t \in Onboard PROVE t[2] <= ride[t[1]].n
    OBVIOUS
  <2>1. t \in Rides /\ t[2] = ride[t[1]].n /\ t[2] \in Nat
    BY <1>1, OnboardIs DEF Rides
  <2> QED BY <2>1
<1>3. ASSUME NEW p \in Passengers PROVE Sound(p, RideOf(p)) /\ One(RideOf(p))
  <2>1. RideOf(p) \subseteq Onboard /\ Of(p, RideOf(p))
    BY DEF RideOf, Of
  <2>2. One(RideOf(p))
    BY RideIs DEF One, AtMostOne
  <2> QED BY <1>1, <1>2, <2>1, <2>2 DEF Sound, Started
<1> QED BY <1>1, <1>2, <1>3 DEF Started

\* The call i gets an answer.
LEMMA ReplyEffect ==
  ASSUME calls \in Seq(Call), AllAskOK, NEW i \in DOMAIN calls, NEW R \in SUBSET Rides, Reply(i, R)
  PROVE  /\ calls' \in Seq(Call)
         /\ \A p : PageLoads(p) => PageLoads(p)'
         /\ \E k \in Call : /\ k.who = calls[i].who /\ k.kind = calls[i].kind /\ k.about = calls[i].about
                            /\ k.origin = calls[i].origin /\ k.stage = "answered" /\ k.rides = R
                            /\ \A m \in Flying(calls') : m \in Flying(calls) \/ m = k
<1> DEFINE c == calls[i]
           k == [c EXCEPT !.stage = "answered", !.rides = R]
<1>1. c \in Call /\ AsksOK(c)
  BY DEF AllAskOK, Flying
<1>2. /\ k \in Call /\ k.who = c.who /\ k.kind = c.kind /\ k.about = c.about
      /\ k.origin = c.origin /\ k.stage = "answered" /\ k.rides = R
  BY <1>1 DEF Call
<1>3. CASE c.origin = "gone"
  <2>1. calls' = Done(i)
    BY <1>3 DEF Reply
  <2>2. /\ calls' \in Seq(Call) /\ Flying(calls') \subseteq Flying(calls)
        /\ \A m \in Flying(calls) : m \in Flying(calls') \/ m = c
    BY <2>1, CallDone
  <2>3. c.kind # "trip"
    BY <1>1, <1>3 DEF AsksOK, Writes
  <2>4. \A p : PageLoads(p) => PageLoads(p)'
    BY <2>2, <2>3 DEF PageLoads
  <2> QED BY <1>2, <2>2, <2>4
<1>4. CASE c.origin # "gone"
  <2>1. calls' = [calls EXCEPT ![i] = k]
    BY <1>4 DEF Reply
  <2> HIDE DEF k
  <2>2. /\ calls' \in Seq(Call) /\ Flying(calls') \subseteq Flying(calls) \cup {k} /\ k \in Flying(calls')
        /\ \A m \in Flying(calls) : m \in Flying(calls') \/ m = c
    BY <1>2, <2>1, CallMoved
  <2>3. \A p : PageLoads(p) => PageLoads(p)'
    BY <1>2, <2>2 DEF PageLoads
  <2> QED BY <1>2, <2>2, <2>3
<1> QED BY <1>3, <1>4

\* The call i fails.
LEMMA FailEffect ==
  ASSUME calls \in Seq(Call), AllAskOK, NEW i \in DOMAIN calls,
         \/ calls[i].origin = "gone" /\ calls' = Done(i)
         \/ calls' = [calls EXCEPT ![i].stage = "failed"]
  PROVE  /\ calls' \in Seq(Call)
         /\ \A p : PageLoads(p) => PageLoads(p)'
         /\ \E k \in Call : /\ k.who = calls[i].who /\ k.kind = calls[i].kind /\ k.about = calls[i].about
                            /\ k.origin = calls[i].origin /\ k.stage = "failed" /\ k.rides = calls[i].rides
                            /\ \A m \in Flying(calls') : m \in Flying(calls) \/ m = k
<1> DEFINE c == calls[i]
           k == [c EXCEPT !.stage = "failed"]
<1>1. c \in Call /\ AsksOK(c)
  BY DEF AllAskOK, Flying
<1>2. /\ k \in Call /\ k.who = c.who /\ k.kind = c.kind /\ k.about = c.about
      /\ k.origin = c.origin /\ k.stage = "failed" /\ k.rides = c.rides
  BY <1>1 DEF Call
<1>3. CASE c.origin = "gone" /\ calls' = Done(i)
  <2>2. /\ calls' \in Seq(Call) /\ Flying(calls') \subseteq Flying(calls)
        /\ \A m \in Flying(calls) : m \in Flying(calls') \/ m = c
    BY <1>3, CallDone
  <2>3. c.kind # "trip"
    BY <1>1, <1>3 DEF AsksOK, Writes
  <2>4. \A p : PageLoads(p) => PageLoads(p)'
    BY <2>2, <2>3 DEF PageLoads
  <2> QED BY <1>2, <2>2, <2>4
<1>4. CASE calls' = [calls EXCEPT ![i].stage = "failed"]
  <2>1. calls' = [calls EXCEPT ![i] = k]
    BY <1>4
  <2> HIDE DEF k
  <2>2. /\ calls' \in Seq(Call) /\ Flying(calls') \subseteq Flying(calls) \cup {k} /\ k \in Flying(calls')
        /\ \A m \in Flying(calls) : m \in Flying(calls') \/ m = c
    BY <1>2, <2>1, CallMoved
  <2>3. \A p : PageLoads(p) => PageLoads(p)'
    BY <1>2, <2>2 DEF PageLoads
  <2> QED BY <1>2, <2>2, <2>3
<1> QED BY <1>3, <1>4

\* Nothing but a call moves.
LEMMA CallStep ==
  ASSUME RideIInv, UNCHANGED <<ride, tab, desk, link, mail, misled>>, turns' \in [Clients -> 0..MaxTurns],
         calls' \in Seq(Call), \A k \in Flying(calls') : k \in Flying(calls) \/ AsksOK(k)',
         \A p \in Passengers : PageLoads(p) => PageLoads(p)'
  PROVE  RideIInv'
<1>1. \A i \in DOMAIN mail'[Driver] : TellsOK(Driver, mail'[Driver][i])
  BY Typed DEF AllTellOK, Clients
<1>2. DeskOK'
  BY Typed DEF DeskOK, Started
<1>3. \A t : Requested(Driver, t)' <=> Requested(Driver, t)
  BY DEF Requested
<1>4. tab' \in [Passengers -> Tab] /\ \A p \in Passengers : SameTab(p)
  BY Typed DEF SameTab
<1> QED BY <1>1, <1>2, <1>3, <1>4, Typed, DeskStep

\* Asked of a call that lives on with another answer.
LEMMA AsksMoved ==
  ASSUME RideT, RidesGoOn, tab' = tab, NEW c \in Call, AsksOK(c), NEW k \in Call,
         k.who = c.who, k.kind = c.kind, k.about = c.about, k.origin = c.origin,
         Started(k.rides)', k.who # Driver => Of(k.who, k.rides),
         k.stage = "answered" =>
           /\ k.kind = "complete" => k.about \cap Onboard' = {}
           /\ k.kind = "pickup" => k.rides # {} /\ AtMostOne(k.rides)
           /\ k.kind = "active" => One(k.rides)
  PROVE  AsksOK(k)'
<1>1. c.about \in SUBSET Rides /\ Started(c.about)
  BY DEF Call, AsksOK, Started
<1>2. Started(c.about)'
  BY <1>1, StartedStill
<1>3. Started(k.about \cup k.rides)'
  BY <1>2 DEF Started
<1>4. k.who # Driver => Of(k.who, k.about \cup k.rides)
  BY DEF AsksOK, Of
<1> QED BY <1>3, <1>4 DEF AsksOK, Of, One, AtMostOne

LEMMA ReadStep == ASSUME RideIInv, NEW i \in DOMAIN calls, Read(i) PROVE RideIInv'
<1> DEFINE c == calls[i]
           R == CASE c.kind = "active" -> RideOf(c.who)
                  [] c.kind = "trip"   -> c.about \cap Onboard
                  [] c.kind = "sheet"  -> Onboard
<1>1. c.kind \in Reads /\ Reply(i, R) /\ UNCHANGED <<ride, tab, desk, link, mail, turns, misled>>
  BY DEF Read
<1>2. c \in Call /\ AsksOK(c)
  BY Typed DEF AllAskOK, Flying
<1>3. c.kind # "sheet" => c.who \in Passengers /\ c.who # Driver
  BY <1>1, <1>2 DEF AsksOK, Reads, Call, Clients
<1>4. /\ R \in SUBSET Rides /\ Started(R) /\ (c.who # Driver => Of(c.who, R))
      /\ c.kind = "active" => One(R)
  <2>1. CASE c.kind = "active"
    BY <1>3, <2>1, Typed, RideFacts DEF Sound
  <2>2. CASE c.kind = "trip"
    <3>1. R = c.about \cap Onboard
      BY <2>2
    <3>2. Onboard \in SUBSET Rides /\ Started(Onboard)
      BY Typed, RideFacts
    <3>3. Of(c.who, R)
      BY <1>2, <1>3, <2>2, <3>1 DEF AsksOK, Of
    <3>4. R \in SUBSET Rides /\ Started(R)
      BY <3>1, <3>2 DEF Started
    <3> QED BY <2>2, <3>3, <3>4
  <2>3. CASE c.kind = "sheet"
    <3>1. R = Onboard /\ c.who = Driver
      BY <1>2, <2>3 DEF AsksOK
    <3> QED BY <2>3, <3>1, Typed, RideFacts
  <2> QED BY <1>1, <2>1, <2>2, <2>3 DEF Reads
<1>5. PICK Q : Q = R
  OBVIOUS
<1>6. /\ calls' \in Seq(Call)
      /\ \A p : PageLoads(p) => PageLoads(p)'
      /\ \E k \in Call : /\ k.who = c.who /\ k.kind = c.kind /\ k.about = c.about
                         /\ k.origin = c.origin /\ k.stage = "answered" /\ k.rides = Q
                         /\ \A m \in Flying(calls') : m \in Flying(calls) \/ m = k
  <2> HIDE DEF R
  <2>1. Reply(i, Q) /\ Q \in SUBSET Rides
    BY <1>1, <1>4, <1>5
  <2> QED BY <2>1, Typed, ReplyEffect
<1>7. PICK k \in Call : /\ k.who = c.who /\ k.kind = c.kind /\ k.about = c.about
                        /\ k.origin = c.origin /\ k.stage = "answered" /\ k.rides = Q
                        /\ \A m \in Flying(calls') : m \in Flying(calls) \/ m = k
  BY <1>6
<1>8. PICK d : d = c
  OBVIOUS
<1> HIDE DEF R, c
<1>9. AsksOK(k)'
  <2>1. RidesGoOn
    BY <1>1, Typed, RidesStand
  <2>2. Started(Q)'
    BY <1>4, <1>5, <2>1, Typed, StartedStill
  <2>3. k.kind \notin {"complete", "pickup"}
    BY <1>1, <1>7 DEF Reads
  <2> QED BY <1>1, <1>2, <1>4, <1>5, <1>7, <1>8, <2>1, <2>2, <2>3, Typed, AsksMoved
<1> QED BY <1>1, <1>6, <1>7, <1>9, Typed, CallStep

LEMMA FailStep ==
  ASSUME RideIInv, NEW i \in DOMAIN calls, Refuse(i) \/ Lose(i)
  PROVE  RideIInv'
<1>1. /\ UNCHANGED <<ride, tab, desk, link, mail, misled>>
      /\ \/ calls[i].origin = "gone" /\ calls' = Done(i)
         \/ calls' = [calls EXCEPT ![i].stage = "failed"]
  BY DEF Refuse, Lose
<1>2. turns' \in [Clients -> 0..MaxTurns]
  <2>1. calls[i] \in Call
    BY Typed
  <2>2. calls[i].who \in Clients
    BY <2>1 DEF Call
  <2> QED BY <2>2, Typed, TurnTaken DEF Refuse, Lose
<1>3. PICK c : c = calls[i]
  OBVIOUS
<1>4. c \in Call /\ AsksOK(c)
  BY <1>3, Typed DEF AllAskOK, Flying
<1>5. /\ calls' \in Seq(Call)
      /\ \A p : PageLoads(p) => PageLoads(p)'
      /\ \E k \in Call : /\ k.who = calls[i].who /\ k.kind = calls[i].kind /\ k.about = calls[i].about
                         /\ k.origin = calls[i].origin /\ k.stage = "failed" /\ k.rides = calls[i].rides
                         /\ \A m \in Flying(calls') : m \in Flying(calls) \/ m = k
  BY <1>1, Typed, FailEffect
<1>6. PICK k \in Call : /\ k.who = c.who /\ k.kind = c.kind /\ k.about = c.about
                        /\ k.origin = c.origin /\ k.stage = "failed" /\ k.rides = c.rides
                        /\ \A m \in Flying(calls') : m \in Flying(calls) \/ m = k
  BY <1>3, <1>5
<1>7. AsksOK(k)'
  <2>1. RidesGoOn
    BY <1>1, Typed, RidesStand
  <2>2. Started(c.rides) /\ c.rides \in SUBSET Rides /\ (c.who # Driver => Of(c.who, c.rides))
    BY <1>4 DEF AsksOK, Started, Call, Of
  <2>3. Started(c.rides)'
    BY <2>1, <2>2, Typed, StartedStill
  <2> QED BY <1>1, <1>4, <1>6, <2>1, <2>2, <2>3, Typed, AsksMoved
<1> QED BY <1>1, <1>2, <1>5, <1>6, <1>7, CallStep

-----------------------------------------------------------------------------
(* The server's events.                                                    *)
\* Trip t's passenger and the driver are told, unless their sockets are down.
Announced(kind, t, e) ==
  /\ e \in ClientEvent /\ e.kind = kind /\ e.trip = t
  /\ mail' \in [Clients -> Seq(ClientEvent)] /\ misled' \in SUBSET (Clients \X {"store", "page"})
  /\ misled \subseteq misled'
  /\ \A c \in Clients \ {t[1], Driver} : mail'[c] = mail[c]
  /\ \A c \in {t[1], Driver} :
       \/ mail'[c] = Append(mail[c], e)
       \/ mail'[c] = mail[c] /\ <<c, "store">> \in misled' /\ <<c, "page">> \in misled'
  /\ \A c \in Clients : \A u : Requested(c, u) => Requested(c, u)'
  /\ \A c \in Clients : \A u : Requested(c, u)' => Requested(c, u) \/ (kind = "dropoff_requested" /\ u = t)
  /\ kind = "dropoff_requested" => Requested(Driver, t)' \/ <<Driver, "store">> \in misled'
  /\ \A p \in Passengers : EndComes(p) => EndComes(p)'
  /\ kind = "completed" /\ tab[t[1]].viewed = {t} => EndComes(t[1])' \/ <<t[1], "page">> \in misled'

LEMMA PublishEffect ==
  ASSUME mail \in [Clients -> Seq(ClientEvent)], misled \in SUBSET (Clients \X {"store", "page"}), tab' = tab,
         NEW kind \in {"started", "dropoff_requested", "completed"}, NEW t \in Rides, Publish(kind, t),
         NEW e, e = [kind |-> kind, trip |-> t]
  PROVE  Announced(kind, t, e)
<1>1. e \in ClientEvent /\ e.kind = kind /\ e.trip = t
  BY DEF ClientEvent
<1>2. t[1] \in Clients /\ Driver \in Clients /\ t[1] \in Passengers
  BY DEF Rides, Clients
<1> DEFINE told == { c \in {t[1], Driver} : link[c] }
<1>3. /\ mail' = [c \in Clients |-> IF c \in told THEN Append(mail[c], e) ELSE mail[c]]
      /\ misled' = misled \cup ({t[1], Driver} \ told) \X {"store", "page"}
  BY DEF Publish
<1>4. mail' \in [Clients -> Seq(ClientEvent)]
  <2>1. \A c \in Clients : Append(mail[c], e) \in Seq(ClientEvent)
    BY <1>1
  <2> QED BY <1>3, <2>1
<1>5. misled' \in SUBSET (Clients \X {"store", "page"}) /\ misled \subseteq misled'
  BY <1>2, <1>3
<1>6. \A c \in Clients \ {t[1], Driver} : mail'[c] = mail[c]
  BY <1>3
<1>7. \A c \in {t[1], Driver} :
        \/ mail'[c] = Append(mail[c], e)
        \/ mail'[c] = mail[c] /\ <<c, "store">> \in misled' /\ <<c, "page">> \in misled'
  BY <1>2, <1>3
<1>8. ASSUME NEW c \in Clients, mail'[c] = Append(mail[c], e)
      PROVE  /\ \A i \in DOMAIN mail[c] : i \in DOMAIN mail'[c] /\ mail'[c][i] = mail[c][i]
             /\ \E i \in DOMAIN mail'[c] : mail'[c][i] = e
             /\ \A i \in DOMAIN mail'[c] : i \in DOMAIN mail[c] \/ mail'[c][i] = e
  <2>1. /\ Len(mail'[c]) = Len(mail[c]) + 1 /\ DOMAIN mail'[c] = DOMAIN mail[c] \cup {Len(mail[c]) + 1}
        /\ mail'[c][Len(mail[c]) + 1] = e /\ \A k \in DOMAIN mail[c] : mail'[c][k] = mail[c][k]
    BY <1>1, <1>8, OneAppended
  <2> QED BY <2>1
<1>9. \A c \in Clients : mail'[c] = mail[c] \/ mail'[c] = Append(mail[c], e)
  BY <1>6, <1>7
<1>10. ASSUME NEW c \in Clients, NEW u
       PROVE  /\ Requested(c, u) => Requested(c, u)'
              /\ Requested(c, u)' => Requested(c, u) \/ (kind = "dropoff_requested" /\ u = t)
  <2>1. CASE mail'[c] = mail[c]
    BY <2>1 DEF Requested
  <2>2. CASE mail'[c] = Append(mail[c], e)
    <3>1. e = [kind |-> "dropoff_requested", trip |-> u] => kind = "dropoff_requested" /\ u = t
      BY <1>1
    <3> QED BY <1>8, <2>2, <3>1 DEF Requested
  <2> QED BY <1>9, <2>1, <2>2
<1>11. kind = "dropoff_requested" => Requested(Driver, t)' \/ <<Driver, "store">> \in misled'
  <2>1. CASE mail'[Driver] = Append(mail[Driver], e)
    BY <1>2, <1>8, <2>1 DEF Requested
  <2> QED BY <1>7, <2>1
<1>12. ASSUME NEW p \in Passengers, EndComes(p) PROVE EndComes(p)'
  <2>1. p \in Clients
    BY DEF Clients
  <2> QED BY <1>8, <1>9, <1>12, <2>1 DEF EndComes
<1>13. kind = "completed" /\ tab[t[1]].viewed = {t} => EndComes(t[1])' \/ <<t[1], "page">> \in misled'
  <2>1. CASE mail'[t[1]] = Append(mail[t[1]], e)
    <3>1. PICK i \in DOMAIN mail'[t[1]] : mail'[t[1]][i] = e
      BY <1>2, <1>8, <2>1
    <3> QED BY <1>1, <3>1 DEF EndComes
  <2> QED BY <1>7, <2>1
<1> HIDE DEF told
<1> QED BY <1>1, <1>4, <1>5, <1>6, <1>7, <1>10, <1>11, <1>12, <1>13 DEF Announced

\* The server tells of trip t, and does nothing to the other rides.
LEMMA EventStep ==
  ASSUME RideIInv, RidesGoOn, UNCHANGED <<tab, desk, link, turns>>, NEW t \in Rides,
         NEW kind \in {"started", "dropoff_requested", "completed"}, Publish(kind, t),
         Started({t})', kind = "completed" => t \notin Onboard',
         \A q \in Passengers \ {t[1]} : RideOf(q)' = RideOf(q),
         \/ kind = "dropoff_requested" /\ RideOf(t[1])' = RideOf(t[1])
         \/ kind = "started" /\ RideOf(t[1]) = {} /\ RideOf(t[1])' = {t} /\ ~Started({t})
         \/ kind = "completed" /\ RideOf(t[1]) = {t} /\ RideOf(t[1])' = {},
         Onboard' \subseteq Onboard \cup {t},
         kind # "started" => Onboard' \subseteq Onboard,
         calls' \in Seq(Call), \A k \in Flying(calls') : k \in Flying(calls) \/ AsksOK(k)',
         \A p \in Passengers : PageLoads(p) => PageLoads(p)'
  PROVE  RideIInv'
<1> DEFINE p == t[1]
<1>1. PICK e : e = [kind |-> kind, trip |-> t]
  OBVIOUS
<1>2. /\ e \in ClientEvent /\ e.kind = kind /\ e.trip = t
      /\ mail' \in [Clients -> Seq(ClientEvent)] /\ misled' \in SUBSET (Clients \X {"store", "page"})
      /\ misled \subseteq misled'
      /\ \A c \in Clients \ {t[1], Driver} : mail'[c] = mail[c]
      /\ \A c \in {t[1], Driver} :
           \/ mail'[c] = Append(mail[c], e)
           \/ mail'[c] = mail[c] /\ <<c, "store">> \in misled' /\ <<c, "page">> \in misled'
      /\ \A c \in Clients : \A u : Requested(c, u) => Requested(c, u)'
      /\ \A c \in Clients : \A u : Requested(c, u)' => Requested(c, u) \/ (kind = "dropoff_requested" /\ u = t)
      /\ kind = "dropoff_requested" => Requested(Driver, t)' \/ <<Driver, "store">> \in misled'
      /\ \A q \in Passengers : EndComes(q) => EndComes(q)'
      /\ kind = "completed" /\ tab[t[1]].viewed = {t} => EndComes(t[1])' \/ <<t[1], "page">> \in misled'
  <2>1. /\ mail \in [Clients -> Seq(ClientEvent)] /\ misled \in SUBSET (Clients \X {"store", "page"})
        /\ tab' = tab
    BY Typed
  <2>2. Announced(kind, t, e)
    BY <1>1, <2>1, PublishEffect
  <2> QED BY <2>2 DEF Announced
<1>3. p \in Passengers /\ p \in Clients /\ Driver \in Clients /\ p # Driver
  BY TripClientAssumption DEF Rides, Clients
<1>4. AllTellOK'
  <2>1. ASSUME NEW c \in Clients, NEW i \in DOMAIN mail'[c]
        PROVE  \E f \in ClientEvent : mail'[c][i] = f /\ (TellsOK(c, f) \/ TellsOK(c, f)')
    <3>1. CASE mail'[c] = mail[c]
      <4>1. mail[c][i] \in ClientEvent /\ TellsOK(c, mail[c][i])
        BY <3>1, Typed DEF AllTellOK
      <4> QED BY <3>1, <4>1
    <3>2. CASE mail'[c] = Append(mail[c], e) /\ c \in {p, Driver}
      <4>1. /\ \A k \in DOMAIN mail[c] : mail'[c][k] = mail[c][k]
            /\ i \in DOMAIN mail[c] \/ mail'[c][i] = e
        BY <1>2, <3>2, Typed, OneAppended
      <4>2. CASE i \in DOMAIN mail[c]
        <5>1. mail[c][i] \in ClientEvent /\ TellsOK(c, mail[c][i])
          BY <4>2, Typed DEF AllTellOK
        <5> QED BY <4>1, <4>2, <5>1
      <4>3. CASE mail'[c][i] = e
        <5>1. TellsOK(c, e)'
          BY <1>2, <3>2 DEF TellsOK
        <5> QED BY <1>2, <4>3, <5>1
      <4> QED BY <4>1, <4>2, <4>3
    <3> QED BY <1>2, <3>1, <3>2
  <2> QED BY <2>1, Typed, AllTellStill
<1>5. DeskOK'
  <2>1. desk.pending \cup desk.sheet \in SUBSET Rides /\ (desk.dialog # NoDialog => {desk.dialog.trip} \in SUBSET Rides)
    BY Typed DEF Desk, Dialog
  <2>2. Started(desk.pending \cup desk.sheet)'
    <3>1. PICK T : T = desk.pending \cup desk.sheet
      OBVIOUS
    <3>2. Started(T)'
      BY <2>1, <3>1, Typed, StartedStill DEF DeskOK
    <3> QED BY <3>1, <3>2 DEF Started
  <2>3. ASSUME desk.dialog # NoDialog PROVE Started({desk.dialog.trip})'
    <3>1. PICK T : T = {desk.dialog.trip}
      OBVIOUS
    <3>2. Started(T)'
      BY <2>1, <2>3, <3>1, Typed, StartedStill DEF DeskOK
    <3> QED BY <3>1, <3>2 DEF Started
  <2> QED BY <2>2, <2>3 DEF DeskOK
<1>6. AllAskOK'
  BY Typed, AllAskStill
<1>7. RequestsOK'
  <2> SUFFICES ASSUME <<Driver, "store">> \notin misled', NEW u \in Onboard',
                      u \in tab[u[1]].awaiting \/ Requested(u[1], u)'
               PROVE  u \in desk.pending \/ Requested(Driver, u)'
    BY DEF RequestsOK
  <2>1. u \in Rides /\ u[1] \in Passengers /\ u[1] \in Clients
    BY DEF Onboard, Rides, Clients
  <2>2. CASE u \notin Onboard
    <3>1. u = t /\ kind = "started" /\ ~Started({t})
      BY <2>2, <1>2
    <3>2. t \notin tab[p].awaiting
      BY <1>3, <3>1, Typed DEF TabIsFine, TabOK, Started
    <3>3. ~Requested(p, t)
      <4> SUFFICES ASSUME NEW i \in DOMAIN mail[p], mail[p][i] = [kind |-> "dropoff_requested", trip |-> t] PROVE FALSE
        BY DEF Requested
      <4>1. TellsOK(p, mail[p][i])
        BY <1>3, Typed DEF AllTellOK
      <4>2. mail[p][i].trip = t
        OBVIOUS
      <4> QED BY <3>1, <4>1, <4>2 DEF TellsOK
    <3> QED BY <1>2, <1>3, <3>1, <3>2, <3>3
  <2>3. CASE u \in Onboard
    <3>1. u = t /\ kind = "dropoff_requested" => Requested(Driver, u)'
      BY <1>2
    <3>2. ~(u = t /\ kind = "dropoff_requested") => u \in tab[u[1]].awaiting \/ Requested(u[1], u)
      BY <1>2, <2>1
    <3>3. <<Driver, "store">> \notin misled
      BY <1>2
    <3>4. u \in tab[u[1]].awaiting \/ Requested(u[1], u) => u \in desk.pending \/ Requested(Driver, u)
      BY <2>3, <3>3, Typed DEF RequestsOK
    <3> QED BY <1>2, <1>3, <3>1, <3>2, <3>4
  <2> QED BY <2>2, <2>3
<1>8. ASSUME NEW q \in Passengers \ {p} PROVE TabIsFine(q)'
  <2>1. q \in Clients /\ q \notin {t[1], Driver}
    BY TripClientAssumption DEF Clients
  <2>2. Untouched(q)
    BY <1>2, <2>1 DEF Untouched, SameTab
  <2> QED BY <2>2, Typed, UntouchedStill
<1>9. TabIsFine(p)'
  <2>1. TabOK(p) /\ StoreOK(p) /\ PageOK(p)
    BY <1>3, Typed DEF TabIsFine
  <2>2. TabOK(p)'
    BY <1>3, <2>1, Typed, TabStill
  <2>3. StoreOK(p)'
    <3>1. CASE mail'[p] = Append(mail[p], e)
      <4>1. mail[p] \in Seq(ClientEvent)
        BY <1>3, Typed
      <4> QED BY <1>2, <2>1, <3>1, <4>1, StoreIsTold
    <3>2. CASE <<p, "store">> \in misled'
      BY <3>2 DEF StoreOK
    <3> QED BY <1>2, <3>1, <3>2
  <2>4. PageOK(p)'
    <3> SUFFICES ASSUME <<p, "page">> \notin misled', tab[p].page = "trip", tab[p].shown # "error"
                 PROVE  PageLoads(p)' \/ EndComes(p)' \/ PageRight(p)'
      BY DEF PageOK
    <3>1. PageLoads(p) \/ EndComes(p) \/ PageRight(p)
      BY <1>2, <2>1 DEF PageOK
    <3>2. CASE PageLoads(p) \/ EndComes(p)
      BY <1>2, <1>3, <3>2
    <3>3. CASE PageRight(p)
      <4>1. tab[p].viewed # {} /\ tab[p].viewed # RideOf(p)' => tab[p].viewed # {}
        OBVIOUS
      <4>2. tab[p].viewed # {}
        BY <2>1 DEF TabOK
      <4>3. CASE kind = "dropoff_requested"
        BY <1>2, <3>3, <4>3 DEF PageRight
      <4>4. CASE kind = "started"
        <5>1. tab[p].viewed # {t}
          BY <2>1, <4>4 DEF TabOK, Started
        <5> QED BY <3>3, <4>2, <4>4, <5>1 DEF PageRight
      <4>5. CASE kind = "completed"
        BY <1>2, <3>3, <4>2, <4>5 DEF PageRight
      <4> QED BY <4>3, <4>4, <4>5
    <3> QED BY <3>1, <3>2, <3>3
  <2> QED BY <2>2, <2>3, <2>4 DEF TabIsFine
<1>10. \A q \in Passengers : TabIsFine(q)'
  BY <1>8, <1>9
<1> QED BY <1>2, <1>4, <1>5, <1>6, <1>7, <1>10, Typed, Assembled

LEMMA PickupStep == ASSUME RideIInv, NEW i \in DOMAIN calls, Pickup(i) PROVE RideIInv'
<1>1. PICK c : c = calls[i]
  OBVIOUS
<1>2. c \in Call /\ AsksOK(c)
  BY <1>1, Typed DEF AllAskOK, Flying
<1>3. c.kind = "pickup" /\ c.stage = "sent"
  BY <1>1 DEF Pickup
<1>4. c.who \in Passengers /\ c.who # Driver
  BY <1>2, <1>3 DEF AsksOK, Call, Clients
<1>5. PICK p : p = c.who
  OBVIOUS
<1>6. PICK n : n = ride[p].n + 1
  OBVIOUS
<1>7. PICK t : t = <<p, n>>
  OBVIOUS
<1>8. /\ ~ride[p].on /\ n <= MaxRides /\ ride' = [ride EXCEPT ![p] = [n |-> n, on |-> TRUE]]
      /\ Reply(i, {t}) /\ Publish("started", t) /\ UNCHANGED <<tab, desk, link, turns>>
  BY <1>1, <1>5, <1>6, <1>7 DEF Pickup
<1>9. p \in Passengers /\ ride[p].n \in 0..MaxRides /\ MaxRides \in Nat /\ n \in 1..MaxRides /\ n > ride[p].n
  BY <1>4, <1>5, <1>6, <1>8, Typed, TripClientAssumption DEF RideT
<1>10. t \in Rides /\ t[1] = p /\ t[2] = n
  BY <1>7, <1>9 DEF Rides
<1>11. /\ ride'[p] = [n |-> n, on |-> TRUE] /\ \A q \in Passengers \ {p} : ride'[q] = ride[q]
       /\ RideT' /\ RidesOK'
  BY <1>8, <1>9, Typed DEF RideT, RidesOK
<1>12. ASSUME NEW q \in Passengers \ {p} PROVE RideOf(q)' = RideOf(q)
  BY <1>11, Typed, RideIs, RideIsNext
<1>13. RideOf(p) = {} /\ RideOf(p)' = {t}
  <2>1. RideOf(p) = {}
    BY <1>8, <1>9, Typed, RideIs
  <2>2. RideOf(p)' = {<<p, ride'[p].n>>}
    <3>1. ride'[p].on
      BY <1>11
    <3> QED BY <1>9, <1>11, <3>1, RideIsNext
  <2> QED BY <1>7, <1>11, <2>1, <2>2
<1>14. ~Started({t}) /\ Started({t})'
  <2>1. ~(n <= ride[p].n) /\ n <= ride'[p].n
    BY <1>9, <1>11
  <2> QED BY <1>10, <2>1 DEF Started
<1>15. Onboard' \subseteq Onboard \cup {t}
  <2> SUFFICES ASSUME NEW u \in Onboard', u \notin Onboard PROVE u = t
    OBVIOUS
  <2>1. u \in Rides /\ u[1] \in Passengers /\ u = <<u[1], u[2]>>
    BY DEF Onboard, Rides
  <2>2. ride'[u[1]].n = u[2]
    BY <1>11, <2>1, OnboardIsNext
  <2>3. u[1] = p
    BY <1>11, <2>1, Typed, OnboardIs, OnboardIsNext
  <2> QED BY <1>7, <1>11, <2>1, <2>2, <2>3
<1>16. RidesGoOn
  <2>1. \A q \in Passengers : ride[q].n <= ride'[q].n
    <3>1. \A q \in Passengers : ride[q].n \in 0..MaxRides
      BY Typed DEF RideT
    <3> QED BY <1>9, <1>11, <3>1
  <2> QED BY <1>11, <1>14, <1>15, <2>1 DEF RidesGoOn
<1>17. /\ calls' \in Seq(Call)
       /\ \A q : PageLoads(q) => PageLoads(q)'
       /\ \E k \in Call : /\ k.who = calls[i].who /\ k.kind = calls[i].kind /\ k.about = calls[i].about
                          /\ k.origin = calls[i].origin /\ k.stage = "answered" /\ k.rides = {t}
                          /\ \A m \in Flying(calls') : m \in Flying(calls) \/ m = k
  <2>1. {t} \in SUBSET Rides
    BY <1>10
  <2> QED BY <1>8, <2>1, Typed, ReplyEffect
<1>18. PICK k \in Call : /\ k.who = c.who /\ k.kind = c.kind /\ k.about = c.about
                         /\ k.origin = c.origin /\ k.stage = "answered" /\ k.rides = {t}
                         /\ \A m \in Flying(calls') : m \in Flying(calls) \/ m = k
  BY <1>1, <1>17
<1>19. AsksOK(k)'
  <2>1. Of(k.who, k.rides) /\ AtMostOne(k.rides) /\ k.rides # {}
    BY <1>5, <1>10, <1>18 DEF Of, AtMostOne
  <2>2. Started(k.rides)'
    BY <1>14, <1>18 DEF Started
  <2> QED BY <1>2, <1>3, <1>8, <1>16, <1>18, <2>1, <2>2, Typed, AsksMoved
<1>20. /\ "started" \in {"started", "dropoff_requested", "completed"}
       /\ \A q \in Passengers \ {t[1]} : RideOf(q)' = RideOf(q)
       /\ RideOf(t[1]) = {} /\ RideOf(t[1])' = {t}
  BY <1>10, <1>12, <1>13
<1>21. \A m \in Flying(calls') : m \in Flying(calls) \/ AsksOK(m)'
  BY <1>18, <1>19
<1> QED BY <1>8, <1>10, <1>14, <1>15, <1>16, <1>17, <1>20, <1>21, EventStep

LEMMA ServeDropoffStep == ASSUME RideIInv, NEW i \in DOMAIN calls, ServeDropoff(i) PROVE RideIInv'
<1>1. PICK c : c = calls[i]
  OBVIOUS
<1>2. c \in Call /\ AsksOK(c)
  BY <1>1, Typed DEF AllAskOK, Flying
<1>3. c.kind = "dropoff"
  BY <1>1 DEF ServeDropoff
<1>4. PICK t \in c.about : IsActive(t) /\ Reply(i, {t}) /\ Publish("dropoff_requested", t)
  BY <1>1 DEF ServeDropoff
<1>5. UNCHANGED <<ride, tab, desk, link, turns>>
  BY DEF ServeDropoff
<1>6. t \in Rides /\ t[1] \in Passengers /\ {t} \in SUBSET Rides
  BY <1>2 DEF Call, Rides
<1>7. RidesGoOn /\ Onboard' = Onboard /\ \A q : RideOf(q)' = RideOf(q)
  BY <1>5, Typed, RidesStand
<1>8. Started({t})'
  <2>1. Started({t})
    BY <1>2 DEF AsksOK, Started
  <2> QED BY <1>6, <1>7, <2>1, Typed, StartedStill
<1>9. /\ calls' \in Seq(Call)
      /\ \A q : PageLoads(q) => PageLoads(q)'
      /\ \E k \in Call : /\ k.who = calls[i].who /\ k.kind = calls[i].kind /\ k.about = calls[i].about
                         /\ k.origin = calls[i].origin /\ k.stage = "answered" /\ k.rides = {t}
                         /\ \A m \in Flying(calls') : m \in Flying(calls) \/ m = k
  BY <1>4, <1>6, Typed, ReplyEffect
<1>10. PICK k \in Call : /\ k.who = c.who /\ k.kind = c.kind /\ k.about = c.about
                         /\ k.origin = c.origin /\ k.stage = "answered" /\ k.rides = {t}
                         /\ \A m \in Flying(calls') : m \in Flying(calls) \/ m = k
  BY <1>1, <1>9
<1>11. AsksOK(k)'
  <2>1. k.who # Driver => Of(k.who, k.rides)
    BY <1>2, <1>4, <1>10 DEF Of, AsksOK
  <2>2. Started(k.rides)'
    BY <1>8, <1>10 DEF Started
  <2>3. tab' = tab /\ k.kind \notin {"complete", "pickup", "active"}
    BY <1>3, <1>5, <1>10
  <2> QED BY <1>2, <1>7, <1>10, <2>1, <2>2, <2>3, Typed, AsksMoved
<1>12. /\ "dropoff_requested" \in {"started", "dropoff_requested", "completed"}
       /\ "dropoff_requested" # "completed" /\ "dropoff_requested" # "started"
       /\ \A q \in Passengers \ {t[1]} : RideOf(q)' = RideOf(q)
       /\ RideOf(t[1])' = RideOf(t[1])
  BY <1>7
<1>13. \A m \in Flying(calls') : m \in Flying(calls) \/ AsksOK(m)'
  BY <1>10, <1>11
<1> QED BY <1>4, <1>5, <1>6, <1>7, <1>8, <1>9, <1>12, <1>13, EventStep

\* A ride that ends, completed or cancelled.
LEMMA RideEnds ==
  ASSUME RideT, RidesOK, NEW t \in Rides, t \in Onboard, ride' = [ride EXCEPT ![t[1]].on = FALSE]
  PROVE  /\ RidesGoOn /\ t \notin Onboard' /\ Onboard' \subseteq Onboard
         /\ RideOf(t[1]) = {t} /\ RideOf(t[1])' = {}
         /\ \A q \in Passengers \ {t[1]} : RideOf(q)' = RideOf(q)
<1>1. PICK p : p = t[1]
  OBVIOUS
<1>2. p \in Passengers /\ t = <<p, t[2]>> /\ ride[p].on /\ ride[p].n = t[2]
  BY <1>1, OnboardIs DEF Rides
<1>3. ride[p] \in [n : 0..MaxRides, on : BOOLEAN]
  BY <1>2 DEF RideT
<1>4. /\ ride'[p].n = ride[p].n /\ ride'[p].on = FALSE /\ ride'[p] \in [n : 0..MaxRides, on : BOOLEAN]
      /\ \A q \in Passengers \ {p} : ride'[q] = ride[q]
  BY <1>1, <1>2, <1>3 DEF RideT
<1>5. RideT' /\ RidesOK'
  <2>1. RideT'
    BY <1>1, <1>3, <1>4 DEF RideT
  <2>2. RidesOK'
    BY <1>4 DEF RidesOK
  <2> QED BY <2>1, <2>2
<1>6. ASSUME NEW q \in Passengers \ {p} PROVE RideOf(q)' = RideOf(q)
  <2>1. /\ ride[q].on => RideOf(q) = {<<q, ride[q].n>>}
        /\ ~ride[q].on => RideOf(q) = {}
    BY RideIs
  <2>2. /\ ride'[q].on => RideOf(q)' = {<<q, ride'[q].n>>}
        /\ ~ride'[q].on => RideOf(q)' = {}
    BY <1>5, RideIsNext
  <2> QED BY <1>4, <2>1, <2>2
<1>7. RideOf(p) = {t} /\ RideOf(p)' = {}
  BY <1>2, <1>4, <1>5, RideIs, RideIsNext
<1>8. ASSUME NEW u \in Onboard' PROVE u \in Onboard /\ u # t
  <2>1. u \in Rides /\ u[1] \in Passengers
    BY DEF Onboard, Rides
  <2>2. ride'[u[1]].on /\ ride'[u[1]].n = u[2]
    BY <1>5, <2>1, OnboardIsNext
  <2>3. u[1] # p
    BY <1>4, <2>2
  <2> QED BY <1>1, <1>4, <2>1, <2>2, <2>3, OnboardIs
<1>9. \A q \in Passengers : ride[q].n <= ride'[q].n
  <2>1. \A q \in Passengers : ride[q].n \in 0..MaxRides
    BY DEF RideT
  <2> QED BY <1>4, <2>1, TripClientAssumption
<1> QED BY <1>1, <1>5, <1>6, <1>7, <1>8, <1>9 DEF RidesGoOn

LEMMA CompleteStep == ASSUME RideIInv, NEW i \in DOMAIN calls, Complete(i) PROVE RideIInv'
<1>1. PICK c : c = calls[i]
  OBVIOUS
<1>2. c \in Call /\ AsksOK(c)
  BY <1>1, Typed DEF AllAskOK, Flying
<1>3. c.kind = "complete"
  BY <1>1 DEF Complete
<1>4. PICK t \in c.about : /\ IsActive(t) /\ ride' = [ride EXCEPT ![t[1]].on = FALSE]
                           /\ Reply(i, {}) /\ Publish("completed", t)
  BY <1>1 DEF Complete
<1>5. UNCHANGED <<tab, desk, link, turns>>
  BY DEF Complete
<1>6. t \in Rides /\ t \in Onboard
  BY <1>2, <1>4 DEF Call, Onboard
<1>7. /\ RidesGoOn /\ t \notin Onboard' /\ Onboard' \subseteq Onboard
      /\ RideOf(t[1]) = {t} /\ RideOf(t[1])' = {}
      /\ \A q \in Passengers \ {t[1]} : RideOf(q)' = RideOf(q)
  BY <1>4, <1>6, Typed, RideEnds
<1>8. Started({t})'
  <2>1. Started({t}) /\ {t} \in SUBSET Rides
    BY <1>2, <1>6 DEF AsksOK, Started
  <2> QED BY <1>7, <2>1, Typed, StartedStill
<1>9. /\ calls' \in Seq(Call)
      /\ \A q : PageLoads(q) => PageLoads(q)'
      /\ \E k \in Call : /\ k.who = calls[i].who /\ k.kind = calls[i].kind /\ k.about = calls[i].about
                         /\ k.origin = calls[i].origin /\ k.stage = "answered" /\ k.rides = {}
                         /\ \A m \in Flying(calls') : m \in Flying(calls) \/ m = k
  BY <1>4, Typed, ReplyEffect
<1>10. PICK k \in Call : /\ k.who = c.who /\ k.kind = c.kind /\ k.about = c.about
                         /\ k.origin = c.origin /\ k.stage = "answered" /\ k.rides = {}
                         /\ \A m \in Flying(calls') : m \in Flying(calls) \/ m = k
  BY <1>1, <1>9
<1>11. k.about \cap Onboard' = {}
  BY <1>2, <1>3, <1>4, <1>7, <1>10 DEF AsksOK, AtMostOne
<1>12. AsksOK(k)'
  <2>1. Started(k.rides)' /\ Of(k.who, k.rides)
    BY <1>10 DEF Started, Of
  <2>2. tab' = tab /\ k.kind \notin {"pickup", "active"}
    BY <1>3, <1>5, <1>10
  <2> QED BY <1>2, <1>7, <1>10, <1>11, <2>1, <2>2, Typed, AsksMoved
<1>13. "completed" \in {"started", "dropoff_requested", "completed"} /\ "completed" # "started"
  OBVIOUS
<1>14. \A m \in Flying(calls') : m \in Flying(calls) \/ AsksOK(m)'
  BY <1>10, <1>12
<1>15. Onboard' \subseteq Onboard \cup {t}
  BY <1>7
<1> QED BY <1>4, <1>5, <1>6, <1>7, <1>8, <1>9, <1>13, <1>14, <1>15, EventStep

\* Nobody is told of a cancel: the passenger may be misled.
LEMMA CancelStep == ASSUME RideIInv, NEW p \in Passengers, CancelRide(p) PROVE RideIInv'
<1>1. /\ ride[p].on /\ Turn(p) /\ ride' = [ride EXCEPT ![p].on = FALSE]
      /\ misled' = misled \cup {p} \X {"store", "page"} /\ UNCHANGED <<tab, desk, link, mail, calls>>
  BY DEF CancelRide
<1>2. p \in Clients /\ p # Driver /\ Driver \in Clients
  BY TripClientAssumption DEF Clients
<1>3. PICK t : t = <<p, ride[p].n>>
  OBVIOUS
<1>4. t \in Rides /\ t \in Onboard /\ t[1] = p
  BY <1>1, <1>3, Typed, RideIs DEF RideOf
<1>5. /\ RidesGoOn /\ Onboard' \subseteq Onboard
      /\ \A q \in Passengers \ {p} : RideOf(q)' = RideOf(q)
  BY <1>1, <1>4, Typed, RideEnds
<1>6. misled \subseteq misled' /\ misled' \in SUBSET (Clients \X {"store", "page"})
      /\ <<p, "store">> \in misled' /\ <<p, "page">> \in misled'
  BY <1>1, <1>2, Typed
<1>7. turns' \in [Clients -> 0..MaxTurns]
  BY <1>1, <1>2, Typed, TurnTaken
<1>8. AllAskOK'
  BY <1>1, <1>5, Typed, AllAskStill
<1>9. AllTellOK'
  <2>1. ASSUME NEW c \in Clients, NEW i \in DOMAIN mail'[c]
        PROVE  \E e \in ClientEvent : mail'[c][i] = e /\ TellsOK(c, e)
    <3>1. mail[c][i] \in ClientEvent /\ TellsOK(c, mail[c][i])
      BY <1>1, Typed DEF AllTellOK
    <3> QED BY <1>1, <3>1
  <2> QED BY <1>5, <2>1, Typed, AllTellStill
<1>10. DeskOK'
  <2>1. desk.pending \cup desk.sheet \in SUBSET Rides /\ (desk.dialog # NoDialog => {desk.dialog.trip} \in SUBSET Rides)
    BY Typed DEF Desk, Dialog
  <2>2. PICK T : T = desk.pending \cup desk.sheet
    OBVIOUS
  <2>3. PICK U : U = {desk.dialog.trip}
    OBVIOUS
  <2>4. Started(T)' /\ (desk.dialog # NoDialog => Started(U)')
    BY <1>5, <2>1, <2>2, <2>3, Typed, StartedStill DEF DeskOK
  <2> QED BY <1>1, <2>2, <2>3, <2>4 DEF DeskOK, Started
<1>11. RequestsOK'
  <2>1. \A c, u : Requested(c, u)' <=> Requested(c, u)
    BY <1>1 DEF Requested
  <2> QED BY <1>1, <1>5, <1>6, <2>1, Typed DEF RequestsOK
<1>12. ASSUME NEW q \in Passengers PROVE TabIsFine(q)'
  <2>1. CASE q = p
    <3>1. TabOK(p)'
      BY <1>1, <1>5, Typed, TabStill DEF TabIsFine
    <3> QED BY <1>6, <2>1, <3>1 DEF TabIsFine, StoreOK, PageOK
  <2>2. CASE q # p
    <3>1. Untouched(q)
      BY <1>1, <1>5, <1>6, <2>2 DEF Untouched, SameTab, PageLoads
    <3> QED BY <1>5, <3>1, Typed, UntouchedStill
  <2> QED BY <2>1, <2>2
<1> QED BY <1>1, <1>5, <1>6, <1>7, <1>8, <1>9, <1>10, <1>11, <1>12, Typed, Assembled

\* A socket breaks, or comes back.
LEMMA LinkStep == ASSUME RideIInv, NEW c \in Clients, Drop(c) \/ Connect(c) PROVE RideIInv'
<1>1. UNCHANGED <<ride, tab, desk, calls>>
  BY DEF Drop, Connect
<1>2. RidesGoOn /\ Onboard' = Onboard /\ \A q : RideOf(q)' = RideOf(q)
  BY <1>1, Typed, RidesStand
<1>3. /\ mail' \in [Clients -> Seq(ClientEvent)] /\ link' \in [Clients -> BOOLEAN]
      /\ turns' \in [Clients -> 0..MaxTurns]
  <2>1. Turn(c) \/ turns' = turns
    BY DEF Drop, Connect
  <2>2. turns' \in [Clients -> 0..MaxTurns]
    BY <2>1, Typed, TurnTaken
  <2>3. << >> \in Seq(ClientEvent)
    OBVIOUS
  <2> QED BY <2>2, <2>3, Typed DEF Drop, Connect
<1>4. misled \subseteq misled' /\ misled' \in SUBSET (Clients \X {"store", "page"})
  BY Typed DEF Drop, Connect
<1>5. \A d \in Clients : \/ mail'[d] = mail[d]
                         \/ mail'[d] = << >> /\ <<d, "store">> \in misled' /\ <<d, "page">> \in misled'
  BY Typed DEF Drop, Connect
<1>6. AllAskOK'
  BY <1>1, <1>2, Typed, AllAskStill
<1>7. AllTellOK'
  <2>1. ASSUME NEW d \in Clients, NEW i \in DOMAIN mail'[d]
        PROVE  \E e \in ClientEvent : mail'[d][i] = e /\ TellsOK(d, e)
    <3>1. CASE mail'[d] = mail[d]
      <4>1. mail[d][i] \in ClientEvent /\ TellsOK(d, mail[d][i])
        BY <3>1, Typed DEF AllTellOK
      <4> QED BY <3>1, <4>1
    <3>2. CASE mail'[d] = << >>
      BY <3>2
    <3> QED BY <1>5, <3>1, <3>2
  <2> QED BY <1>2, <2>1, Typed, AllTellStill
<1>8. DeskOK'
  BY <1>1, Typed DEF DeskOK, Started
<1>9. RequestsOK'
  <2>1. ASSUME NEW d \in Clients, NEW u PROVE Requested(d, u)' => Requested(d, u)
    <3>1. CASE mail'[d] = mail[d]
      BY <3>1 DEF Requested
    <3>2. CASE mail'[d] = << >>
      BY <3>2 DEF Requested
    <3> QED BY <1>5, <3>1, <3>2
  <2>2. Driver \in Clients /\ Passengers \subseteq Clients /\ \A u \in Onboard : u[1] \in Passengers
    BY DEF Clients, Onboard, Rides
  <2>3. <<Driver, "store">> \notin misled' => \A u : Requested(Driver, u) => Requested(Driver, u)'
    BY <1>5, <2>2 DEF Requested
  <2> QED BY <1>1, <1>2, <1>4, <2>1, <2>2, <2>3, Typed DEF RequestsOK
<1>10. ASSUME NEW q \in Passengers PROVE TabIsFine(q)'
  <2>1. q \in Clients
    BY DEF Clients
  <2>2. CASE mail'[q] = mail[q]
    <3>1. Untouched(q)
      BY <1>1, <1>2, <1>4, <2>2 DEF Untouched, SameTab, PageLoads
    <3> QED BY <1>2, <3>1, Typed, UntouchedStill
  <2>3. CASE <<q, "store">> \in misled' /\ <<q, "page">> \in misled'
    <3>1. TabOK(q)'
      BY <1>1, <1>2, Typed, TabStill DEF TabIsFine
    <3> QED BY <2>3, <3>1 DEF TabIsFine, StoreOK, PageOK
  <2> QED BY <1>5, <2>1, <2>2, <2>3
<1> QED BY <1>1, <1>2, <1>3, <1>4, <1>6, <1>7, <1>8, <1>9, <1>10, Typed, Assembled

-----------------------------------------------------------------------------
(* The passenger's steps.                                                  *)
\* A step of one passenger's tab.
LEMMA PassengerStep ==
  ASSUME RideIInv, UNCHANGED <<ride, desk, link>>, NEW p \in Passengers,
         tab' \in [Passengers -> Tab], \A q \in Passengers \ {p} : tab'[q] = tab[q],
         mail' \in [Clients -> Seq(ClientEvent)], \A c \in Clients \ {p} : mail'[c] = mail[c],
         \A i \in DOMAIN mail'[p] : \E j \in DOMAIN mail[p] : mail'[p][i] = mail[p][j],
         turns' \in [Clients -> 0..MaxTurns], misled' \in SUBSET (Clients \X {"store", "page"}),
         \A c \in Clients \ {p}, w \in {"store", "page"} : <<c, w>> \in misled => <<c, w>> \in misled',
         calls' \in Seq(Call), AllAskOK', \A q \in Passengers \ {p} : PageLoads(q) => PageLoads(q)',
         \A u : u \in tab'[p].awaiting => u \in tab[p].awaiting \/ Requested(p, u),
         TabOK(p)', StoreOK(p)', PageOK(p)'
  PROVE  RideIInv'
<1>1. RidesGoOn /\ Onboard' = Onboard /\ \A q : RideOf(q)' = RideOf(q)
  BY Typed, RidesStand
<1>2. p \in Clients /\ p # Driver /\ Driver \in Clients
  BY TripClientAssumption DEF Clients
<1>3. AllTellOK'
  <2>1. ASSUME NEW c \in Clients, NEW i \in DOMAIN mail'[c]
        PROVE  \E e \in ClientEvent : mail'[c][i] = e /\ TellsOK(c, e)
    <3>1. PICK j \in DOMAIN mail[c] : mail'[c][i] = mail[c][j]
      <4>1. CASE c = p
        BY <4>1
      <4>2. CASE c # p
        BY <4>2
      <4> QED BY <4>1, <4>2
    <3>2. mail[c][j] \in ClientEvent /\ TellsOK(c, mail[c][j])
      BY Typed DEF AllTellOK
    <3> QED BY <3>1, <3>2
  <2> QED BY <1>1, <2>1, Typed, AllTellStill
<1>4. DeskOK'
  BY Typed DEF DeskOK, Started
<1>5. RequestsOK'
  <2> SUFFICES ASSUME <<Driver, "store">> \notin misled', NEW u \in Onboard,
                      u \in tab'[u[1]].awaiting \/ Requested(u[1], u)'
               PROVE  u \in desk.pending \/ Requested(Driver, u)'
    BY <1>1 DEF RequestsOK
  <2>1. u[1] \in Passengers /\ u[1] \in Clients
    BY DEF Onboard, Rides, Clients
  <2>2. u \in tab[u[1]].awaiting \/ Requested(u[1], u)
    <3>1. CASE u[1] = p
      BY <3>1 DEF Requested
    <3>2. CASE u[1] # p
      BY <2>1, <3>2 DEF Requested
    <3> QED BY <3>1, <3>2
  <2>3. <<Driver, "store">> \notin misled
    BY <1>2
  <2>4. u \in desk.pending \/ Requested(Driver, u)
    BY <2>2, <2>3, Typed DEF RequestsOK
  <2>5. mail'[Driver] = mail[Driver]
    BY <1>2
  <2> QED BY <2>4, <2>5 DEF Requested
<1>6. ASSUME NEW q \in Passengers PROVE TabIsFine(q)'
  <2>1. CASE q = p
    BY <2>1 DEF TabIsFine
  <2>2. CASE q # p
    <3>1. q \in Clients \ {p}
      BY <2>2 DEF Clients
    <3>2. Untouched(q)
      BY <1>1, <2>2, <3>1 DEF Untouched, SameTab
    <3> QED BY <1>1, <3>2, Typed, UntouchedStill
  <2> QED BY <2>1, <2>2
<1> QED BY <1>1, <1>3, <1>4, <1>5, <1>6, Typed, Assembled

\* What a passenger's tab holds is sound.
LEMMA TabIsSound ==
  ASSUME RideIInv, NEW p \in Passengers
  PROVE  /\ tab[p] \in Tab /\ Sound(p, tab[p].active) /\ Sound(p, tab[p].viewed) /\ Sound(p, tab[p].awaiting)
         /\ One(tab[p].active) /\ One(tab[p].viewed) /\ (tab[p].page = "trip" <=> tab[p].viewed # {})
         /\ KeepsLoads(calls) /\ TabOK(p) /\ StoreOK(p) /\ PageOK(p)
<1>1. tab[p] \in Tab /\ TabOK(p) /\ StoreOK(p) /\ PageOK(p) /\ calls \in Seq(Call)
  BY Typed DEF TabIsFine
<1>2. tab[p].active \in SUBSET Rides /\ tab[p].viewed \in SUBSET Rides /\ tab[p].awaiting \in SUBSET Rides
  BY <1>1 DEF Tab
<1> QED BY <1>1, <1>2 DEF TabOK, Sound, One, Started, Of, KeepsLoads

LEMMA OpenStep ==
  ASSUME RideIInv, NEW p \in Passengers, NEW page \in Pages,
         NEW T \in {{}} \cup { {t} : t \in {p} \X (1..ride[p].n) }, Open(p, page, T)
  PROVE  RideIInv'
<1>1. /\ Turn(p) /\ (page = "trip" <=> T # {}) /\ Visit(p, tab[p], page, T, calls)
      /\ misled' = misled \ {<<p, "page">>} /\ UNCHANGED <<ride, desk, link, mail>>
  BY DEF Open
<1>2. Sound(p, T) /\ One(T)
  <2>1. CASE T = {}
    BY <2>1 DEF Sound, One, Started, Of
  <2>2. CASE \E t \in {p} \X (1..ride[p].n) : T = {t}
    <3>1. PICK t \in {p} \X (1..ride[p].n) : T = {t}
      BY <2>2
    <3>2. t[1] = p /\ t[2] \in 1..ride[p].n /\ t = <<p, t[2]>>
      OBVIOUS
    <3>3. ride[p].n \in 0..MaxRides /\ MaxRides \in Nat
      BY Typed, TripClientAssumption DEF RideT
    <3>4. t \in Rides /\ t[2] <= ride[p].n
      BY <3>2, <3>3 DEF Rides
    <3> QED BY <3>1, <3>2, <3>4 DEF Sound, One, Started, Of, AtMostOne
  <2> QED BY <2>1, <2>2
<1>3. Visited(p, tab[p]) /\ (tab'[p].page = "trip" => PageLoads(p)')
  BY <1>1, <1>2, Typed, TabIsSound, VisitEffect
<1>4. RideOf(p)' = RideOf(p)
  BY <1>1, Typed, RidesStand
<1>5. StoreOK(p)'
  BY <1>1, <1>3, <1>4, TabIsSound, StoreStill DEF Visited
<1>6. PageOK(p)'
  BY <1>3 DEF PageOK
<1>7. p \in Clients /\ turns' \in [Clients -> 0..MaxTurns] /\ misled' \in SUBSET (Clients \X {"store", "page"})
  BY <1>1, Typed, TurnTaken DEF Clients
<1>8. \A c \in Clients \ {p}, w \in {"store", "page"} : <<c, w>> \in misled => <<c, w>> \in misled'
  BY <1>1
<1> QED BY <1>1, <1>3, <1>5, <1>6, <1>7, <1>8, Typed, PassengerStep DEF Visited

LEMMA ReloadStep == ASSUME RideIInv, NEW p \in Passengers, Reload(p) PROVE RideIInv'
<1> DEFINE heard == { i \in DOMAIN calls : calls[i].who # p \/ (calls[i].kind \in Writes /\ calls[i].stage = "sent") }
           deaf(k) == IF k.who = p THEN [k EXCEPT !.origin = "gone"] ELSE k
           asks == Mounts(p, tab[p].page, tab[p].viewed)
<1>1. /\ Turn(p)
      /\ tab' = [tab EXCEPT ![p] = [FreshTab EXCEPT !.page = tab[p].page, !.viewed = tab[p].viewed]]
      /\ \E o \in InOrder(heard) : calls' = [j \in DOMAIN o |-> deaf(calls[o[j]])] \o asks
      /\ mail' = [mail EXCEPT ![p] = << >>]
      /\ misled' = misled \cup {<<p, "store">>, <<p, "page">>}
      /\ UNCHANGED <<ride, desk, link>>
  BY DEF Reload, Sending
<1>2. p \in Clients /\ p # Driver
  BY TripClientAssumption DEF Clients
<1>3. PICK new : new = [FreshTab EXCEPT !.page = tab[p].page, !.viewed = tab[p].viewed]
  OBVIOUS
<1>4. tab[p] \in Tab /\ calls \in Seq(Call)
  BY Typed
<1>5. new \in Tab /\ new.page = tab[p].page /\ new.viewed = tab[p].viewed /\ new.active = {} /\ new.awaiting = {}
  <2>1. FreshTab \in Tab /\ FreshTab.active = {} /\ FreshTab.awaiting = {}
    BY DEF FreshTab, Tab, Pages
  <2>2. tab[p].page \in Pages /\ tab[p].viewed \in SUBSET Rides
    BY <1>4 DEF Tab
  <2>3. PICK r : r = FreshTab
    OBVIOUS
  <2>4. new = [r EXCEPT !.page = tab[p].page, !.viewed = tab[p].viewed]
    BY <1>3, <2>3
  <2> QED BY <2>1, <2>2, <2>3, <2>4 DEF Tab
<1>6. tab' = [tab EXCEPT ![p] = new]
  BY <1>1, <1>3
<1>7. tab' \in [Passengers -> Tab] /\ tab'[p] = new /\ \A q \in Passengers \ {p} : tab'[q] = tab[q]
  BY <1>5, <1>6, Typed
<1>8. RidesGoOn
  BY <1>1, Typed, RidesStand
<1>9. TabOK(p)'
  <2>1. Sound(p, new.viewed) /\ One(new.viewed) /\ (new.page = "trip" <=> new.viewed # {})
    BY <1>5, TabIsSound
  <2>2. Started(new.viewed)'
    BY <1>8, <2>1, Typed, StartedStill DEF Sound
  <2> QED BY <1>5, <1>7, <2>1, <2>2 DEF TabOK, Started, Of, Sound, One, AtMostOne
<1>10. /\ asks \in Seq(Call)
       /\ \A k \in Flying(asks) : /\ k \in Call /\ k.who = p /\ k.rides = {} /\ k.stage = "sent" /\ k.origin = "page"
                                  /\ \/ k.kind = "active" /\ k.about = {}
                                     \/ k.kind = "trip" /\ tab[p].page = "trip" /\ k.about = tab[p].viewed
  <2>1. "active" \in Reads \cup Writes /\ "trip" \in Reads \cup Writes /\ {} \in SUBSET Rides
        /\ tab[p].viewed \in SUBSET Rides /\ "page" \in {"page", "tab"}
    BY <1>4 DEF Reads, Tab
  <2>2. CASE tab[p].page \in {"map", "trips"}
    <3>1. asks = Asked(p, "active", {}, "page")
      BY <2>2 DEF Mounts, Ask
    <3> HIDE DEF asks
    <3>2. PICK k \in Call : /\ asks = << k >> /\ Flying(asks) = {k} /\ k.who = p /\ k.kind = "active"
                            /\ k.about = {} /\ k.rides = {} /\ k.origin = "page" /\ k.stage = "sent"
      BY <1>2, <2>1, <3>1, AskIsACall
    <3> QED BY <3>2
  <2>3. CASE tab[p].page = "trip"
    <3>1. asks = Asked(p, "trip", tab[p].viewed, "page")
      BY <2>3 DEF Mounts, Ask
    <3> HIDE DEF asks
    <3>2. PICK k \in Call : /\ asks = << k >> /\ Flying(asks) = {k} /\ k.who = p /\ k.kind = "trip"
                            /\ k.about = tab[p].viewed /\ k.rides = {} /\ k.origin = "page" /\ k.stage = "sent"
      BY <1>2, <2>1, <3>1, AskIsACall
    <3> QED BY <2>3, <3>2
  <2>4. CASE tab[p].page = "scan"
    <3>1. asks = << >>
      BY <2>4 DEF Mounts
    <3> QED BY <3>1, NoneFlying
  <2> QED BY <1>4, <2>2, <2>3, <2>4 DEF Tab, Pages
<1>11. PICK o \in InOrder(heard) : calls' = [j \in DOMAIN o |-> deaf(calls[o[j]])] \o asks
  BY <1>1
<1> DEFINE e == [i \in heard |-> deaf(calls[i])]
           ds == [j \in DOMAIN o |-> e[o[j]]]
<1>12. heard \in SUBSET Nat /\ IsFiniteSet(heard) /\ heard \subseteq DOMAIN calls
  <2>1. heard \subseteq DOMAIN calls /\ DOMAIN calls = 1..Len(calls) /\ Len(calls) \in Nat
    BY <1>4
  <2>2. IsFiniteSet(1..Len(calls))
    BY <2>1, FS_Interval
  <2> QED BY <2>1, <2>2, FS_Subset
<1>13. \A i \in heard : e[i] = deaf(calls[i]) /\ deaf(calls[i]) \in Call
  <2>1. \A c \in Call : [c EXCEPT !.origin = "gone"] \in Call
    BY DEF Call
  <2>2. \A i \in heard : calls[i] \in Call
    BY <1>4, <1>12
  <2> QED BY <2>1, <2>2
<1>14. \A j \in DOMAIN o : o[j] \in heard
  BY <1>12, AllInOrder
<1>15. e \in [heard -> Call]
  BY <1>13
<1>16. calls' = ds \o asks
  <2>1. [j \in DOMAIN o |-> deaf(calls[o[j]])] = ds
    BY <1>14
  <2> QED BY <1>11, <2>1, Zenon
<1> HIDE DEF e, heard, asks
<1>17. ds \in Seq(Call) /\ Flying(ds) = { e[i] : i \in heard }
  BY <1>12, <1>15, CallsPicked
<1> HIDE DEF ds
<1>18. calls' \in Seq(Call) /\ Flying(calls') = { e[i] : i \in heard } \cup Flying(asks)
  BY <1>10, <1>16, <1>17, CallsBehind
<1>19. ASSUME NEW k \in Flying(asks) PROVE AsksOK(k)'
  <2>1. k.about \cup k.rides = {} \/ (k.about \cup k.rides = new.viewed /\ Sound(p, new.viewed))
    <3>1. Sound(p, tab[p].viewed)
      BY TabIsSound
    <3> QED BY <1>5, <1>10, <1>19, <3>1
  <2>2. Started(k.about \cup k.rides)' /\ Of(p, k.about \cup k.rides)
    <3>1. CASE k.about \cup k.rides = {}
      BY <3>1 DEF Started, Of
    <3>2. CASE k.about \cup k.rides = new.viewed /\ Sound(p, new.viewed)
      <4>1. Started(new.viewed)'
        BY <1>8, <3>2, Typed, StartedStill DEF Sound
      <4> QED BY <3>2, <4>1 DEF Sound
    <3> QED BY <2>1, <3>1, <3>2
  <2>3. k.kind = "trip" => tab'[k.who].page = "trip" /\ k.about = tab'[k.who].viewed
    BY <1>5, <1>7, <1>10, <1>19
  <2> QED BY <2>2, <2>3, <1>2, <1>10, <1>19 DEF AsksOK, Of
<1>20. ASSUME NEW i \in heard, NEW k, k = e[i] PROVE AsksOK(k)'
  <2>1. PICK c \in Call : c = calls[i] /\ AsksOK(c)
    BY <1>12, Typed DEF AllAskOK, Flying
  <2>2. AsksOK(c)'
    <3>1. c.kind = "trip" => c.who \in Passengers
      BY <2>1 DEF AsksOK, Call, Clients
    <3>2. c.kind = "trip" => tab'[c.who].page = tab[c.who].page /\ tab'[c.who].viewed = tab[c.who].viewed
      BY <1>5, <1>7, <3>1
    <3> QED BY <1>8, <2>1, <3>2, Typed, AsksStill
  <2>3. CASE c.who = p
    <3>1. c.kind \in Writes /\ k = [c EXCEPT !.origin = "gone"]
      BY <1>13, <1>20, <2>1, <2>3 DEF heard
    <3>2. /\ k.who = c.who /\ k.kind = c.kind /\ k.about = c.about /\ k.rides = c.rides
          /\ k.stage = c.stage
      BY <3>1 DEF Call
    <3> QED BY <2>2, <3>1, <3>2 DEF AsksOK
  <2>4. CASE c.who # p
    <3>1. k = c
      BY <1>13, <1>20, <2>1, <2>4
    <3> QED BY <2>2, <3>1
  <2> QED BY <2>3, <2>4
<1>21. AllAskOK'
  <2> SUFFICES ASSUME NEW k \in Flying(calls') PROVE AsksOK(k)'
    BY DEF AllAskOK
  <2>1. k \in Flying(asks) \/ \E i \in heard : k = e[i]
    BY <1>18
  <2> QED BY <1>19, <1>20, <2>1
<1>22. ASSUME NEW q \in Passengers \ {p}, PageLoads(q) PROVE PageLoads(q)'
  <2>1. PICK i \in DOMAIN calls : calls[i].kind = "trip" /\ calls[i].who = q
    BY <1>22 DEF PageLoads, Flying
  <2>2. i \in heard /\ e[i] = calls[i]
    BY <1>13, <2>1 DEF heard
  <2> QED BY <1>18, <2>1, <2>2 DEF PageLoads
<1>23. StoreOK(p)' /\ PageOK(p)'
  BY <1>1 DEF StoreOK, PageOK
<1>24. /\ mail' \in [Clients -> Seq(ClientEvent)] /\ DOMAIN mail'[p] = {}
       /\ \A c \in Clients \ {p} : mail'[c] = mail[c]
  <2>1. << >> \in Seq(ClientEvent) /\ DOMAIN << >> = {}
    OBVIOUS
  <2> QED BY <1>1, <1>2, <2>1, Typed
<1>25. /\ turns' \in [Clients -> 0..MaxTurns] /\ misled' \in SUBSET (Clients \X {"store", "page"})
       /\ misled \subseteq misled'
  BY <1>1, <1>2, Typed, TurnTaken
<1> QED BY <1>1, <1>5, <1>7, <1>9, <1>18, <1>21, <1>22, <1>23, <1>24, <1>25, PassengerStep

\* A passenger hears an event.
LEMMA PassengerHearsStep == ASSUME RideIInv, NEW p \in Passengers, PassengerHears(p) PROVE RideIInv'
<1>1. PICK e : e = Head(mail[p])
  OBVIOUS
<1>2. p \in Clients /\ mail[p] \in Seq(ClientEvent) /\ mail[p] # << >>
  BY Typed DEF PassengerHears, Clients
<1>3. mail'[p] = Tail(mail[p]) /\ \A c \in Clients \ {p} : mail'[c] = mail[c]
  BY <1>2, Typed DEF PassengerHears
<1>4. /\ Len(mail[p]) >= 1 /\ Len(mail'[p]) = Len(mail[p]) - 1 /\ mail'[p] \in Seq(ClientEvent)
      /\ e = mail[p][1] /\ 1 \in DOMAIN mail[p]
      /\ \A k \in DOMAIN mail'[p] : mail'[p][k] = mail[p][k + 1] /\ k + 1 \in DOMAIN mail[p]
      /\ \A k \in DOMAIN mail[p] \ {1} : k - 1 \in DOMAIN mail'[p] /\ mail'[p][k - 1] = mail[p][k]
  <2>1. /\ mail'[p] \in Seq(ClientEvent) /\ Len(mail[p]) >= 1 /\ Len(mail'[p]) = Len(mail[p]) - 1
        /\ Head(mail[p]) = mail[p][1]
        /\ \A k \in DOMAIN mail'[p] : mail'[p][k] = mail[p][k + 1] /\ k + 1 \in DOMAIN mail[p]
        /\ \A k \in DOMAIN mail[p] \ {1} : k - 1 \in DOMAIN mail'[p] /\ mail'[p][k - 1] = mail[p][k]
    BY <1>2, <1>3, TailOf
  <2> QED BY <1>1, <1>2, <2>1
<1>5. mail' \in [Clients -> Seq(ClientEvent)]
  <2>1. mail' = [mail EXCEPT ![p] = Tail(mail[p])]
    BY DEF PassengerHears
  <2> QED BY <1>2, <1>3, <1>4, <2>1, Typed
<1>6. /\ e \in ClientEvent /\ TellsOK(p, e)
  BY <1>2, <1>4, Typed DEF AllTellOK
<1>7. Sound(p, {e.trip}) /\ One({e.trip}) /\ p # Driver
  BY <1>6, TripClientAssumption DEF Sound, One, AtMostOne, TellsOK, Of, ClientEvent
<1>8. PICK t : t = tab[p]
  OBVIOUS
<1>9. /\ t \in Tab /\ Sound(p, t.active) /\ Sound(p, t.awaiting) /\ One(t.active) /\ KeepsLoads(calls)
      /\ TabOK(p) /\ StoreOK(p) /\ PageOK(p)
  BY <1>8, TabIsSound
<1> DEFINE now == CASE e.kind = "started" -> [t EXCEPT !.active = {e.trip}]
                    [] e.kind = "dropoff_requested" -> [t EXCEPT !.awaiting = @ \cup {e.trip}]
                    [] e.kind = "completed" -> [t EXCEPT !.active = @ \ {e.trip}, !.awaiting = @ \ {e.trip}]
           ended == IF e.kind = "completed" THEN {e.trip} ELSE {}
<1>10. /\ misled' = misled \ Left(p) /\ UNCHANGED <<ride, desk, link, turns>>
       /\ Stored(p, now, ended, calls)
  <2>1. /\ misled' = misled \ Left(p) /\ UNCHANGED <<ride, desk, link, turns>>
    BY DEF PassengerHears
  <2>2. CASE e.kind = "started"
    BY <1>1, <1>8, <2>2 DEF PassengerHears
  <2>3. CASE e.kind = "dropoff_requested"
    BY <1>1, <1>8, <2>3 DEF PassengerHears
  <2>4. CASE e.kind = "completed"
    BY <1>1, <1>8, <2>4 DEF PassengerHears
  <2> QED BY <1>6, <2>1, <2>2, <2>3, <2>4 DEF ClientEvent
<1>11. /\ now \in Tab /\ now.page = t.page /\ now.viewed = t.viewed /\ now.shown = t.shown
       /\ \/ e.kind = "started" /\ now.active = {e.trip} /\ now.awaiting = t.awaiting
          \/ e.kind = "dropoff_requested" /\ now.active = t.active /\ now.awaiting = t.awaiting \cup {e.trip}
          \/ e.kind = "completed" /\ now.active = t.active \ {e.trip} /\ now.awaiting = t.awaiting \ {e.trip}
  <2>1. {e.trip} \in SUBSET Rides
    BY <1>7 DEF Sound
  <2>2. CASE e.kind = "started"
    BY <1>9, <2>1, <2>2 DEF Tab
  <2>3. CASE e.kind = "dropoff_requested"
    BY <1>9, <2>1, <2>3 DEF Tab
  <2>4. CASE e.kind = "completed"
    BY <1>9, <2>1, <2>4 DEF Tab
  <2> QED BY <1>6, <2>2, <2>3, <2>4 DEF ClientEvent
<1>12. PICK n, over : n = now /\ over = ended
  OBVIOUS
<1>13. over \in SUBSET Rides /\ (e.kind = "completed" => over = {e.trip})
  BY <1>7, <1>12 DEF Sound
<1> HIDE DEF now, ended
<1>14. One(n.active) /\ Sound(p, n.active) /\ Sound(p, n.awaiting)
  BY <1>7, <1>9, <1>11, <1>12 DEF One, AtMostOne, Sound, Started, Of
<1>15. /\ Visited(p, n)
       /\ \/ tab'[p].page = "trip" => PageLoads(p)'
          \/ /\ tab'[p].page = tab[p].page /\ tab'[p].viewed = tab[p].viewed /\ tab'[p].shown = tab[p].shown
             /\ PageLoads(p) => PageLoads(p)'
             /\ tab[p].page = "trip" /\ over # {} /\ over = tab[p].viewed => PageLoads(p)'
  BY <1>8, <1>9, <1>10, <1>11, <1>12, <1>13, <1>14, Typed, StoredEffect
<1>16. RideOf(p)' = RideOf(p)
  BY <1>10, Typed, RidesStand
<1>17. /\ \A c, w : <<c, w>> \in misled => <<c, w>> \in misled' \/ <<c, w>> = <<p, "page">>
       /\ <<p, "page">> \in misled /\ <<p, "page">> \notin misled' => tab'[p].viewed # tab[p].viewed
       /\ misled' \in SUBSET (Clients \X {"store", "page"})
  BY <1>10, Typed DEF Left
<1>18. StoreOK(p)'
  <2>1. tab'[p].active = n.active
    BY <1>15 DEF Visited
  <2>2. <<p, "store">> \in misled => <<p, "store">> \in misled'
    BY <1>17
  <2> QED BY <1>1, <1>2, <1>3, <1>8, <1>9, <1>11, <1>12, <1>16, <2>1, <2>2, StoreHears
<1>19. PageOK(p)'
  <2> SUFFICES ASSUME <<p, "page">> \notin misled', tab'[p].page = "trip", tab'[p].shown # "error", ~PageLoads(p)'
               PROVE  EndComes(p)' \/ PageRight(p)'
    BY DEF PageOK
  <2>1. /\ tab'[p].page = tab[p].page /\ tab'[p].viewed = tab[p].viewed /\ tab'[p].shown = tab[p].shown
        /\ ~PageLoads(p) /\ (tab[p].viewed # over \/ over = {})
    BY <1>15
  <2>2. <<p, "page">> \notin misled
    BY <1>17, <2>1
  <2>3. EndComes(p) \/ PageRight(p)
    BY <1>9, <1>15, <2>1, <2>2 DEF PageOK
  <2>4. ASSUME EndComes(p) PROVE EndComes(p)'
    <3>1. PICK i \in DOMAIN mail[p] : mail[p][i].kind = "completed" /\ {mail[p][i].trip} = tab[p].viewed
      BY <2>4 DEF EndComes
    <3>2. i # 1
      <4>1. over # {} /\ over = tab[p].viewed => PageLoads(p)'
        BY <1>15, <2>1
      <4> QED BY <1>4, <1>13, <3>1, <4>1
    <3>3. i - 1 \in DOMAIN mail'[p] /\ mail'[p][i - 1] = mail[p][i]
      BY <1>4, <3>2
    <3>4. mail'[p][i - 1].kind = "completed" /\ {mail'[p][i - 1].trip} = tab'[p].viewed
      BY <2>1, <3>1, <3>3
    <3> QED BY <3>3, <3>4 DEF EndComes
  <2> QED BY <1>16, <2>1, <2>3, <2>4 DEF PageRight
<1>20. \A u : u \in tab'[p].awaiting => u \in tab[p].awaiting \/ Requested(p, u)
  <2> SUFFICES ASSUME NEW u, u \in tab'[p].awaiting, u \notin tab[p].awaiting PROVE Requested(p, u)
    OBVIOUS
  <2>1. e.kind = "dropoff_requested" /\ e.trip = u
    BY <1>8, <1>11, <1>12, <1>15 DEF Visited
  <2>2. e = [kind |-> "dropoff_requested", trip |-> u]
    BY <1>6, <2>1 DEF ClientEvent
  <2> QED BY <1>4, <2>2 DEF Requested
<1>21. \A i \in DOMAIN mail'[p] : \E j \in DOMAIN mail[p] : mail'[p][i] = mail[p][j]
  BY <1>4
<1>22. turns' \in [Clients -> 0..MaxTurns]
  BY <1>10, Typed
<1>23. \A c \in Clients \ {p}, w \in {"store", "page"} : <<c, w>> \in misled => <<c, w>> \in misled'
  BY <1>17
<1> QED BY <1>3, <1>5, <1>10, <1>15, <1>17, <1>18, <1>19, <1>20, <1>21, <1>22, <1>23, PassengerStep DEF Visited

\* The store takes the answer of /trips/active.
LEMMA TakeActiveStep == ASSUME RideIInv, NEW i \in DOMAIN calls, TakeActive(i) PROVE RideIInv'
<1>1. PICK k : k = calls[i]
  OBVIOUS
<1>2. k \in Call /\ AsksOK(k)
  BY <1>1, Typed DEF AllAskOK, Flying
<1>3. PICK p : p = k.who
  OBVIOUS
<1>4. /\ k.kind = "active" /\ k.stage = "answered"
      /\ Stored(p, [tab[p] EXCEPT !.active = k.rides], {}, Done(i))
      /\ misled' = IF k.rides # RideOf(p) THEN (misled \ Left(p)) \cup {<<p, "store">>}
                   ELSE misled \ (Left(p) \cup (IF mail[p] = << >> THEN {<<p, "store">>} ELSE {}))
      /\ UNCHANGED <<ride, desk, link, mail, turns>>
  BY <1>1, <1>3 DEF TakeActive
<1>5. p \in Passengers /\ p # Driver /\ p \in Clients
  BY <1>2, <1>3, <1>4 DEF AsksOK, Call, Clients
<1>6. One(k.rides) /\ Sound(p, k.rides)
  BY <1>2, <1>3, <1>4, <1>5 DEF AsksOK, One, Sound, Started, Of, Call
<1>7. PICK n : n = [tab[p] EXCEPT !.active = k.rides]
  OBVIOUS
<1>8. /\ tab[p] \in Tab /\ Sound(p, tab[p].awaiting) /\ TabOK(p) /\ StoreOK(p) /\ PageOK(p)
  BY <1>5, TabIsSound
<1>9. /\ n \in Tab /\ n.page = tab[p].page /\ n.viewed = tab[p].viewed /\ n.shown = tab[p].shown
      /\ n.active = k.rides /\ n.awaiting = tab[p].awaiting
  BY <1>6, <1>7, <1>8 DEF Tab, Sound
<1>10. PICK cs : cs = Done(i)
  OBVIOUS
<1>11. KeepsLoads(cs)
  <2>1. /\ cs \in Seq(Call) /\ Flying(cs) \subseteq Flying(calls)
        /\ \A m \in Flying(calls) : m \in Flying(cs) \/ m = calls[i]
    BY <1>10, Typed, CallDone
  <2> QED BY <1>1, <1>4, <2>1 DEF KeepsLoads
<1>12. /\ Visited(p, n)
       /\ \/ tab'[p].page = "trip" => PageLoads(p)'
          \/ /\ tab'[p].page = tab[p].page /\ tab'[p].viewed = tab[p].viewed /\ tab'[p].shown = tab[p].shown
             /\ PageLoads(p) => PageLoads(p)'
  <2>1. {} \in SUBSET Rides /\ Stored(p, n, {}, cs)
    BY <1>4, <1>7, <1>10
  <2> QED BY <1>4, <1>5, <1>6, <1>8, <1>9, <1>11, <2>1, Typed, StoredEffect
<1>13. RideOf(p)' = RideOf(p)
  BY <1>4, Typed, RidesStand
<1>14. /\ \A c \in Clients \ {p}, w \in {"store", "page"} : <<c, w>> \in misled => <<c, w>> \in misled'
       /\ <<p, "page">> \in misled /\ <<p, "page">> \notin misled' => tab'[p].viewed # tab[p].viewed
       /\ misled' \in SUBSET (Clients \X {"store", "page"})
  BY <1>4, <1>5, Typed DEF Left
<1>15. tab'[p].active = k.rides
  BY <1>9, <1>12 DEF Visited
<1>16. StoreOK(p)'
  <2>1. CASE k.rides # RideOf(p)
    BY <1>4, <2>1 DEF StoreOK
  <2>2. CASE k.rides = RideOf(p) /\ mail[p] = << >>
    <3>1. DOMAIN mail'[p] = {}
      BY <1>4, <2>2
    <3> QED BY <1>13, <1>15, <2>2, <3>1 DEF StoreOK
  <2>3. CASE k.rides = RideOf(p) /\ mail[p] # << >>
    <3> SUFFICES ASSUME <<p, "store">> \notin misled PROVE StoreOK(p)'
      BY <1>4, <2>3 DEF Left, StoreOK
    <3>1. mail' = mail
      BY <1>4
    <3>2. \A j : Moving(p, j)' <=> Moving(p, j)
      BY <3>1 DEF Moving
    <3>3. \A j, m : Between(p, j, m)' <=> Between(p, j, m)
      BY <3>1, <3>2 DEF Between
    <3>4. /\ \A j, m : Before(p, j, m)' <=> Before(p, j, m)
          /\ \A m : IsLast(p, m)' <=> IsLast(p, m)
      BY <3>1, <3>2, <3>3 DEF Before, IsLast
    <3>5. \A m \in DOMAIN mail[p] : mail[p][m].kind = "completed" /\ IsLast(p, m) => tab'[p].active = {}
      BY <1>8, <1>15, <2>3 DEF StoreOK
    <3> QED BY <1>8, <1>13, <1>15, <2>3, <3>1, <3>2, <3>4, <3>5 DEF StoreOK
  <2> QED BY <2>1, <2>2, <2>3
<1>17. PageOK(p)'
  <2> SUFFICES ASSUME <<p, "page">> \notin misled', tab'[p].page = "trip", tab'[p].shown # "error", ~PageLoads(p)'
               PROVE  EndComes(p)' \/ PageRight(p)'
    BY DEF PageOK
  <2>1. /\ tab'[p].page = tab[p].page /\ tab'[p].viewed = tab[p].viewed /\ tab'[p].shown = tab[p].shown
        /\ ~PageLoads(p)
    BY <1>12
  <2>2. EndComes(p) \/ PageRight(p)
    BY <1>8, <1>14, <2>1 DEF PageOK
  <2> QED BY <1>4, <1>13, <2>1, <2>2 DEF EndComes, PageRight
<1>18. \A j \in DOMAIN mail'[p] : \E m \in DOMAIN mail[p] : mail'[p][j] = mail[p][m]
  BY <1>4
<1>19. \A u : u \in tab'[p].awaiting => u \in tab[p].awaiting
  BY <1>9, <1>12 DEF Visited
<1> QED BY <1>4, <1>5, <1>12, <1>14, <1>16, <1>17, <1>18, <1>19, Typed, PassengerStep DEF Visited

\* The page of a trip loads.
LEMMA TakeTripStep == ASSUME RideIInv, NEW i \in DOMAIN calls, TakeTrip(i) PROVE RideIInv'
<1>1. PICK k : k = calls[i]
  OBVIOUS
<1>2. k \in Call /\ AsksOK(k)
  BY <1>1, Typed DEF AllAskOK, Flying
<1>3. PICK p, s : p = k.who /\ s = (IF k.rides = {} THEN "over" ELSE "active")
  OBVIOUS
<1>4. /\ k.kind = "trip" /\ k.stage = "answered" /\ tab' = [tab EXCEPT ![p].shown = s] /\ calls' = Done(i)
      /\ misled' = IF k.rides = k.about \cap Onboard THEN misled \ {<<p, "page">>} ELSE misled \cup {<<p, "page">>}
      /\ UNCHANGED <<ride, desk, link, mail, turns>>
  BY <1>1, <1>3 DEF TakeTrip
<1>5. p \in Passengers /\ p # Driver /\ p \in Clients
  BY <1>2, <1>3, <1>4 DEF AsksOK, Call, Clients
<1>6. /\ tab[p] \in Tab /\ TabOK(p) /\ StoreOK(p)
  BY <1>5, TabIsSound
<1>7. PICK n : n = [tab[p] EXCEPT !.shown = s]
  OBVIOUS
<1>8. /\ n \in Tab /\ n.page = tab[p].page /\ n.viewed = tab[p].viewed /\ n.shown = s
      /\ n.active = tab[p].active /\ n.awaiting = tab[p].awaiting
  BY <1>3, <1>6, <1>7 DEF Tab
<1>9. tab' \in [Passengers -> Tab] /\ tab'[p] = n /\ \A q \in Passengers \ {p} : tab'[q] = tab[q]
  BY <1>4, <1>5, <1>7, <1>8, Typed
<1>10. /\ calls' \in Seq(Call) /\ Flying(calls') \subseteq Flying(calls)
       /\ \A m \in Flying(calls) : m \in Flying(calls') \/ m = k
  BY <1>1, <1>4, Typed, CallDone
<1>11. RidesGoOn /\ Onboard' = Onboard /\ RideOf(p)' = RideOf(p)
  BY <1>4, Typed, RidesStand
<1>12. AllAskOK'
  BY <1>8, <1>9, <1>10, <1>11, Typed, AllAskStill
<1>13. TabOK(p)'
  BY <1>5, <1>6, <1>8, <1>9, <1>11, Typed, TabStill
<1>14. /\ \A c \in Clients \ {p}, w \in {"store", "page"} : <<c, w>> \in misled => <<c, w>> \in misled'
       /\ <<p, "store">> \in misled => <<p, "store">> \in misled'
       /\ misled' \in SUBSET (Clients \X {"store", "page"})
  BY <1>4, <1>5, Typed
<1>15. StoreOK(p)'
  BY <1>4, <1>6, <1>8, <1>9, <1>11, <1>14, StoreStill
<1>16. PageOK(p)'
  <2> SUFFICES ASSUME k.rides = k.about \cap Onboard, tab[p].page = "trip" PROVE PageRight(p)'
    BY <1>4, <1>8, <1>9 DEF PageOK
  <2>1. k.about = tab[p].viewed
    BY <1>2, <1>3, <1>4 DEF AsksOK
  <2>2. PICK t : tab[p].viewed = {t}
    BY <1>6 DEF TabOK, AtMostOne
  <2>3. t[1] = p
    BY <1>6, <2>2 DEF TabOK, Of
  <2>4. CASE t \in Onboard
    <3>1. t \in RideOf(p)
      BY <2>3, <2>4 DEF RideOf
    <3>2. RideOf(p) = {t}
      BY <1>5, <3>1, Typed, RideIs
    <3> QED BY <1>3, <1>8, <1>9, <1>11, <2>1, <2>2, <2>4, <3>2 DEF PageRight
  <2>5. CASE t \notin Onboard
    <3>1. RideOf(p) # {t}
      BY <2>5 DEF RideOf
    <3> QED BY <1>3, <1>8, <1>9, <1>11, <2>1, <2>2, <2>5, <3>1 DEF PageRight
  <2> QED BY <2>4, <2>5
<1>17. \A q \in Passengers \ {p} : PageLoads(q) => PageLoads(q)'
  BY <1>3, <1>10 DEF PageLoads
<1>18. \A j \in DOMAIN mail'[p] : \E m \in DOMAIN mail[p] : mail'[p][j] = mail[p][m]
  BY <1>4
<1>19. \A u : u \in tab'[p].awaiting => u \in tab[p].awaiting
  BY <1>8, <1>9
<1> QED BY <1>4, <1>5, <1>9, <1>10, <1>12, <1>13, <1>14, <1>15, <1>16, <1>17, <1>18, <1>19, Typed, PassengerStep

\* A scan succeeded.
LEMMA TakePickupStep == ASSUME RideIInv, NEW i \in DOMAIN calls, TakePickup(i) PROVE RideIInv'
<1>1. PICK k : k = calls[i]
  OBVIOUS
<1>2. k \in Call /\ AsksOK(k)
  BY <1>1, Typed DEF AllAskOK, Flying
<1>3. PICK p, cs : p = k.who /\ cs = Done(i)
  OBVIOUS
<1>4. /\ k.kind = "pickup" /\ k.stage = "answered"
      /\ \/ calls' = cs /\ tab' = tab
         \/ Visit(p, tab[p], "trip", k.rides, cs)
      /\ misled' = misled \ Left(p)
      /\ UNCHANGED <<ride, desk, link, mail, turns>>
  BY <1>1, <1>3 DEF TakePickup
<1>5. p \in Passengers /\ p # Driver /\ p \in Clients
  BY <1>2, <1>3, <1>4 DEF AsksOK, Call, Clients
<1>6. /\ tab[p] \in Tab /\ TabOK(p) /\ StoreOK(p) /\ PageOK(p)
      /\ Sound(p, tab[p].active) /\ Sound(p, tab[p].awaiting) /\ One(tab[p].active)
  BY <1>5, TabIsSound
<1>7. KeepsLoads(cs) /\ cs \in Seq(Call) /\ Flying(cs) \subseteq Flying(calls)
  <2>1. /\ cs \in Seq(Call) /\ Flying(cs) \subseteq Flying(calls)
        /\ \A m \in Flying(calls) : m \in Flying(cs) \/ m = calls[i]
    BY <1>3, Typed, CallDone
  <2> QED BY <1>1, <1>4, <2>1 DEF KeepsLoads
<1>8. RidesGoOn /\ Onboard' = Onboard /\ RideOf(p)' = RideOf(p)
  BY <1>4, Typed, RidesStand
<1>9. /\ Visited(p, tab[p])
      /\ \/ tab'[p].page = "trip" => PageLoads(p)'
         \/ tab' = tab /\ (PageLoads(p) => PageLoads(p)')
  <2>1. CASE calls' = cs /\ tab' = tab
    <3>1. AllAskOK'
      BY <1>7, <1>8, <2>1, Typed, AllAskStill
    <3>2. \A q : PageLoads(q) => PageLoads(q)'
      BY <1>7, <2>1 DEF PageLoads, KeepsLoads
    <3>3. TabOK(p)'
      BY <1>5, <1>6, <1>8, <2>1, Typed, TabStill
    <3> QED BY <1>7, <2>1, <3>1, <3>2, <3>3, Typed DEF Visited
  <2>2. CASE Visit(p, tab[p], "trip", k.rides, cs)
    <3>1. One(k.rides) /\ Sound(p, k.rides) /\ k.rides # {} /\ "trip" \in Pages
      BY <1>2, <1>3, <1>4, <1>5 DEF AsksOK, One, Sound, Started, Of, Call, Pages
    <3> QED BY <1>4, <1>5, <1>6, <1>7, <2>2, <3>1, Typed, VisitEffect
  <2> QED BY <1>4, <2>1, <2>2
<1>10. /\ \A c \in Clients \ {p}, w \in {"store", "page"} : <<c, w>> \in misled => <<c, w>> \in misled'
       /\ <<p, "store">> \in misled => <<p, "store">> \in misled'
       /\ tab' = tab => misled' = misled
       /\ misled' \in SUBSET (Clients \X {"store", "page"})
  BY <1>4, <1>5, Typed DEF Left
<1>11. StoreOK(p)'
  BY <1>4, <1>6, <1>8, <1>9, <1>10, StoreStill DEF Visited
<1>12. PageOK(p)'
  <2>1. CASE tab'[p].page = "trip" => PageLoads(p)'
    BY <2>1 DEF PageOK
  <2>2. CASE tab' = tab /\ (PageLoads(p) => PageLoads(p)')
    BY <1>4, <1>6, <1>8, <1>10, <2>2, PageStill DEF EndComes
  <2> QED BY <1>9, <2>1, <2>2
<1>13. \A j \in DOMAIN mail'[p] : \E m \in DOMAIN mail[p] : mail'[p][j] = mail[p][m]
  BY <1>4
<1> QED BY <1>4, <1>5, <1>9, <1>10, <1>11, <1>12, <1>13, Typed, PassengerStep DEF Visited

-----------------------------------------------------------------------------
(* What a tab sends, the driver's steps, the answers that move no passenger's page. *)
LEMMA StepKeepsRequests ==
  ASSUME mail'[Driver] = mail[Driver]
  PROVE  \A t : Requested(Driver, t)' <=> Requested(Driver, t)
BY DEF Requested

\* A tab waits for an answer, or no longer.
LEMMA SubmitTab ==
  ASSUME RideIInv, NEW p \in Passengers, NEW b \in BOOLEAN, tab' = [tab EXCEPT ![p].submitting = b]
  PROVE  tab' \in [Passengers -> Tab] /\ \A q \in Passengers : SameTab(q)
<1>1. PICK n : n = [tab[p] EXCEPT !.submitting = b]
  OBVIOUS
<1>2. tab[p] \in Tab
  BY Typed
<1>3. /\ n \in Tab /\ n.page = tab[p].page /\ n.viewed = tab[p].viewed /\ n.shown = tab[p].shown
      /\ n.active = tab[p].active /\ n.awaiting = tab[p].awaiting
  BY <1>1, <1>2 DEF Tab
<1>4. tab' = [tab EXCEPT ![p] = n]
  BY <1>1
<1> QED BY <1>3, <1>4, Typed DEF SameTab

\* A call is sent.
LEMMA SentEffect ==
  ASSUME RideIInv, NEW c \in Clients, NEW kind \in Reads \cup Writes, NEW T \in SUBSET Rides,
         NEW o \in {"page", "tab"}, Started(T), c # Driver => Of(c, T), kind = "complete" => AtMostOne(T),
         kind \in {"sheet", "complete"} <=> c = Driver, kind # "trip",
         NEW cs \in Seq(Call), calls' = cs \o Asked(c, kind, T, o), ride' = ride
  PROVE  /\ calls' \in Seq(Call)
         /\ \A k \in Flying(calls') : k \in Flying(cs) \/ AsksOK(k)'
         /\ Flying(cs) \subseteq Flying(calls')
<1>1. PICK asks : asks = Asked(c, kind, T, o)
  OBVIOUS
<1>2. PICK k \in Call : /\ asks = << k >> /\ k.who = c /\ k.kind = kind /\ k.about = T /\ k.rides = {}
                        /\ k.origin = o /\ k.stage = "sent"
  BY <1>1, AskIsACall
<1>3. calls' \in Seq(Call) /\ Flying(calls') = Flying(cs) \cup {k}
  <2>1. calls' = cs \o << k >>
    BY <1>1, <1>2
  <2> QED BY <2>1, CallSent
<1>4. AsksOK(k)'
  <2>1. RidesGoOn
    BY Typed, RidesStand
  <2>2. Started(T)'
    BY <2>1, Typed, StartedStill
  <2> QED BY <1>2, <2>2 DEF AsksOK, Of, Started
<1> QED BY <1>3, <1>4

LEMMA ScanStep == ASSUME RideIInv, NEW p \in Passengers, Scan(p) PROVE RideIInv'
<1>1. /\ Turn(p) /\ tab' = [tab EXCEPT ![p].submitting = TRUE] /\ calls' = calls \o Asked(p, "pickup", {}, "page")
      /\ UNCHANGED <<ride, desk, link, mail, misled>>
  BY DEF Scan, Send, Sending, Ask
<1>2. p \in Clients /\ p # Driver
  BY TripClientAssumption DEF Clients
<1>3. turns' \in [Clients -> 0..MaxTurns]
  BY <1>1, <1>2, Typed, TurnTaken
<1>4. tab' \in [Passengers -> Tab] /\ \A q \in Passengers : SameTab(q)
  BY <1>1, SubmitTab
<1>5. "pickup" \in Reads \cup Writes /\ Started({}) /\ Of(p, {}) /\ calls \in Seq(Call)
  BY Typed DEF Writes, Started, Of
<1>6. /\ calls' \in Seq(Call)
      /\ \A k \in Flying(calls') : k \in Flying(calls) \/ AsksOK(k)'
      /\ Flying(calls) \subseteq Flying(calls')
  BY <1>1, <1>2, <1>5, SentEffect
<1>7. \A q \in Passengers : PageLoads(q) => PageLoads(q)'
  BY <1>6 DEF PageLoads
<1>8. DeskOK' /\ \A i \in DOMAIN mail'[Driver] : TellsOK(Driver, mail'[Driver][i])
  BY <1>1, Typed DEF DeskOK, Started, AllTellOK, Clients
<1>9. \A t : Requested(Driver, t)' <=> Requested(Driver, t)
  BY <1>1, StepKeepsRequests
<1> QED BY <1>1, <1>3, <1>4, <1>6, <1>7, <1>8, <1>9, Typed, DeskStep

LEMMA GetOutStep == ASSUME RideIInv, NEW p \in Passengers, GetOut(p) PROVE RideIInv'
<1>1. PICK T : T = tab[p].viewed
  OBVIOUS
<1>2. /\ Turn(p) /\ tab' = [tab EXCEPT ![p].submitting = TRUE] /\ calls' = calls \o Asked(p, "dropoff", T, "page")
      /\ UNCHANGED <<ride, desk, link, mail, misled>>
  BY <1>1 DEF GetOut, Send, Sending, Ask
<1>3. p \in Clients /\ p # Driver
  BY TripClientAssumption DEF Clients
<1>4. turns' \in [Clients -> 0..MaxTurns]
  BY <1>2, <1>3, Typed, TurnTaken
<1>5. tab' \in [Passengers -> Tab] /\ \A q \in Passengers : SameTab(q)
  BY <1>2, SubmitTab
<1>6. "dropoff" \in Reads \cup Writes /\ T \in SUBSET Rides /\ Started(T) /\ Of(p, T) /\ calls \in Seq(Call)
  BY <1>1, Typed, TabIsSound DEF Writes, Sound
<1>7. /\ calls' \in Seq(Call)
      /\ \A k \in Flying(calls') : k \in Flying(calls) \/ AsksOK(k)'
      /\ Flying(calls) \subseteq Flying(calls')
  BY <1>2, <1>3, <1>6, SentEffect
<1>8. \A q \in Passengers : PageLoads(q) => PageLoads(q)'
  BY <1>7 DEF PageLoads
<1>9. DeskOK' /\ \A i \in DOMAIN mail'[Driver] : TellsOK(Driver, mail'[Driver][i])
  BY <1>2, Typed DEF DeskOK, Started, AllTellOK, Clients
<1>10. \A t : Requested(Driver, t)' <=> Requested(Driver, t)
  BY <1>2, StepKeepsRequests
<1> QED BY <1>2, <1>4, <1>5, <1>7, <1>8, <1>9, <1>10, Typed, DeskStep

\* A call that is answered, or has failed, and moves no passenger's page.
LEMMA CallOver ==
  ASSUME RideIInv, NEW i \in DOMAIN calls, calls[i].kind # "trip", NEW ds, ds = Done(i)
  PROVE  /\ ds \in Seq(Call) /\ Flying(ds) \subseteq Flying(calls)
         /\ \A q : PageLoads(q) => \E k \in Flying(ds) : k.kind = "trip" /\ k.who = q
<1>1. /\ ds \in Seq(Call) /\ Flying(ds) \subseteq Flying(calls)
      /\ \A m \in Flying(calls) : m \in Flying(ds) \/ m = calls[i]
  BY Typed, CallDone
<1> QED BY <1>1 DEF PageLoads

LEMMA TakeDropoffStep == ASSUME RideIInv, NEW i \in DOMAIN calls, TakeDropoff(i) PROVE RideIInv'
<1>1. PICK k : k = calls[i]
  OBVIOUS
<1>2. k \in Call /\ AsksOK(k)
  BY <1>1, Typed DEF AllAskOK, Flying
<1>3. k.kind = "dropoff" /\ k.who \in Passengers
  BY <1>1, <1>2 DEF TakeDropoff, AsksOK, Call, Clients
<1>4. PICK b : b = (tab[k.who].submitting /\ k.origin # "page")
  OBVIOUS
<1>5. b \in BOOLEAN /\ tab' = [tab EXCEPT ![k.who].submitting = b]
  BY <1>1, <1>4 DEF TakeDropoff
<1>6. calls' = Done(i) /\ UNCHANGED <<ride, desk, link, mail, turns, misled>>
  BY DEF TakeDropoff
<1>7. tab' \in [Passengers -> Tab] /\ \A q \in Passengers : SameTab(q)
  BY <1>3, <1>5, SubmitTab
<1>8. /\ calls' \in Seq(Call) /\ Flying(calls') \subseteq Flying(calls)
      /\ \A q : PageLoads(q) => \E m \in Flying(calls') : m.kind = "trip" /\ m.who = q
  BY <1>1, <1>3, <1>6, CallOver
<1>9. \A q \in Passengers : PageLoads(q) => PageLoads(q)'
  BY <1>8 DEF PageLoads
<1>10. DeskOK' /\ \A j \in DOMAIN mail'[Driver] : TellsOK(Driver, mail'[Driver][j])
  BY <1>6, Typed DEF DeskOK, Started, AllTellOK, Clients
<1>11. \A t : Requested(Driver, t)' <=> Requested(Driver, t)
  BY <1>6, StepKeepsRequests
<1> QED BY <1>6, <1>7, <1>8, <1>9, <1>10, <1>11, Typed, DeskStep

\* The driver's screen moves, and at most his calls.
LEMMA DriverStep ==
  ASSUME RideIInv, UNCHANGED <<ride, tab, link, misled>>, mail' \in [Clients -> Seq(ClientEvent)],
         \A p \in Passengers : mail'[p] = mail[p],
         \A i \in DOMAIN mail'[Driver] : \E j \in DOMAIN mail[Driver] : mail'[Driver][i] = mail[Driver][j],
         turns' \in [Clients -> 0..MaxTurns], desk' \in Desk, DeskOK,
         Started(desk'.pending \cup desk'.sheet), desk'.dialog # NoDialog => Started({desk'.dialog.trip}),
         \A t \in Onboard : t \in desk.pending \/ Requested(Driver, t) => t \in desk'.pending \/ Requested(Driver, t)',
         calls' \in Seq(Call), \A k \in Flying(calls') : k \in Flying(calls) \/ AsksOK(k)',
         \A p \in Passengers : PageLoads(p) => PageLoads(p)'
  PROVE  RideIInv'
<1>1. tab' \in [Passengers -> Tab] /\ \A q \in Passengers : SameTab(q)
  BY Typed DEF SameTab
<1>2. DeskOK'
  BY DEF DeskOK, Started
<1>3. \A i \in DOMAIN mail'[Driver] : TellsOK(Driver, mail'[Driver][i])
  BY Typed DEF AllTellOK, Clients
<1> QED BY <1>1, <1>2, <1>3, Typed, DeskStep

-----------------------------------------------------------------------------
(* The driver's steps.                                                     *)
\* The driver's screen sends a call, or none.
LEMMA DriverSends ==
  ASSUME RideIInv, UNCHANGED <<ride, tab>>, NEW cs \in Seq(Call), Flying(cs) \subseteq Flying(calls),
         \A q : PageLoads(q) => \E k \in Flying(cs) : k.kind = "trip" /\ k.who = q,
         NEW kind \in {"sheet", "complete"}, NEW T \in SUBSET Rides, Started(T), kind = "complete" => AtMostOne(T),
         NEW o \in {"page", "tab"}, calls' = cs \o Asked(Driver, kind, T, o) \/ calls' = cs
  PROVE  /\ calls' \in Seq(Call)
         /\ \A k \in Flying(calls') : k \in Flying(calls) \/ AsksOK(k)'
         /\ \A p : PageLoads(p) => PageLoads(p)'
<1>1. CASE calls' = cs
  BY <1>1 DEF PageLoads
<1>2. CASE calls' = cs \o Asked(Driver, kind, T, o)
  <2>1. Driver \in Clients /\ kind \in Reads \cup Writes /\ kind # "trip"
    BY DEF Clients, Reads, Writes
  <2>2. /\ calls' \in Seq(Call)
        /\ \A k \in Flying(calls') : k \in Flying(cs) \/ AsksOK(k)'
        /\ Flying(cs) \subseteq Flying(calls')
    BY <1>2, <2>1, SentEffect
  <2> QED BY <2>2 DEF PageLoads
<1> QED BY <1>1, <1>2

\* What leaves the pages of the passengers as they are.
LEMMA NothingSent ==
  ASSUME RideIInv
  PROVE  /\ \A q : PageLoads(q) => \E k \in Flying(calls) : k.kind = "trip" /\ k.who = q
         /\ {} \in SUBSET Rides /\ Started({}) /\ calls \in Seq(Call)
         /\ desk.dialog = NoDialog \/ (desk.dialog \in Dialog /\ Started({desk.dialog.trip}))
         /\ Started(desk.pending \cup desk.sheet) /\ Started(desk.pending) /\ Started(desk.sheet)
         /\ desk.pending \in SUBSET Rides /\ desk.sheet \in SUBSET Rides
BY Typed DEF PageLoads, Started, DeskOK, Desk

\* The watcher of /map only opens a dialog.
LEMMA NoticedEffect ==
  ASSUME NEW d \in Desk, Started(d.pending), d.dialog # NoDialog => Started({d.dialog.trip}), Noticed(d)
  PROVE  /\ desk' \in Desk /\ desk'.pending = d.pending /\ desk'.sheet = d.sheet
         /\ desk'.dialog # NoDialog => Started({desk'.dialog.trip})
<1>1. CASE desk' = d
  BY <1>1
<1>2. CASE \E t \in d.pending :
         desk' = [d EXCEPT !.handled = @ \cup { u \in d.pending : u \notin d.handled },
                           !.dialog = [from |-> "prompt", trip |-> t]]
  <2>1. PICK t \in d.pending :
         desk' = [d EXCEPT !.handled = @ \cup { u \in d.pending : u \notin d.handled },
                           !.dialog = [from |-> "prompt", trip |-> t]]
    BY <1>2
  <2>2. PICK H, g : H = d.handled \cup { u \in d.pending : u \notin d.handled } /\ g = [from |-> "prompt", trip |-> t]
    OBVIOUS
  <2>3. H \in SUBSET Rides /\ t \in Rides
    BY <2>2 DEF Desk
  <2>4. g \in Dialog /\ g.trip = t
    BY <2>2, <2>3 DEF Dialog
  <2>5. desk' = [d EXCEPT !.handled = H, !.dialog = g]
    BY <2>1, <2>2
  <2>6. desk' \in Desk /\ desk'.pending = d.pending /\ desk'.sheet = d.sheet /\ desk'.dialog = g
    BY <2>3, <2>4, <2>5 DEF Desk
  <2>7. Started({t})
    BY DEF Started
  <2> QED BY <2>4, <2>6, <2>7
<1> QED BY <1>1, <1>2 DEF Noticed

LEMMA SheetAskedStep ==
  ASSUME RideIInv, UNCHANGED <<ride, tab, link, mail, misled>>, turns' \in [Clients -> 0..MaxTurns],
         desk' \in Desk, desk'.pending = desk.pending, desk'.sheet \in {desk.sheet, {}},
         desk'.dialog # NoDialog => Started({desk'.dialog.trip}),
         calls' \in Seq(Call), \A k \in Flying(calls') : k \in Flying(calls) \/ AsksOK(k)',
         \A p \in Passengers : PageLoads(p) => PageLoads(p)'
  PROVE  RideIInv'
<1>1. Started(desk'.pending \cup desk'.sheet)
  BY NothingSent DEF Started
<1>2. \A t : Requested(Driver, t)' <=> Requested(Driver, t)
  BY StepKeepsRequests
<1>3. mail' \in [Clients -> Seq(ClientEvent)] /\ DeskOK
  BY Typed
<1> QED BY <1>1, <1>2, <1>3, DriverStep

LEMMA GoToMapStep == ASSUME RideIInv, GoToMap PROVE RideIInv'
<1>1. /\ Turn(Driver) /\ desk' = [desk EXCEPT !.on_map = TRUE] /\ calls' = calls \o Asked(Driver, "sheet", {}, "page")
      /\ UNCHANGED <<ride, tab, link, mail, misled>>
  BY DEF GoToMap, Send, Sending, Ask
<1>2. turns' \in [Clients -> 0..MaxTurns]
  BY <1>1, Typed, TurnTaken DEF Clients
<1>3. desk' \in Desk /\ desk'.pending = desk.pending /\ desk'.sheet = desk.sheet /\ desk'.dialog = desk.dialog
  BY <1>1, Typed DEF Desk
<1>4. /\ calls' \in Seq(Call)
      /\ \A k \in Flying(calls') : k \in Flying(calls) \/ AsksOK(k)'
      /\ \A p : PageLoads(p) => PageLoads(p)'
  BY <1>1, NothingSent, DriverSends
<1>5. desk'.dialog # NoDialog => Started({desk'.dialog.trip})
  BY <1>3, NothingSent
<1> QED BY <1>1, <1>2, <1>3, <1>4, <1>5, SheetAskedStep

LEMMA LeaveMapStep == ASSUME RideIInv, LeaveMap PROVE RideIInv'
<1>1. /\ Turn(Driver)
      /\ desk' = [desk EXCEPT !.on_map = FALSE, !.sheet = {}, !.handled = {}, !.completing = {}]
      /\ Leaving(Driver, calls, << >>)
      /\ UNCHANGED <<ride, tab, link, mail, misled>>
  BY DEF LeaveMap
<1>2. turns' \in [Clients -> 0..MaxTurns]
  BY <1>1, Typed, TurnTaken DEF Clients
<1>3. desk' \in Desk /\ desk'.pending = desk.pending /\ desk'.sheet = {} /\ desk'.dialog = desk.dialog
  BY <1>1, Typed DEF Desk
<1>4. /\ calls' \in Seq(Call)
      /\ \A k \in Flying(calls') :
           \E m \in Flying(calls) : k = Orphan(Driver, m) /\ (m.who # Driver \/ m.kind \notin {"trip", "sheet"})
      /\ \A k \in Flying(calls) : k.who # Driver => k \in Flying(calls')
  BY <1>1, NoneFlying, Typed, LeavingEffect
<1>5. ASSUME NEW k \in Flying(calls') PROVE k \in Flying(calls) \/ AsksOK(k)'
  <2>1. PICK m \in Flying(calls) : k = Orphan(Driver, m)
    BY <1>4
  <2>2. m \in Call /\ AsksOK(m)
    BY Typed DEF AllAskOK, Flying
  <2>3. CASE m.who = Driver /\ k = [m EXCEPT !.origin = "tab"]
    <3>1. /\ k \in Call /\ k.who = Driver /\ k.kind = m.kind /\ k.about = m.about /\ k.rides = m.rides
          /\ k.origin = "tab" /\ k.stage = m.stage
      BY <2>2, <2>3 DEF Call
    <3>2. AsksOK(k)
      BY <2>2, <2>3, <3>1 DEF AsksOK
    <3>3. RidesGoOn
      BY <1>1, Typed, RidesStand
    <3> QED BY <1>1, <3>1, <3>2, <3>3, Typed, AsksStill
  <2> QED BY <2>1, <2>2, <2>3, OrphanIsACall
<1>6. \A p \in Passengers : PageLoads(p) => PageLoads(p)'
  BY <1>4, TripClientAssumption DEF PageLoads
<1>7. desk'.dialog # NoDialog => Started({desk'.dialog.trip})
  BY <1>3, NothingSent
<1> QED BY <1>1, <1>2, <1>3, <1>4, <1>5, <1>6, <1>7, SheetAskedStep

LEMMA PollStep == ASSUME RideIInv, Poll PROVE RideIInv'
<1>1. calls' = calls \o Asked(Driver, "sheet", {}, "page") /\ UNCHANGED <<ride, tab, desk, link, mail, turns, misled>>
  BY DEF Poll, Refresh, Send, Sending, Ask
<1>2. /\ calls' \in Seq(Call)
      /\ \A k \in Flying(calls') : k \in Flying(calls) \/ AsksOK(k)'
      /\ \A p : PageLoads(p) => PageLoads(p)'
  BY <1>1, NothingSent, DriverSends
<1> QED BY <1>1, <1>2, Typed, CallStep

LEMMA DialogStep ==
  ASSUME RideIInv, Reject \/ CloseDialog \/ \E t \in Rides : AskConfirmation(t)
  PROVE  RideIInv'
<1>1. UNCHANGED <<ride, tab, link, mail, calls, misled>>
  BY DEF Reject, CloseDialog, AskConfirmation
<1>2. /\ turns' \in [Clients -> 0..MaxTurns] /\ desk' \in Desk /\ desk'.pending = desk.pending
      /\ desk'.sheet = desk.sheet /\ (desk'.dialog # NoDialog => Started({desk'.dialog.trip}))
  <2>1. desk \in Desk /\ turns \in [Clients -> 0..MaxTurns] /\ Driver \in Clients
    BY Typed DEF Clients
  <2>2. CASE CloseDialog
    <3>1. desk' = [desk EXCEPT !.dialog = NoDialog] /\ turns' = turns
      BY <2>2 DEF CloseDialog
    <3> QED BY <2>1, <3>1 DEF Desk
  <2>3. CASE Reject
    <3>1. PICK H : H = IF desk.dialog.from = "prompt" THEN desk.handled \ {desk.dialog.trip} ELSE desk.handled
      OBVIOUS
    <3>2. H \in SUBSET Rides
      BY <2>1, <3>1 DEF Desk
    <3>3. desk' = [desk EXCEPT !.dialog = NoDialog, !.handled = H] /\ turns' = turns
      BY <2>3, <3>1 DEF Reject
    <3> QED BY <2>1, <3>2, <3>3 DEF Desk
  <2>4. ASSUME NEW t \in Rides, AskConfirmation(t)
        PROVE  /\ turns' \in [Clients -> 0..MaxTurns] /\ desk' \in Desk /\ desk'.pending = desk.pending
               /\ desk'.sheet = desk.sheet /\ (desk'.dialog # NoDialog => Started({desk'.dialog.trip}))
    <3>1. PICK g : g = [from |-> "sheet", trip |-> t]
      OBVIOUS
    <3>2. t \in desk.sheet /\ Turn(Driver) /\ desk' = [desk EXCEPT !.dialog = g]
      BY <2>4, <3>1 DEF AskConfirmation
    <3>3. g \in Dialog /\ g.trip = t
      BY <3>1 DEF Dialog
    <3>4. desk' \in Desk /\ desk'.pending = desk.pending /\ desk'.sheet = desk.sheet /\ desk'.dialog = g
      BY <2>1, <3>2, <3>3 DEF Desk
    <3>5. Started({t})
      BY <3>2, NothingSent DEF Started
    <3> QED BY <2>1, <3>2, <3>3, <3>4, <3>5, TurnTaken
  <2> QED BY <2>2, <2>3, <2>4
<1>3. /\ calls' \in Seq(Call) /\ \A k \in Flying(calls') : k \in Flying(calls)
      /\ \A p \in Passengers : PageLoads(p) => PageLoads(p)'
  BY <1>1, Typed DEF PageLoads
<1> QED BY <1>1, <1>2, <1>3, SheetAskedStep

LEMMA AcceptStep == ASSUME RideIInv, NEW fix \in BOOLEAN, Accept(fix) PROVE RideIInv'
<1>1. PICK t, H, P, o :
        /\ t = desk.dialog.trip
        /\ H = IF desk.dialog.from = "sheet" THEN desk.handled ELSE desk.handled \ {t}
        /\ P = IF desk.dialog.from = "sheet" /\ (fix /\ ~(desk.dialog.from = "sheet" /\ t \in desk.completing))
                  /\ desk.on_map
               THEN desk.completing \cup {t} ELSE desk.completing
        /\ o = IF desk.dialog.from = "sheet" /\ desk.on_map THEN "page" ELSE "tab"
  OBVIOUS
<1>2. /\ desk.dialog # NoDialog /\ desk' = [desk EXCEPT !.dialog = NoDialog, !.handled = H, !.completing = P]
      /\ calls' = calls \o Asked(Driver, "complete", {t}, o) \/ calls' = calls \o << >>
      /\ UNCHANGED <<ride, tab, link, mail, turns, misled>>
  BY <1>1 DEF Accept, Send, Sending
<1>3. desk.dialog \in Dialog /\ Started({t}) /\ o \in {"page", "tab"} /\ desk \in Desk
  BY <1>1, <1>2, NothingSent, Typed
<1>4. t \in Rides
  BY <1>1, <1>3 DEF Dialog
<1>5. H \in SUBSET Rides /\ P \in SUBSET Rides
  BY <1>1, <1>3, <1>4 DEF Desk
<1>6. /\ desk' \in Desk /\ desk'.pending = desk.pending /\ desk'.sheet = desk.sheet /\ desk'.dialog = NoDialog
  BY <1>2, <1>3, <1>5 DEF Desk
<1>7. calls \o << >> = calls
  BY Typed
<1>8. {t} \in SUBSET Rides /\ AtMostOne({t})
  BY <1>4 DEF AtMostOne
<1>9. /\ calls' \in Seq(Call)
      /\ \A k \in Flying(calls') : k \in Flying(calls) \/ AsksOK(k)'
      /\ \A p : PageLoads(p) => PageLoads(p)'
  BY <1>2, <1>3, <1>7, <1>8, NothingSent, DriverSends
<1> QED BY <1>2, <1>6, <1>9, Typed, SheetAskedStep

LEMMA DriverHearsStep == ASSUME RideIInv, DriverHears PROVE RideIInv'
<1>1. PICK ms, e : ms = mail[Driver] /\ e = Head(mail[Driver])
  OBVIOUS
<1>2. PICK P : P = CASE e.kind = "started" -> desk.pending
                     [] e.kind = "dropoff_requested" -> desk.pending \cup {e.trip}
                     [] e.kind = "completed" -> desk.pending \ {e.trip}
  OBVIOUS
<1>3. PICK d : d = [desk EXCEPT !.pending = P]
  OBVIOUS
<1>4. /\ ms # << >> /\ mail' = [mail EXCEPT ![Driver] = Tail(ms)]
      /\ (e.kind = "started" /\ desk' = desk) \/ Noticed(d)
      /\ calls' = calls \o Asked(Driver, "sheet", {}, "page") \/ calls' = calls \o << >>
      /\ UNCHANGED <<ride, tab, link, turns, misled>>
  BY <1>1, <1>2, <1>3 DEF DriverHears, Send, Sending, Refresh, Ask
<1>5. Driver \in Clients /\ desk \in Desk /\ mail \in [Clients -> Seq(ClientEvent)] /\ AllTellOK
  BY Typed DEF Clients
<1>6. PICK rest : rest = Tail(ms)
  OBVIOUS
<1>7. /\ rest \in Seq(ClientEvent) /\ Len(ms) >= 1 /\ e = ms[1]
      /\ \A i \in DOMAIN rest : rest[i] = ms[i + 1] /\ i + 1 \in DOMAIN ms
      /\ \A i \in DOMAIN ms \ {1} : i - 1 \in DOMAIN rest /\ rest[i - 1] = ms[i]
  <2>1. ms \in Seq(ClientEvent) /\ ms # << >> /\ rest = Tail(ms) /\ e = Head(ms)
    BY <1>1, <1>4, <1>5, <1>6
  <2>2. /\ rest \in Seq(ClientEvent) /\ Len(ms) >= 1 /\ Head(ms) = ms[1]
        /\ \A i \in DOMAIN rest : rest[i] = ms[i + 1] /\ i + 1 \in DOMAIN ms
        /\ \A i \in DOMAIN ms \ {1} : i - 1 \in DOMAIN rest /\ rest[i - 1] = ms[i]
    BY <2>1, TailOf
  <2> QED BY <2>1, <2>2
<1>8. 1 \in DOMAIN ms /\ e \in ClientEvent /\ TellsOK(Driver, e)
  <2>1. ms \in Seq(ClientEvent)
    BY <1>1, <1>5
  <2>2. 1 \in DOMAIN ms
    BY <1>7, <2>1
  <2> QED BY <1>1, <1>5, <1>7, <2>1, <2>2 DEF AllTellOK
<1>9. e.trip \in Rides /\ e.kind \in {"started", "dropoff_requested", "completed"}
  BY <1>8 DEF ClientEvent
<1>10. /\ P \in SUBSET Rides /\ Started(P)
       /\ \A t \in Onboard : t \in desk.pending \/ (e.kind = "dropoff_requested" /\ t = e.trip) => t \in P
  <2>1. Started({e.trip}) /\ (e.kind = "completed" => e.trip \notin Onboard)
    BY <1>8 DEF TellsOK
  <2>2. Started(desk.pending) /\ desk.pending \in SUBSET Rides
    BY NothingSent
  <2>3. CASE e.kind = "started"
    <3>1. P = desk.pending
      BY <1>2, <2>3
    <3> QED BY <2>2, <2>3, <3>1
  <2>4. CASE e.kind = "dropoff_requested"
    <3>1. P = desk.pending \cup {e.trip}
      BY <1>2, <2>4
    <3> QED BY <1>9, <2>1, <2>2, <3>1 DEF Started
  <2>5. CASE e.kind = "completed"
    <3>1. P = desk.pending \ {e.trip}
      BY <1>2, <2>5
    <3> QED BY <2>1, <2>2, <2>5, <3>1 DEF Started
  <2> QED BY <1>9, <2>3, <2>4, <2>5
<1>11. d \in Desk /\ d.pending = P /\ d.sheet = desk.sheet /\ d.dialog = desk.dialog
  BY <1>3, <1>5, <1>10 DEF Desk
<1>12. /\ desk' \in Desk /\ desk'.pending = P /\ desk'.sheet = desk.sheet
       /\ desk'.dialog # NoDialog => Started({desk'.dialog.trip})
  <2>1. CASE e.kind = "started" /\ desk' = desk
    BY <1>2, <1>5, <2>1, NothingSent
  <2>2. CASE Noticed(d)
    <3>1. Started(d.pending) /\ (d.dialog # NoDialog => Started({d.dialog.trip}))
      BY <1>10, <1>11, NothingSent
    <3> QED BY <1>11, <2>2, <3>1, NoticedEffect
  <2> QED BY <1>4, <2>1, <2>2
<1>13. calls \o << >> = calls
  BY Typed
<1>14. /\ calls' \in Seq(Call)
       /\ \A k \in Flying(calls') : k \in Flying(calls) \/ AsksOK(k)'
       /\ \A p : PageLoads(p) => PageLoads(p)'
  BY <1>4, <1>13, NothingSent, DriverSends
<1>15. mail' \in [Clients -> Seq(ClientEvent)] /\ mail'[Driver] = rest /\ \A p \in Passengers : mail'[p] = mail[p]
  BY <1>4, <1>5, <1>6, <1>7, TripClientAssumption DEF Clients
<1>16. \A i \in DOMAIN mail'[Driver] : \E j \in DOMAIN mail[Driver] : mail'[Driver][i] = mail[Driver][j]
  BY <1>1, <1>7, <1>15
<1>17. \A t \in Onboard : t \in desk.pending \/ Requested(Driver, t) => t \in desk'.pending \/ Requested(Driver, t)'
  <2> TAKE t \in Onboard
  <2>1. CASE t \in desk.pending
    BY <1>10, <1>12, <2>1
  <2>2. CASE Requested(Driver, t)
    <3>1. PICK i \in DOMAIN ms : ms[i] = [kind |-> "dropoff_requested", trip |-> t]
      BY <1>1, <2>2 DEF Requested
    <3>2. CASE i = 1
      <4>1. e.kind = "dropoff_requested" /\ e.trip = t
        BY <1>7, <3>1, <3>2
      <4> QED BY <1>10, <1>12, <4>1
    <3>3. CASE i # 1
      <4>1. i - 1 \in DOMAIN mail'[Driver] /\ mail'[Driver][i - 1] = ms[i]
        BY <1>7, <1>15, <3>3
      <4> QED BY <3>1, <4>1 DEF Requested
    <3> QED BY <3>2, <3>3
  <2> QED BY <2>1, <2>2
<1>18. Started(desk'.pending \cup desk'.sheet)
  BY <1>10, <1>12, NothingSent DEF Started
<1> QED BY <1>4, <1>12, <1>14, <1>15, <1>16, <1>17, <1>18, Typed, DriverStep

\* The active trips, on the sheet.
LEMMA TakeSheetStep == ASSUME RideIInv, NEW i \in DOMAIN calls, TakeSheet(i) PROVE RideIInv'
<1>1. PICK k : k = calls[i]
  OBVIOUS
<1>2. k \in Call /\ AsksOK(k)
  BY <1>1, Typed DEF AllAskOK, Flying
<1>3. /\ k.kind = "sheet" /\ desk' = [desk EXCEPT !.sheet = k.rides, !.completing = @ \ k.about] /\ calls' = Done(i)
      /\ UNCHANGED <<ride, tab, link, mail, turns, misled>>
  BY <1>1 DEF TakeSheet
<1>4. /\ desk' \in Desk /\ desk'.pending = desk.pending /\ desk'.sheet = k.rides /\ desk'.dialog = desk.dialog
  BY <1>2, <1>3, Typed DEF Desk, Call
<1>5. Started(desk'.pending \cup desk'.sheet)
  BY <1>2, <1>4, NothingSent DEF AsksOK, Started
<1>6. /\ calls' \in Seq(Call) /\ Flying(calls') \subseteq Flying(calls)
      /\ \A q : PageLoads(q) => \E m \in Flying(calls') : m.kind = "trip" /\ m.who = q
  BY <1>1, <1>3, CallOver
<1>7. \A q \in Passengers : PageLoads(q) => PageLoads(q)'
  BY <1>6 DEF PageLoads
<1>8. /\ \A t : Requested(Driver, t)' <=> Requested(Driver, t)
      /\ desk'.dialog # NoDialog => Started({desk'.dialog.trip})
      /\ mail' \in [Clients -> Seq(ClientEvent)] /\ DeskOK
  BY <1>3, <1>4, NothingSent, StepKeepsRequests, Typed
<1> QED BY <1>3, <1>4, <1>5, <1>6, <1>7, <1>8, Typed, DriverStep

\* A trip is over: its request goes, the sheet loads again.
LEMMA TakeCompleteStep == ASSUME RideIInv, NEW i \in DOMAIN calls, TakeComplete(i) PROVE RideIInv'
<1>1. PICK k, cs : k = calls[i] /\ cs = Done(i)
  OBVIOUS
<1>2. k \in Call /\ AsksOK(k)
  BY <1>1, Typed DEF AllAskOK, Flying
<1>3. PICK T : T = k.about
  OBVIOUS
<1>4. PICK d : d = [desk EXCEPT !.pending = @ \ T]
  OBVIOUS
<1>5. /\ k.kind = "complete" /\ k.stage = "answered" /\ Noticed(d)
      /\ calls' = cs \o Asked(Driver, "sheet", T, "page") \/ calls' = cs \o << >>
      /\ UNCHANGED <<ride, tab, link, mail, turns, misled>>
  BY <1>1, <1>3, <1>4 DEF TakeComplete, Ask
<1>6. T \in SUBSET Rides /\ Started(T) /\ T \cap Onboard = {}
  BY <1>2, <1>3, <1>5 DEF AsksOK, Call, Started
<1>7. d \in Desk /\ d.pending = desk.pending \ T /\ d.sheet = desk.sheet /\ d.dialog = desk.dialog
  BY <1>4, Typed DEF Desk
<1>8. Started(d.pending) /\ (d.dialog # NoDialog => Started({d.dialog.trip}))
  BY <1>7, NothingSent DEF Started
<1>9. /\ desk' \in Desk /\ desk'.pending = desk.pending \ T /\ desk'.sheet = desk.sheet
      /\ desk'.dialog # NoDialog => Started({desk'.dialog.trip})
  BY <1>5, <1>7, <1>8, NoticedEffect
<1>10. /\ cs \in Seq(Call) /\ Flying(cs) \subseteq Flying(calls)
       /\ \A q : PageLoads(q) => \E m \in Flying(cs) : m.kind = "trip" /\ m.who = q
  BY <1>1, <1>5, CallOver
<1>11. cs \o << >> = cs
  BY <1>10
<1>12. /\ calls' \in Seq(Call)
       /\ \A m \in Flying(calls') : m \in Flying(calls) \/ AsksOK(m)'
       /\ \A p : PageLoads(p) => PageLoads(p)'
  BY <1>5, <1>6, <1>10, <1>11, DriverSends
<1>13. /\ \A t : Requested(Driver, t)' <=> Requested(Driver, t)
       /\ mail' \in [Clients -> Seq(ClientEvent)] /\ DeskOK
  BY <1>5, StepKeepsRequests, Typed
<1>14. \A t \in Onboard : t \in desk.pending \/ Requested(Driver, t) => t \in desk'.pending \/ Requested(Driver, t)'
  BY <1>6, <1>9, <1>13
<1>15. Started(desk'.pending \cup desk'.sheet)
  BY <1>9, NothingSent DEF Started
<1> QED BY <1>5, <1>9, <1>12, <1>13, <1>14, <1>15, Typed, DriverStep

\* A call failed: of a page that loads, of a tab that waits, of the driver.
LEMMA FailedLoad ==
  ASSUME RideIInv, NEW i \in DOMAIN calls, TakeFailure(i), calls[i].kind = "trip"
  PROVE  RideIInv'
<1>1. PICK k : k = calls[i]
  OBVIOUS
<1>2. k \in Call /\ AsksOK(k) /\ k.kind = "trip"
  BY <1>1, Typed DEF AllAskOK, Flying
<1>3. PICK p : p = k.who
  OBVIOUS
<1>4. p \in Passengers /\ p # Driver /\ p \in Clients
  BY <1>2, <1>3 DEF AsksOK, Call, Clients
<1>5. /\ tab' = [tab EXCEPT ![p].shown = "error"] /\ calls' = Done(i)
      /\ desk' = [desk EXCEPT !.completing = @]
      /\ UNCHANGED <<ride, link, mail, turns, misled>>
  BY <1>1, <1>2, <1>3, <1>4 DEF TakeFailure
<1>6. /\ tab[p] \in Tab /\ TabOK(p) /\ StoreOK(p)
  BY <1>4, TabIsSound
<1>7. PICK n : n = [tab[p] EXCEPT !.shown = "error"]
  OBVIOUS
<1>8. /\ n \in Tab /\ n.page = tab[p].page /\ n.viewed = tab[p].viewed /\ n.shown = "error"
      /\ n.active = tab[p].active /\ n.awaiting = tab[p].awaiting
  BY <1>6, <1>7 DEF Tab
<1>9. tab' \in [Passengers -> Tab] /\ tab'[p] = n /\ \A q \in Passengers \ {p} : tab'[q] = tab[q]
  BY <1>4, <1>5, <1>7, <1>8, Typed
<1>10. /\ calls' \in Seq(Call) /\ Flying(calls') \subseteq Flying(calls)
       /\ \A m \in Flying(calls) : m \in Flying(calls') \/ m = k
  BY <1>1, <1>5, Typed, CallDone
<1>11. RidesGoOn /\ RideOf(p)' = RideOf(p)
  BY <1>5, Typed, RidesStand
<1>12. AllAskOK'
  BY <1>8, <1>9, <1>10, <1>11, Typed, AllAskStill
<1>13. TabOK(p)'
  BY <1>4, <1>6, <1>8, <1>9, <1>11, Typed, TabStill
<1>14. StoreOK(p)'
  BY <1>5, <1>6, <1>8, <1>9, <1>11, StoreStill
<1>15. PageOK(p)'
  BY <1>8, <1>9 DEF PageOK
<1>16. \A q \in Passengers \ {p} : PageLoads(q) => PageLoads(q)'
  BY <1>3, <1>10 DEF PageLoads
<1>17. desk' = desk
  BY <1>5, Typed DEF Desk
<1>18. \A j \in DOMAIN mail'[p] : \E m \in DOMAIN mail[p] : mail'[p][j] = mail[p][m]
  BY <1>5
<1>19. \A u : u \in tab'[p].awaiting => u \in tab[p].awaiting
  BY <1>8, <1>9
<1> QED BY <1>4, <1>5, <1>9, <1>10, <1>12, <1>13, <1>14, <1>15, <1>16, <1>17, <1>18, <1>19, Typed, PassengerStep

LEMMA TakeFailureStep == ASSUME RideIInv, NEW i \in DOMAIN calls, TakeFailure(i) PROVE RideIInv'
<1>1. CASE calls[i].kind = "trip"
  BY <1>1, FailedLoad
<1>2. CASE calls[i].kind # "trip"
  <2>1. PICK k : k = calls[i]
    OBVIOUS
  <2>2. k \in Call /\ AsksOK(k)
    BY <2>1, Typed DEF AllAskOK, Flying
  <2>3. PICK b, P : /\ b = (tab[k.who].submitting /\ k.origin # "page")
                    /\ P = IF k.who = Driver /\ k.origin = "page" THEN desk.completing \ k.about ELSE desk.completing
    OBVIOUS
  <2>4. /\ \/ k.kind \in {"pickup", "dropoff"} /\ tab' = [tab EXCEPT ![k.who].submitting = b]
           \/ tab' = tab
        /\ desk' = [desk EXCEPT !.completing = P] /\ calls' = Done(i)
        /\ UNCHANGED <<ride, link, mail, turns, misled>>
    BY <1>2, <2>1, <2>3 DEF TakeFailure
  <2>5. desk' \in Desk /\ desk'.pending = desk.pending /\ desk'.sheet = desk.sheet /\ desk'.dialog = desk.dialog
    BY <2>3, <2>4, Typed DEF Desk
  <2>6. DeskOK'
    BY <2>4, <2>5, Typed DEF DeskOK, Started
  <2>7. tab' \in [Passengers -> Tab] /\ \A q \in Passengers : SameTab(q)
    <3>1. CASE tab' = tab
      BY <3>1, Typed DEF SameTab
    <3>2. CASE k.kind \in {"pickup", "dropoff"} /\ tab' = [tab EXCEPT ![k.who].submitting = b]
      <4>1. k.who \in Passengers /\ b \in BOOLEAN
        BY <2>2, <2>3, <3>2 DEF AsksOK, Call, Clients
      <4> QED BY <3>2, <4>1, SubmitTab
    <3> QED BY <2>4, <3>1, <3>2
  <2>8. /\ calls' \in Seq(Call) /\ Flying(calls') \subseteq Flying(calls)
        /\ \A q : PageLoads(q) => \E m \in Flying(calls') : m.kind = "trip" /\ m.who = q
    BY <1>2, <2>4, CallOver
  <2>9. \A q \in Passengers : PageLoads(q) => PageLoads(q)'
    BY <2>8 DEF PageLoads
  <2>10. \A j \in DOMAIN mail'[Driver] : TellsOK(Driver, mail'[Driver][j])
    BY <2>4, Typed DEF AllTellOK, Clients
  <2>11. \A t : Requested(Driver, t)' <=> Requested(Driver, t)
    BY <2>4, StepKeepsRequests
  <2> QED BY <2>4, <2>5, <2>6, <2>7, <2>8, <2>9, <2>10, <2>11, Typed, DeskStep
<1> QED BY <1>1, <1>2

-----------------------------------------------------------------------------
LEMMA StepRideIInv == RideIInv /\ [ClientNext]_client_vars => RideIInv'
<1> SUFFICES ASSUME RideIInv, [ClientNext]_client_vars PROVE RideIInv'
  OBVIOUS
<1>1. CASE UNCHANGED client_vars
  <2>1. UNCHANGED <<ride, tab, desk, link, mail, calls, turns, misled>>
    BY <1>1 DEF client_vars
  <2>2. /\ turns' \in [Clients -> 0..MaxTurns] /\ calls' \in Seq(Call)
        /\ \A k \in Flying(calls') : k \in Flying(calls)
        /\ \A p \in Passengers : PageLoads(p) => PageLoads(p)'
    BY <2>1, Typed DEF PageLoads
  <2> QED BY <2>1, <2>2, CallStep
<1>2. ASSUME NEW p \in Passengers, PassengerActs(p) PROVE RideIInv'
  BY <1>2, OpenStep, ReloadStep, ScanStep, GetOutStep, CancelStep DEF PassengerActs
<1>3. CASE DriverActs
  BY <1>3, GoToMapStep, LeaveMapStep, DialogStep, AcceptStep DEF DriverActs
<1>4. CASE Poll
  BY <1>4, PollStep
<1>5. CASE Hears
  BY <1>5, DriverHearsStep, PassengerHearsStep DEF Hears
<1>6. ASSUME NEW i \in DOMAIN calls, Serve(i) \/ Lose(i) PROVE RideIInv'
  BY <1>6, ReadStep, PickupStep, ServeDropoffStep, CompleteStep, FailStep DEF Serve
<1>7. ASSUME NEW i \in DOMAIN calls, Deliver(i) PROVE RideIInv'
  BY <1>7, TakeActiveStep, TakeTripStep, TakeSheetStep, TakePickupStep, TakeDropoffStep,
     TakeCompleteStep, TakeFailureStep DEF Deliver
<1>8. ASSUME NEW c \in Clients, Drop(c) \/ Connect(c) PROVE RideIInv'
  BY <1>8, LinkStep
<1> QED BY <1>1, <1>2, <1>3, <1>4, <1>5, <1>6, <1>7, <1>8 DEF ClientNext

LEMMA RideInvariance == ClientSpec => []RideIInv
BY InitRideIInv, StepRideIInv, PTL DEF ClientSpec

\* The stores, the pages, the driver's screen, the events and the calls keep their
\* shape: one active trip at most, and a page of a trip shows one.
THEOREM ClientTypeCorrect == ClientSpec => []ClientTypeOK
<1>1. RideIInv => ClientTypeOK
  BY DEF RideIInv
<1> QED BY <1>1, RideInvariance, PTL

LEMMA QuietSees == RideIInv => PassengerSeesTheTruth
<1> SUFFICES ASSUME RideIInv, NEW p \in Passengers, Quiet(p)
             PROVE  /\ <<p, "store">> \notin misled => tab[p].active = RideOf(p)
                    /\ <<p, "page">> \notin misled /\ tab[p].page = "trip" /\ tab[p].shown # "error" =>
                         ((tab[p].shown = "active") <=> (tab[p].viewed = RideOf(p)))
  BY DEF PassengerSeesTheTruth
<1>1. DOMAIN mail[p] = {} /\ \A i \in DOMAIN calls : calls[i].who # p
  BY DEF Quiet, InFlight
<1>2. ~PageLoads(p) /\ ~EndComes(p) /\ \A i \in DOMAIN mail[p] : ~Moving(p, i)
  BY <1>1 DEF PageLoads, Flying, EndComes
<1> QED BY <1>2, TabIsSound DEF StoreOK, PageOK, PageRight

\* Once nothing is on its way to a passenger, his store and the page of a trip tell
\* how his ride is, unless an event was lost or nobody announced its end.
THEOREM SeesTheTruth == ClientSpec => []PassengerSeesTheTruth
BY QuietSees, RideInvariance, PTL

LEMMA QuietIsPending == RideIInv => AwaitingIsPending
<1> SUFFICES ASSUME RideIInv, NEW p \in Passengers, NEW t \in tab[p].awaiting \cap Onboard,
                    <<Driver, "store">> \notin misled, Quiet(Driver)
             PROVE  t \in desk.pending
  BY DEF AwaitingIsPending
<1>1. t[1] = p
  BY TabIsSound DEF Sound, Of
<1>2. ~Requested(Driver, t)
  BY DEF Quiet, Requested
<1> QED BY <1>1, <1>2, Typed DEF RequestsOK

\* A passenger who waits for the driver is on the driver's screen: no dialog that is
\* declined, closed or left, and no answer that comes late, loses his request.
THEOREM RequestIsShown == ClientSpec => []AwaitingIsPending
BY QuietIsPending, RideInvariance, PTL
=============================================================================
