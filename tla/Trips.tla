-------------------------------- MODULE Trips --------------------------------
(***************************************************************************)
(* A ride from the scan of the QR code to its payment: TripsService with   *)
(* the SQL of LocationsService it uses, WalletService.settleTrip as one    *)
(* transaction, and AdminTripsService.cancel.                              *)
(*                                                                         *)
(* A handler in flight is a record call[c]; no handler but settleTrip uses *)
(* a transaction, so every database statement is a step of its own and     *)
(* handlers interleave between them.  A TypeORM save() of a loaded entity  *)
(* is two statements: a SELECT of the row, which decides the columns that  *)
(* differ from the entity, and an UPDATE of those columns.                 *)
(***************************************************************************)
EXTENDS Integers, Sequences, FiniteSets

CONSTANTS
  Users, Nobody,
  Boardings,         \* pairs <<passenger, driver>>: who may scan whose QR code
  Trips, NoTrip,     \* ids of trips rows
  Calls,             \* slots for the handlers in flight
  Quotes,            \* [fare, share] that pricing can make of a distance
  Opening,           \* balance of each wallet at the start
  Int4Max,           \* largest value of an integer column
  MaxPoints,         \* bound: points of a trip before no call adds another
  Operations         \* which handlers this instance receives

ASSUME TripsAssumption ==
  /\ Nobody \notin Users /\ NoTrip \notin Trips
  /\ Boardings \subseteq Users \X Users
  /\ Quotes \subseteq [fare : Nat, share : Nat]
  /\ Int4Max \in Nat /\ MaxPoints \in Nat
  /\ Opening \in [Users -> 0 .. Int4Max]

VARIABLES
  trip,      \* the trips table
  points,    \* trip_points of each trip, in the order of their ids
  billed,    \* kind of the last point of the route a trip was priced on
  waiting,   \* users whose passenger_waits row is_waiting
  ripe,      \* trips older than app.dropoffMinDelaySeconds
  audited,   \* trips with a trip.cancel row in admin_actions
  balance,   \* wallets.balance_xpf
  history,   \* wallet_transactions of each user
  call,      \* the handlers in flight
  bus        \* what the last step handed to RealtimeBus

vars == <<trip, points, billed, waiting, ripe, audited, balance, history, call, bus>>
money == <<balance, history>>

-----------------------------------------------------------------------------
Statuses == {"none", "active", "completed", "cancelled"}
Columns == {"status", "fare", "share"}
Null == -1    \* fare_xpf and driver_share_xpf of a trip not settled yet

TripRow == [ status : Statuses, fare : Int, share : Int,
             passenger : Users \cup {Nobody}, driver : Users \cup {Nobody} ]
Entity == [ status : Statuses, fare : Int, share : Int ]

Unused == [ status |-> "none", fare |-> Null, share |-> Null,
            passenger |-> Nobody, driver |-> Nobody ]

\* An active trip as findOne loads it.
Loaded == [ status |-> "active", fare |-> Null, share |-> Null ]

Kinds == {"start", "track", "dropoff", "end"}
Point == [ seq : Nat, kind : Kinds ]

HistoryRow == [ amount : Int, ref : Trips \cup {NoTrip} ]

Steps == { "idle", "pickup_driver", "pickup_insert", "pickup_point", "pickup_wait",
           "count", "insert", "price", "settle", "save_read", "save_write", "audit" }

CallRecord == [ step : Steps, op : {"none", "pickup", "track", "dropoff", "end", "cancel"},
                user : Users \cup {Nobody}, driver : Users \cup {Nobody},
                trip : Trips \cup {NoTrip}, count : Nat, entity : Entity,
                dirty : SUBSET Columns ]

\* A handler about to run its first statement; u asks, d is the driver of a pickup.
Handler(step, op, u, d, t, entity) ==
  [ step |-> step, op |-> op, user |-> u, driver |-> d, trip |-> t,
    count |-> 0, entity |-> entity, dirty |-> {} ]

Idle == Handler("idle", "none", Nobody, Nobody, NoTrip, Loaded)

Event == [ kind : {"trip:started", "trip:dropoff_requested", "trip:completed"}, trip : Trips ]
Emit(kind, t) == bus' = {[ kind |-> kind, trip |-> t ]}
Silent == bus' = {}

-----------------------------------------------------------------------------
Start(c, rec) ==
  /\ rec.op \in Operations
  /\ call[c] = Idle
  /\ call' = [call EXCEPT ![c] = rec]

At(c, step) == call[c].step = step
Goto(c, step) == call' = [call EXCEPT ![c].step = step]
Finish(c) == call' = [call EXCEPT ![c] = Idle]

Active(t) == trip[t].status = "active"

\* TripsService.findActive and the check of pickup: a trip the user rides or drives.
ActiveTripsOf(u) == { t \in Trips : Active(t) /\ u \in {trip[t].passenger, trip[t].driver} }

\* A uuid no row has and no handler is about to insert.
Fresh(t) == trip[t] = Unused /\ \A c \in Calls : call[c].trip # t

AddPoint(t, seq, kind) ==
  points' = [points EXCEPT ![t] = Append(@, [seq |-> seq, kind |-> kind])]

\* ORDER BY seq: ties may come in any order, so any of these can be the last.
LastKinds(t) ==
  { points[t][i].kind : i \in { i \in DOMAIN points[t] :
                                  \A j \in DOMAIN points[t] : points[t][j].seq <= points[t][i].seq } }

-----------------------------------------------------------------------------
(* TripsService.pickup                                                     *)
PickupCheck(c, p, d, t) ==
  /\ <<p, d>> \in Boardings
  /\ p # d
  /\ ActiveTripsOf(p) = {}
  /\ Fresh(t)
  /\ Start(c, Handler("pickup_driver", "pickup", p, d, t, Loaded))
  /\ Silent
  /\ UNCHANGED <<trip, points, billed, waiting, ripe, audited, money>>

\* The driver is online and near, or the handler throws.
PickupDriver(c) ==
  /\ At(c, "pickup_driver")
  /\ Goto(c, "pickup_insert") \/ Finish(c)
  /\ Silent
  /\ UNCHANGED <<trip, points, billed, waiting, ripe, audited, money>>

PickupInsert(c) ==
  /\ At(c, "pickup_insert")
  /\ trip' = [trip EXCEPT ![call[c].trip] =
                [ status |-> "active", fare |-> Null, share |-> Null,
                  passenger |-> call[c].user, driver |-> call[c].driver ]]
  /\ Goto(c, "pickup_point")
  /\ Silent
  /\ UNCHANGED <<points, billed, waiting, ripe, audited, money>>

PickupPoint(c) ==
  /\ At(c, "pickup_point")
  /\ AddPoint(call[c].trip, 0, "start")
  /\ Goto(c, "pickup_wait")
  /\ Silent
  /\ UNCHANGED <<trip, billed, waiting, ripe, audited, money>>

PickupWait(c) ==
  /\ At(c, "pickup_wait")
  /\ waiting' = waiting \ {call[c].user}
  /\ Emit("trip:started", call[c].trip)
  /\ Finish(c)
  /\ UNCHANGED <<trip, points, billed, ripe, audited, money>>

-----------------------------------------------------------------------------
(* Recording a point: count the points of the trip, then insert one with   *)
(* the count as its seq.  Shared by the passenger's GPS                    *)
(* (recordPassengerPointIfActive), requestDropoff and finalizeTrip.        *)
TrackFind(c, p) ==
  /\ \E t \in ActiveTripsOf(p) :
       /\ trip[t].passenger = p
       /\ Len(points[t]) < MaxPoints
       /\ Start(c, Handler("count", "track", p, Nobody, t, Loaded))
  /\ Silent
  /\ UNCHANGED <<trip, points, billed, waiting, ripe, audited, money>>

RequestDropoff(c, p, t) ==
  /\ Active(t) /\ trip[t].passenger = p
  /\ t \in ripe
  /\ Len(points[t]) < MaxPoints
  /\ Start(c, Handler("count", "dropoff", p, Nobody, t, Loaded))
  /\ Silent
  /\ UNCHANGED <<trip, points, billed, waiting, ripe, audited, money>>

\* Mistake: completion does not wait for the minimum delay.
CompleteTooEarly(c, d, t) ==
  /\ Active(t) /\ trip[t].driver = d
  /\ Len(points[t]) < MaxPoints
  /\ Start(c, Handler("count", "end", d, Nobody, t, Loaded))
  /\ Silent
  /\ UNCHANGED <<trip, points, billed, waiting, ripe, audited, money>>

CompleteByDriver(c, d, t) ==
  /\ Active(t) /\ trip[t].driver = d
  /\ t \in ripe
  /\ Len(points[t]) < MaxPoints
  /\ Start(c, Handler("count", "end", d, Nobody, t, Loaded))
  /\ Silent
  /\ UNCHANGED <<trip, points, billed, waiting, ripe, audited, money>>

\* Mistake: the count leaves the start point out.
CountWithoutStart(c) ==
  /\ At(c, "count")
  /\ points[call[c].trip] # <<>>
  /\ call' = [call EXCEPT ![c].step = "insert", ![c].count = Len(points[call[c].trip]) - 1]
  /\ Silent
  /\ UNCHANGED <<trip, points, billed, waiting, ripe, audited, money>>

CountPoints(c) ==
  /\ At(c, "count")
  /\ call' = [call EXCEPT ![c].step = "insert", ![c].count = Len(points[call[c].trip])]
  /\ Silent
  /\ UNCHANGED <<trip, points, billed, waiting, ripe, audited, money>>

InsertPoint(c) ==
  /\ At(c, "insert")
  /\ AddPoint(call[c].trip, call[c].count, call[c].op)
  /\ IF call[c].op = "end" THEN Goto(c, "price") ELSE Finish(c)
  /\ IF call[c].op = "dropoff" THEN Emit("trip:dropoff_requested", call[c].trip) ELSE Silent
  /\ UNCHANGED <<trip, billed, waiting, ripe, audited, money>>

-----------------------------------------------------------------------------
(* TripsService.finalizeTrip, after its point: read the route, measure and *)
(* price it, settle, save the entity loaded at the start.                  *)
PriceTrip(c) ==
  /\ At(c, "price")
  /\ \E q \in Quotes, k \in LastKinds(call[c].trip) :
       /\ call' = [call EXCEPT ![c].step = "settle",
                               ![c].entity = [status |-> "completed", fare |-> q.fare, share |-> q.share]]
       /\ billed' = [billed EXCEPT ![call[c].trip] = k]
  /\ Silent
  /\ UNCHANGED <<trip, points, waiting, ripe, audited, money>>

PaidTo(u, t) == \E i \in DOMAIN history[u] : history[u][i].ref = t

Lesser(m, n) == IF m <= n THEN m ELSE n

\* Mistakes: a fare above the balance, a share above what was collected.
Overdrawn(c) == call[c].entity.fare
ShareInFull(c) == call[c].entity.share

\* WalletService.settleTrip commits: the unique index on (trip_id, type,
\* user_id) admits one debit of the trip, and no balance leaves its column.
Debited(c) == Lesser(call[c].entity.fare, balance[trip[call[c].trip].passenger])
Credited(c) == Lesser(call[c].entity.share, Debited(c))

\* The trip with the amounts that moved.
Settled(c) == [ status |-> "completed", fare |-> Debited(c), share |-> Credited(c) ]

\* Mistakes: no unique index, no limit on the driver's balance.
CanSettleAgain(c) ==
  LET t == call[c].trip IN
    /\ call[c].entity.fare > 0
    /\ call[c].entity.share <= call[c].entity.fare
    /\ balance[trip[t].driver] + Credited(c) <= Int4Max

CanSettleAnySum(c) ==
  LET t == call[c].trip IN
    /\ call[c].entity.fare > 0
    /\ call[c].entity.share <= call[c].entity.fare
    /\ ~ PaidTo(trip[t].passenger, t)

CanSettle(c) ==
  LET t == call[c].trip IN
    /\ call[c].entity.fare > 0
    /\ call[c].entity.share <= call[c].entity.fare
    /\ ~ PaidTo(trip[t].passenger, t)
    /\ balance[trip[t].driver] + Credited(c) <= Int4Max

SettleTrip(c) ==
  LET t == call[c].trip
      p == trip[t].passenger
      d == trip[t].driver
  IN /\ At(c, "settle")
     /\ CanSettle(c)
     /\ balance' = [balance EXCEPT ![p] = @ - Debited(c), ![d] = @ + Credited(c)]
     /\ history' = [u \in Users |->
          IF u = p THEN Append(history[u], [amount |-> - Debited(c), ref |-> t])
          ELSE IF u = d /\ Credited(c) > 0
          THEN Append(history[u], [amount |-> Credited(c), ref |-> t])
          ELSE history[u]]
     /\ call' = [call EXCEPT ![c].step = "save_read", ![c].entity = Settled(c)]
     /\ Silent
     /\ UNCHANGED <<trip, points, billed, waiting, ripe, audited>>

\* settleTrip throws, for a reason above or because the database fails; the
\* catch logs it and the trip is completed with the computed amounts.
SettleFails(c) ==
  /\ At(c, "settle")
  /\ Goto(c, "save_read")
  /\ Silent
  /\ UNCHANGED <<trip, points, billed, waiting, ripe, audited, money>>

-----------------------------------------------------------------------------
(* AdminTripsService.cancel                                                *)
AdminCancel(c, t) ==
  /\ Active(t)
  /\ Start(c, Handler("save_read", "cancel", Nobody, Nobody, t,
                      [ status |-> "cancelled", fare |-> Null, share |-> Null ]))
  /\ Silent
  /\ UNCHANGED <<trip, points, billed, waiting, ripe, audited, money>>

\* repository.save(entity): the row is read again, only to find what differs.
SaveRead(c) ==
  LET row == trip[call[c].trip] IN
    /\ At(c, "save_read")
    /\ call' = [call EXCEPT ![c].step = "save_write",
                            ![c].dirty = { k \in Columns : row[k] # call[c].entity[k] }]
    /\ Silent
    /\ UNCHANGED <<trip, points, billed, waiting, ripe, audited, money>>

SaveWrite(c) ==
  LET t == call[c].trip
      Saved(k, old, new) == IF k \in call[c].dirty THEN new ELSE old
  IN
    /\ At(c, "save_write")
    /\ trip' = [trip EXCEPT
         ![t].status = Saved("status", @, call[c].entity.status),
         ![t].fare = Saved("fare", @, call[c].entity.fare),
         ![t].share = Saved("share", @, call[c].entity.share)]
    /\ IF call[c].op = "cancel"
         THEN Goto(c, "audit") /\ Silent
         ELSE Finish(c) /\ Emit("trip:completed", t)
    /\ UNCHANGED <<points, billed, waiting, ripe, audited, money>>

RecordAudit(c) ==
  /\ At(c, "audit")
  /\ audited' = audited \cup {call[c].trip}
  /\ Finish(c)
  /\ Silent
  /\ UNCHANGED <<trip, points, billed, waiting, ripe, money>>

-----------------------------------------------------------------------------
(* LocationsService.passengerWait, on passenger:wait                       *)
PassengerWait(u) ==
  /\ "wait" \in Operations
  /\ \E d \in Users : <<u, d>> \in Boardings
  /\ u \notin waiting
  /\ waiting' = waiting \cup {u}
  /\ Silent
  /\ UNCHANGED <<trip, points, billed, ripe, audited, money, call>>

\* The minimum delay of ensureMinDuration passes.
DelayPasses(t) ==
  /\ Active(t) /\ t \notin ripe
  /\ ripe' = ripe \cup {t}
  /\ Silent
  /\ UNCHANGED <<trip, points, billed, waiting, audited, money, call>>

\* A statement fails and the handler throws; nothing it did is undone.
Fail(c) ==
  /\ ~ At(c, "idle") /\ ~ At(c, "settle")
  /\ Finish(c)
  /\ Silent
  /\ UNCHANGED <<trip, points, billed, waiting, ripe, audited, money>>

\* The server process dies with every handler in flight.
Restart ==
  /\ \E c \in Calls : ~ At(c, "idle")
  /\ call' = [c \in Calls |-> Idle]
  /\ Silent
  /\ UNCHANGED <<trip, points, billed, waiting, ripe, audited, money>>

-----------------------------------------------------------------------------
Init ==
  /\ trip = [t \in Trips |-> Unused]
  /\ points = [t \in Trips |-> <<>>]
  /\ billed = [t \in Trips |-> "none"]
  /\ waiting = {}
  /\ ripe = {}
  /\ audited = {}
  /\ balance = Opening
  /\ history = [u \in Users |-> <<>>]
  /\ call = [c \in Calls |-> Idle]
  /\ bus = {}

Arrive(c) ==
  \/ \E u \in Users, t \in Trips :
       \/ \E d \in Users : PickupCheck(c, u, d, t)
       \/ RequestDropoff(c, u, t)
       \/ CompleteByDriver(c, u, t)
  \/ \E u \in Users : TrackFind(c, u)
  \/ \E t \in Trips : AdminCancel(c, t)

Continue(c) ==
  \/ PickupDriver(c) \/ PickupInsert(c) \/ PickupPoint(c) \/ PickupWait(c)
  \/ CountPoints(c) \/ InsertPoint(c)
  \/ PriceTrip(c) \/ SettleTrip(c) \/ SettleFails(c)
  \/ SaveRead(c) \/ SaveWrite(c) \/ RecordAudit(c)

Next ==
  \/ \E c \in Calls : Arrive(c) \/ Continue(c) \/ Fail(c)
  \/ \E u \in Users : PassengerWait(u)
  \/ \E t \in Trips : DelayPasses(t)
  \/ Restart

Spec == Init /\ [][Next]_vars

-----------------------------------------------------------------------------
TypeOK ==
  /\ trip \in [Trips -> TripRow]
  /\ points \in [Trips -> Seq(Point)]
  /\ billed \in [Trips -> Kinds \cup {"none"}]
  /\ waiting \subseteq Users /\ ripe \subseteq Trips /\ audited \subseteq Trips
  /\ balance \in [Users -> 0 .. Int4Max]
  /\ history \in [Users -> Seq(HistoryRow)]
  /\ call \in [Calls -> CallRecord]
  /\ bus \subseteq Event

HasPoint(t, kind) == \E i \in DOMAIN points[t] : points[t][i].kind = kind

\* Rows of u that pay the trip t.
RowsOf(u, t) == { i \in DOMAIN history[u] : history[u][i].ref = t }

\* A trip is paid once, by its passenger to its driver, and nobody is credited
\* more than was collected: whatever completions, cancellations, failures and
\* restarts overlap, the rows of a trip are one debit of its passenger and at
\* most one credit of its driver, of no more than the debit (settleTrip and the
\* unique index on wallet_transactions).
TripIsPaidOnce ==
  \A t \in Trips, u \in Users : \A i \in RowsOf(u, t) :
    /\ RowsOf(u, t) = {i}
    /\ u \in {trip[t].passenger, trip[t].driver}
    /\ u = trip[t].passenger => history[u][i].amount <= 0
    /\ u # trip[t].passenger =>
         /\ history[u][i].amount > 0
         /\ \E j \in RowsOf(trip[t].passenger, t) :
              history[u][i].amount <= - history[trip[t].passenger][j].amount

\* No fake ride: a trip that is completed, or that moved money whatever its
\* status became, lasted the minimum delay, has the point where its driver ended
\* it, and was priced on a route read after that point (ensureMinDuration and
\* the order of finalizeTrip; a cancellation in between does not matter).
CompletionIsBacked ==
  \A t \in Trips :
    trip[t].status = "completed" \/ (\E u \in Users : PaidTo(u, t)) =>
      t \in ripe /\ HasPoint(t, "end") /\ billed[t] # "none"

\* A point never sorts before one that was stored when its recorder counted:
\* only recorders that overlap can leave the order of two points open, whatever
\* handlers die between countTripPoints and recordTripPoint.
PointsKeepTheirOrder ==
  [][ \A c \in Calls : At(c, "count") /\ call'[c].step = "insert" =>
        \A i \in DOMAIN points[call[c].trip] : points[call[c].trip][i].seq < call'[c].count ]_vars

\* wallets and wallet_transactions implement the abstract ledger.
L == INSTANCE Ledger WITH References <- Trips, NoReference <- NoTrip
RefinesLedger == L!Spec

-----------------------------------------------------------------------------
(* What the repository says of its trips and the code does not keep.       *)

\* trips.service.ts:61-64: the scanning passenger isn't already in another
\* active trip, nor currently driving someone else, when his own begins.
PickupIsExclusive ==
  [][ \A t \in Trips : trip[t].status = "none" /\ trip'[t].status = "active" =>
        ActiveTripsOf(trip'[t].passenger) = {} ]_vars

\* trip.entity.ts:77-82: driver_share_xpf is the amount the driver actually
\* receives for this trip.
ShareIsWhatDriverReceived ==
  \A t \in Trips : trip[t].status = "completed" /\ trip[t].share > 0 =>
    \E i \in RowsOf(trip[t].driver, t) : history[trip[t].driver][i].amount = trip[t].share

\* admin-trips.service.ts:164: only active trips can be cancelled.
OnlyActiveTripsAreCancelled ==
  [][ \A t \in Trips : trip'[t].status = "cancelled" =>
        trip[t].status \in {"active", "cancelled"} ]_vars

\* trips.service.ts:162-164: the route used for billing reflects where the
\* passenger asked to step out, not where the driver tapped "confirm".
BilledRouteEndsAtDropoff ==
  [][ \A t \in Trips : billed'[t] # billed[t] /\ HasPoint(t, "dropoff") =>
        billed'[t] = "dropoff" ]_vars
=============================================================================
