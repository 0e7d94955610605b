---------------------------- MODULE Certifications ----------------------------
(***************************************************************************)
(* Driving licences and insurance vignettes: CertificationsService, its    *)
(* nightly job, and the deletion of a vehicle (VehiclesService and         *)
(* AdminVehiclesService), over the tables certifications and vehicles.     *)
(*                                                                         *)
(* Nothing here is a transaction.  A handler in flight is a record         *)
(* call[c]; each of its statements is a step.  A TypeORM save() of a       *)
(* loaded entity is a SELECT of the row, which decides the columns that    *)
(* differ, and an UPDATE of those columns; of a row that is gone it is an  *)
(* INSERT.                                                                 *)
(***************************************************************************)
EXTENDS Integers, FiniteSets

CONSTANTS
  Vehicles, NoVehicle,  \* a licence is a certificate of NoVehicle
  Certs, NoCert,        \* ids of certifications rows
  Subjects,             \* Subjects[k]: what the certificate k may be of
  Calls,                \* slots for the handlers in flight, taken in order
  LastDay,              \* bound: the clock stops there
  Operations            \* which handlers this instance receives

ASSUME CertificationsAssumption ==
  /\ NoVehicle \notin Vehicles /\ NoCert \notin Certs
  /\ Subjects \in [Certs -> SUBSET (Vehicles \cup {NoVehicle})]
  /\ Calls \subseteq Nat /\ LastDay \in Nat

VARIABLES
  vehicle,   \* the vehicles table
  cert,      \* the certifications table
  today,     \* the server's date
  call,      \* the handlers in flight
  sweep,     \* the nightly job
  shaken,    \* history: vehicles whose handlers overlapped, failed or died
  out        \* what the last step wrote to admin_actions and handed to RealtimeBus

vars == <<vehicle, cert, today, call, sweep, shaken, out>>
tables == <<vehicle, cert>>

-----------------------------------------------------------------------------
NoDate == -1
Dates == 0 .. LastDay
MaybeDate == Dates \cup {NoDate}

\* isFutureDate: on or after today.
Future(d) == d # NoDate /\ d >= today
Overdue(d) == d # NoDate /\ d < today

Decisions == {"pending_ocr", "pending_review", "approved", "rejected", "expired"}
CarRow == [ row : {"never", "present", "deleted"}, certified : BOOLEAN, until : MaybeDate ]
CertRow == [ status : Decisions \cup {"never", "deleted"}, expiry : MaybeDate,
             vehicle : Vehicles \cup {NoVehicle} ]

Steps == { "idle", "insert", "ocr", "car_read", "car_write", "cert_read", "cert_write",
           "delete", "audit" }
Paper == [ status : Decisions, expiry : MaybeDate ]
CallRecord ==
  [ step : Steps, op : {"none", "submit", "approve", "reject", "delete", "remove"},
    cert : Certs \cup {NoCert}, vehicle : Vehicles \cup {NoVehicle},
    paper : Paper,         \* the loaded certificate, as the handler changed it
    dirty : SUBSET {"status", "expiry", "certified", "until", "row"} ]

Blank == [ status |-> "pending_ocr", expiry |-> NoDate ]

\* What applyInsuranceApproval or a rejection makes of the loaded vehicle.
CarAfter(paper) ==
  IF paper.status = "approved" THEN [ certified |-> TRUE, until |-> paper.expiry ]
  ELSE [ certified |-> FALSE, until |-> NoDate ]

Handler(step, op, k, v, paper) ==
  [ step |-> step, op |-> op, cert |-> k, vehicle |-> v, paper |-> paper, dirty |-> {} ]
Idle == Handler("idle", "none", NoCert, NoVehicle, Blank)

Asleep == [ step |-> "idle", todo |-> {}, cars |-> {}, cert |-> NoCert, save |-> "none" ]

Present(v) == v \in Vehicles => vehicle[v].row = "present"
Stored(k) == cert[k].status \in Decisions

-----------------------------------------------------------------------------
At(c, step) == call[c].step = step
Finish(c) == call' = [call EXCEPT ![c] = Idle]
\* A handler goes on to its next statement, and forgets what it no longer needs.
Goto(c, step) ==
  IF step = "idle" THEN Finish(c)
  ELSE call' = [call EXCEPT ![c].step = step, ![c].dirty = {},
                            ![c].paper = IF step = "audit" THEN Blank ELSE @]
Silent == out' = {}

\* Vehicles that a handler or the nightly job is working on.
Busy == { call[c].vehicle : c \in Calls } \cup sweep.cars
        \cup { cert[k].vehicle : k \in sweep.todo }

Start(c, rec) ==
  /\ rec.op \in Operations
  /\ call[c] = Idle /\ \A e \in Calls : call[e] = Idle => c <= e
  /\ call' = [call EXCEPT ![c] = rec]
  /\ shaken' = shaken \cup ({rec.vehicle} \cap (Busy \ {NoVehicle}))
  /\ Silent
  /\ UNCHANGED <<tables, today, sweep>>

-----------------------------------------------------------------------------
(* submitLicense and submitInsurance                                       *)
Submit(c, k, v) ==
  /\ Present(v)
  /\ cert[k].status = "never" /\ \A e \in Calls : call[e].cert # k
  /\ Start(c, Handler("insert", "submit", k, v, Blank))

\* The file is stored; the row refers to the vehicle or is refused.
InsertCert(c) ==
  LET k == call[c].cert
      v == call[c].vehicle
  IN /\ At(c, "insert")
     /\ IF Present(v)
          THEN /\ cert' = [cert EXCEPT ![k] =
                              [ status |-> "pending_ocr", expiry |-> NoDate, vehicle |-> v ]]
               /\ Goto(c, "ocr")
          ELSE Finish(c) /\ UNCHANGED cert
     /\ Silent
     /\ UNCHANGED <<vehicle, today, sweep, shaken>>

\* What the OCR makes of a document: whether the name or the plate is the one
\* expected, whether it is confident, and a date or none.
Readings == [ same : BOOLEAN, sure : BOOLEAN, date : MaybeDate ]
\* The stub provider, and an OCR that throws.
Unread == [ same |-> FALSE, sure |-> FALSE, date |-> NoDate ]

\* A name or a plate that matches, with confidence and a date to come.
Accepted(r) == r.same /\ r.sure /\ Future(r.date)

\* An accepted document is approved at once; an insurance certifies the vehicle
\* first.
OcrAnswers(c) ==
  /\ At(c, "ocr")
  /\ \E r \in Readings \cup {Unread} :
       call' = [call EXCEPT
         ![c].step = IF Accepted(r) /\ call[c].vehicle # NoVehicle THEN "car_read" ELSE "cert_read",
         ![c].paper = [ status |-> IF Accepted(r) THEN "approved" ELSE "pending_review",
                        expiry |-> r.date ]]
  /\ Silent
  /\ UNCHANGED <<tables, today, sweep, shaken>>

-----------------------------------------------------------------------------
(* adminApprove and adminReject                                            *)
AdminApprove(c, k, d) ==
  LET until == IF d # NoDate THEN d ELSE cert[k].expiry IN
    /\ Stored(k) /\ cert[k].status # "approved"
    /\ Future(until)
    /\ Start(c, Handler("cert_read", "approve", k, cert[k].vehicle,
                        [ status |-> "approved", expiry |-> until ]))

AdminReject(c, k) ==
  /\ Stored(k)
  /\ Start(c, Handler("cert_read", "reject", k, cert[k].vehicle,
                      [ status |-> "rejected", expiry |-> cert[k].expiry ]))

-----------------------------------------------------------------------------
(* repository.save of the certificate, then of its vehicle; submitInsurance *)
(* saves them the other way round.                                         *)
CertRead(c) ==
  LET k == call[c].cert IN
    /\ At(c, "cert_read")
    /\ call' = [call EXCEPT
         ![c].step = "cert_write",
         ![c].dirty = IF Stored(k)
                        THEN { f \in {"status", "expiry"} : cert[k][f] # call[c].paper[f] }
                        ELSE {"row"}]
    /\ Silent
    /\ UNCHANGED <<tables, today, sweep, shaken>>

AfterCert(c) ==
  IF call[c].op = "submit" THEN "idle"
  ELSE IF call[c].vehicle # NoVehicle THEN "car_read" ELSE "audit"

\* An INSERT of a certificate whose vehicle is gone violates its foreign key.
CertWrite(c) ==
  LET k == call[c].cert
      paper == call[c].paper
      dirty == call[c].dirty
      inserted == "row" \in dirty
  IN /\ At(c, "cert_write")
     /\ IF inserted /\ ~ Present(call[c].vehicle)
          THEN Finish(c) /\ UNCHANGED cert
          ELSE /\ cert' = IF ~ inserted /\ ~ Stored(k) THEN cert
                          ELSE [cert EXCEPT
                            ![k].status = IF inserted \/ "status" \in dirty THEN paper.status ELSE @,
                            ![k].expiry = IF inserted \/ "expiry" \in dirty THEN paper.expiry ELSE @]
               /\ Goto(c, AfterCert(c))
     /\ Silent
     /\ UNCHANGED <<vehicle, today, sweep, shaken>>

CarRead(c) ==
  LET v == call[c].vehicle IN
    /\ At(c, "car_read")
    /\ call' = [call EXCEPT
         ![c].step = "car_write",
         ![c].dirty = IF Present(v)
                        THEN { f \in {"certified", "until"} : vehicle[v][f] # CarAfter(call[c].paper)[f] }
                        ELSE {"row"}]
    /\ Silent
    /\ UNCHANGED <<tables, today, sweep, shaken>>

\* Mistake: rejecting leaves the vehicle as it is.
RejectForgetsCar(c) ==
  /\ At(c, "car_write")
  /\ vehicle' = IF call[c].op = "reject" THEN vehicle
                ELSE [vehicle EXCEPT ![call[c].vehicle].certified = CarAfter(call[c].paper).certified,
                                     ![call[c].vehicle].until = CarAfter(call[c].paper).until]
  /\ Goto(c, IF call[c].op = "submit" THEN "cert_read" ELSE "audit")
  /\ Silent
  /\ UNCHANGED <<cert, today, sweep, shaken>>

CarWrite(c) ==
  LET v == call[c].vehicle
      car == CarAfter(call[c].paper)
      dirty == call[c].dirty
      inserted == "row" \in dirty
  IN /\ At(c, "car_write")
     /\ vehicle' = IF ~ inserted /\ ~ Present(v) THEN vehicle
                   ELSE [vehicle EXCEPT
                     ![v].row = "present",
                     ![v].certified = IF inserted \/ "certified" \in dirty THEN car.certified ELSE @,
                     ![v].until = IF inserted \/ "until" \in dirty THEN car.until ELSE @]
     /\ Goto(c, IF call[c].op = "submit" THEN "cert_read" ELSE "audit")
     /\ Silent
     /\ UNCHANGED <<cert, today, sweep, shaken>>

\* The audit row, then the event to the driver (a deletion tells nobody).
RecordAudit(c) ==
  /\ At(c, "audit")
  /\ out' = IF call[c].op = "remove"
              THEN {[ kind |-> "audit", about |-> call[c].vehicle ]}
              ELSE { [ kind |-> kind, about |-> call[c].cert ] :
                        kind \in {"audit", "certification:updated"} }
  /\ Finish(c)
  /\ UNCHANGED <<tables, today, sweep, shaken>>

-----------------------------------------------------------------------------
(* VehiclesService: createMine is one transaction; deleteMine and the      *)
(* admin's remove find the vehicle, then delete it with its certificates.  *)
\* Mistake: a vehicle added again takes the row of the one deleted.
CreateAgain(v) ==
  /\ vehicle[v].row # "present"
  /\ vehicle' = [vehicle EXCEPT ![v].row = "present"]
  /\ Silent
  /\ UNCHANGED <<cert, today, call, sweep, shaken>>

CreateVehicle(v) ==
  /\ vehicle[v].row = "never"
  /\ vehicle' = [vehicle EXCEPT ![v].row = "present"]
  /\ Silent
  /\ UNCHANGED <<cert, today, call, sweep, shaken>>

FindToDelete(c, v, op) ==
  /\ vehicle[v].row = "present"
  /\ Start(c, Handler("delete", op, NoCert, v, Blank))

DeleteVehicle(c) ==
  LET v == call[c].vehicle IN
    /\ At(c, "delete")
    /\ vehicle' = [vehicle EXCEPT ![v] = [ row |-> "deleted", certified |-> FALSE, until |-> NoDate ]]
    /\ cert' = [k \in Certs |-> IF cert[k].vehicle = v /\ Stored(k)
                                THEN [cert[k] EXCEPT !.status = "deleted"] ELSE cert[k]]
    /\ Goto(c, IF call[c].op = "remove" THEN "audit" ELSE "idle")
    /\ Silent
    /\ UNCHANGED <<today, sweep, shaken>>

-----------------------------------------------------------------------------
(* The nightly job: expireOverdue statement by statement, then             *)
(* pushExpiringReminders.                                                  *)
SweepFinds(found) ==
  /\ sweep = Asleep
  /\ sweep' = [Asleep EXCEPT !.step = "next", !.todo = found]
  /\ shaken' = shaken \cup ({ cert[k].vehicle : k \in found } \cap (Busy \ {NoVehicle}))
  /\ Silent
  /\ UNCHANGED <<tables, today, call>>

Approved == { k \in Certs : cert[k].status = "approved" }

\* Mistake: the job looks at vehicles' documents only.
SweepVignettes ==
  SweepFinds({ k \in Approved : Overdue(cert[k].expiry) /\ cert[k].vehicle # NoVehicle })

SweepStart == SweepFinds({ k \in Approved : Overdue(cert[k].expiry) })

SweepRead(k) ==
  /\ sweep.step = "next" /\ k \in sweep.todo
  /\ sweep' = [sweep EXCEPT !.step = "write", !.cert = k,
                 !.save = IF ~ Stored(k) THEN "insert"
                          ELSE IF cert[k].status # "expired" THEN "update" ELSE "none"]
  /\ Silent
  /\ UNCHANGED <<tables, today, call, shaken>>

\* The scheduler logs an expiry that failed, and sends the reminders all the same.
GiveUp == sweep' = [Asleep EXCEPT !.step = IF sweep.step = "remind" THEN "idle" ELSE "remind"]

\* A certificate deleted meanwhile would be inserted again without its vehicle:
\* the expiry fails.
SweepWrite ==
  LET k == sweep.cert IN
    /\ sweep.step = "write"
    /\ IF sweep.save = "insert" => Present(cert[k].vehicle)
         THEN /\ cert' = IF sweep.save = "insert" \/ (sweep.save = "update" /\ Stored(k))
                         THEN [cert EXCEPT ![k].status = "expired"] ELSE cert
              /\ sweep' = [sweep EXCEPT !.step = "next", !.cert = NoCert, !.save = "none",
                             !.todo = @ \ {k},
                             !.cars = @ \cup ({cert[k].vehicle} \ {NoVehicle})]
              /\ UNCHANGED shaken
         ELSE /\ GiveUp
              /\ shaken' = shaken \cup (Busy \ {NoVehicle})
              /\ UNCHANGED cert
    /\ Silent
    /\ UNCHANGED <<vehicle, today, call>>

\* Mistake: the vehicles of the expired certificates stay certified.
SweepCertsOnly ==
  /\ sweep.step = "next" /\ sweep.todo = {}
  /\ sweep' = [Asleep EXCEPT !.step = "remind"]
  /\ Silent
  /\ UNCHANGED <<tables, today, call, shaken>>

SweepVehicles ==
  /\ sweep.step = "next" /\ sweep.todo = {}
  /\ vehicle' = [v \in Vehicles |-> IF v \in sweep.cars /\ Present(v)
                                    THEN [vehicle[v] EXCEPT !.certified = FALSE, !.until = NoDate]
                                    ELSE vehicle[v]]
  /\ sweep' = [Asleep EXCEPT !.step = "remind"]
  /\ Silent
  /\ UNCHANGED <<cert, today, call, shaken>>

\* REMINDER_WINDOW_DAYS is longer than any date is away: every live vignette.
Remind ==
  /\ sweep.step = "remind"
  /\ out' = { [ kind |-> "certification:expiring", about |-> v ] :
                v \in { w \in Vehicles :
                            Present(w) /\ vehicle[w].certified /\ Future(vehicle[w].until) } }
  /\ sweep' = Asleep
  /\ UNCHANGED <<tables, today, call, shaken>>

-----------------------------------------------------------------------------
DayPasses ==
  /\ today < LastDay
  /\ today' = today + 1
  /\ Silent
  /\ UNCHANGED <<tables, call, sweep, shaken>>

\* A statement fails and the handler throws; nothing it did is undone.
Fail(c) ==
  /\ ~ At(c, "idle") /\ ~ At(c, "ocr")
  /\ Finish(c)
  /\ shaken' = shaken \cup ({call[c].vehicle} \ {NoVehicle})
  /\ Silent
  /\ UNCHANGED <<tables, today, sweep>>

SweepFails ==
  /\ sweep # Asleep
  /\ GiveUp
  /\ shaken' = shaken \cup (Busy \ {NoVehicle})
  /\ Silent
  /\ UNCHANGED <<tables, today, call>>

\* The server process dies with every handler in flight.
Restart ==
  /\ sweep # Asleep \/ \E c \in Calls : ~ At(c, "idle")
  /\ call' = [c \in Calls |-> Idle]
  /\ sweep' = Asleep
  /\ shaken' = shaken \cup (Busy \ {NoVehicle})
  /\ Silent
  /\ UNCHANGED <<tables, today>>

-----------------------------------------------------------------------------
Init ==
  /\ vehicle = [v \in Vehicles |-> [ row |-> "never", certified |-> FALSE, until |-> NoDate ]]
  /\ cert = [k \in Certs |-> [ status |-> "never", expiry |-> NoDate, vehicle |-> NoVehicle ]]
  /\ today = 0
  /\ call = [c \in Calls |-> Idle]
  /\ sweep = Asleep
  /\ shaken = {}
  /\ out = {}

Arrive(c) ==
  \/ \E k \in Certs :
       \/ \E v \in Subjects[k] : Submit(c, k, v)
       \/ \E d \in MaybeDate : AdminApprove(c, k, d)
       \/ AdminReject(c, k)
  \/ \E v \in Vehicles, op \in {"delete", "remove"} : FindToDelete(c, v, op)

Continue(c) ==
  \/ InsertCert(c) \/ OcrAnswers(c)
  \/ CertRead(c) \/ CertWrite(c) \/ CarRead(c) \/ CarWrite(c)
  \/ DeleteVehicle(c) \/ RecordAudit(c)

Sweep ==
  \/ SweepStart
  \/ \E k \in Certs : SweepRead(k)
  \/ SweepWrite \/ SweepVehicles \/ Remind

Next ==
  \/ \E c \in Calls : Arrive(c) \/ Continue(c) \/ Fail(c)
  \/ \E v \in Vehicles : CreateVehicle(v)
  \/ Sweep
  \/ DayPasses
  \/ SweepFails
  \/ Restart

Spec == Init /\ [][Next]_vars

\* The job is started every night and Postgres answers it; only so many
\* of its runs fail.
FairSpec ==
  /\ Spec
  /\ WF_vars(Sweep)
  /\ <>[][~ (SweepFails \/ Restart)]_vars

-----------------------------------------------------------------------------
TypeOK ==
  /\ vehicle \in [Vehicles -> CarRow]
  /\ cert \in [Certs -> CertRow]
  /\ today \in Dates
  /\ call \in [Calls -> CallRecord]
  /\ sweep \in [ step : {"idle", "next", "write", "remind"}, todo : SUBSET Certs,
                 cars : SUBSET Vehicles, cert : Certs \cup {NoCert},
                 save : {"none", "update", "insert"} ]
  /\ shaken \subseteq Vehicles
  /\ out \subseteq [ kind : {"audit", "certification:updated", "certification:expiring"},
                     about : Certs \cup Vehicles ]

\* The vehicle is certified by the certificate k.
Backs(k, v) ==
  /\ cert[k].vehicle = v
  /\ cert[k].status = "approved"
  /\ cert[k].expiry = vehicle[v].until

\* A certified vehicle has the approved certificate whose date it shows, unless
\* handlers of it overlapped, failed half way or died: is_certified is a copy
\* written in a statement of its own, by submissions, by both decisions of an
\* admin and by the nightly job.
CertifiedHasCertificate ==
  \A v \in Vehicles \ (shaken \cup Busy) :
    vehicle[v].certified => \E k \in Certs : Backs(k, v)

\* A deleted vehicle, which save() of an entity loaded before would insert
\* again, comes back only from a handler that ran while it was deleted.
DeletedStaysDeleted ==
  [][ \A v \in Vehicles :
        vehicle[v].row = "deleted" /\ vehicle'[v].row = "present" => v \in shaken ]_vars

\* A certificate past its date does not stay approved: the nightly job reaches
\* it whatever overlaps it, once runs of the job stop failing.
Lapsed(k) == cert[k].status = "approved" /\ Overdue(cert[k].expiry)
OverdueIsSwept == \A k \in Certs : Lapsed(k) ~> ~ Lapsed(k)

-----------------------------------------------------------------------------
(* What the repository says of its certificates and the code does not keep. *)

\* certifications.service.ts:522-523: it is when a previously approved row gets
\* rejected that the vehicle loses its certification.
OnlyApprovedRejectionsDecertify ==
  [][ \A c \in Calls, v \in Vehicles :
        /\ At(c, "car_write") /\ call[c].op = "reject" /\ call[c].vehicle = v
        /\ vehicle[v].certified /\ ~ vehicle'[v].certified
        => ~ \E k \in Certs \ {call[c].cert} : Backs(k, v) ]_vars
=============================================================================
