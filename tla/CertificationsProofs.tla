------------------------ MODULE CertificationsProofs ------------------------
(***************************************************************************)
(* Proofs about Certifications, for any vehicles, certificates, handlers   *)
(* in flight and days.                                                     *)
(***************************************************************************)
EXTENDS Certifications, TLAPS

Saving == {"submit", "approve", "reject"}
AtCert == {"cert_read", "cert_write"}
AtCar == {"car_read", "car_write"}

\* A stored certificate is of a vehicle that exists, or a licence; only a
\* vehicle that exists is certified.
RowsOK ==
  /\ \A k \in Certs : /\ Stored(k) => Present(cert[k].vehicle)
                      /\ cert[k].status = "never" => cert[k].vehicle = NoVehicle
  /\ \A v \in Vehicles : vehicle[v].row # "present" => ~ vehicle[v].certified

\* What a handler h knows of the certificates between two statements.
Knows(h, certs) ==
  /\ h.step = "idle" => h = Idle
  /\ h.step = "insert" =>
       h.op = "submit" /\ h.cert \in Certs /\ certs[h.cert].status = "never"
  /\ h.step = "ocr" => h.op = "submit"
  /\ h.step \in AtCert \cup AtCar => h.op \in Saving
  /\ h.step \in AtCar \cup {"delete"} => h.vehicle \in Vehicles
  /\ h.step = "delete" => h.op \in {"delete", "remove"}
  /\ h.step = "audit" => \/ h.op \in {"approve", "reject"}
                         \/ h.op = "remove" /\ h.vehicle \in Vehicles
  /\ h.op \in Saving /\ h.step # "insert" =>
       /\ h.cert \in Certs
       /\ certs[h.cert].status # "never"
       /\ certs[h.cert].vehicle = h.vehicle

CallsOK ==
  \A c \in Calls :
    /\ Knows(call[c], cert)
    /\ At(c, "insert") => \A e \in Calls \ {c} : call[e].cert # call[c].cert

SweepOK ==
  /\ \A k \in sweep.todo : cert[k].status # "never"
  /\ sweep.step = "write" => sweep.cert \in sweep.todo
  /\ sweep.step = "remind" => sweep.cars = {}

Works(c, v) == call[c].vehicle = v
Swept(v) == v \in sweep.cars \/ \E k \in sweep.todo : cert[k].vehicle = v

\* An unshaken vehicle has one handler at most, is not the nightly job's then,
\* and exists until that handler has deleted it.
OverlapsAreShaken ==
  \A v \in Vehicles \ shaken :
    /\ \A c, e \in Calls : Works(c, v) /\ Works(e, v) => c = e
    /\ \A c \in Calls : Works(c, v) =>
         /\ ~ Swept(v)
         /\ vehicle[v].row = "present" \/ At(c, "audit")

Inv == TypeOK /\ RowsOK /\ CallsOK /\ SweepOK /\ OverlapsAreShaken

-----------------------------------------------------------------------------
LEMMA IdleIsARecord == Idle \in CallRecord /\ Blank \in Paper /\ Idle.vehicle = NoVehicle
  BY CertificationsAssumption
     DEF Idle, Handler, Blank, CallRecord, Paper, Steps, Decisions, MaybeDate, NoDate

LEMMA InitInv == Init => Inv
  <1> SUFFICES ASSUME Init PROVE Inv
    OBVIOUS
  <1> USE CertificationsAssumption, IdleIsARecord
  <1>1. TypeOK
    <2>1. call \in [Calls -> CallRecord]
      BY DEF Init
    <2>2. vehicle \in [Vehicles -> CarRow]
      BY DEF Init, CarRow, MaybeDate, NoDate
    <2>3. cert \in [Certs -> CertRow]
      BY DEF Init, CertRow, MaybeDate, NoDate
    <2>4. sweep \in [ step : {"idle", "next", "write", "remind"}, todo : SUBSET Certs,
                     cars : SUBSET Vehicles, cert : Certs \cup {NoCert},
                     save : {"none", "update", "insert"} ]
      BY DEF Init, Asleep
    <2>5. today \in Dates /\ shaken \subseteq Vehicles /\ out = {}
      BY DEF Init, Dates
    <2> QED
      BY <2>1, <2>2, <2>3, <2>4, <2>5 DEF TypeOK
  <1>2. RowsOK
    BY DEF Init, RowsOK, Stored, Decisions
  <1>3. CallsOK
    BY DEF Init, CallsOK, Knows, At, Idle, Handler, AtCert, AtCar, Saving
  <1>4. SweepOK /\ OverlapsAreShaken
    BY DEF Init, SweepOK, Asleep, OverlapsAreShaken, Works, Idle, Handler
  <1> QED
    BY <1>1, <1>2, <1>3, <1>4 DEF Inv

-----------------------------------------------------------------------------
\* What a handler does next, as one record.
Becomes(c, h) == h \in CallRecord /\ call' = [call EXCEPT ![c] = h]

LEMMA FinishEffect ==
  ASSUME NEW c \in Calls, Finish(c)
  PROVE  Becomes(c, Idle)
  BY IdleIsARecord DEF Finish, Becomes

LEMMA GotoEffect ==
  ASSUME TypeOK, NEW c \in Calls, NEW step \in Steps, Goto(c, step)
  PROVE  \E h : /\ Becomes(c, h)
                /\ h.step = step
                /\ step = "idle" => h = Idle
                /\ step # "idle" =>
                     /\ h.dirty = {}
                     /\ h.op = call[c].op /\ h.cert = call[c].cert /\ h.vehicle = call[c].vehicle
                     /\ step # "audit" => h.paper = call[c].paper
  <1> DEFINE paper == IF step = "audit" THEN Blank ELSE call[c].paper
             h == [call[c] EXCEPT !.step = step, !.dirty = {}, !.paper = paper]
  <1>1. call[c] \in CallRecord
    BY DEF TypeOK
  <1>2. CASE step = "idle"
    BY <1>2, FinishEffect DEF Goto, Idle, Handler
  <1>3. CASE step # "idle"
    <2>1. h \in CallRecord
      BY <1>1, IdleIsARecord DEF CallRecord
    <2>2. call' = [call EXCEPT ![c] = h]
      BY <1>3 DEF Goto
    <2>3. /\ h.step = step /\ h.dirty = {} /\ h.paper = paper
          /\ h.op = call[c].op /\ h.cert = call[c].cert /\ h.vehicle = call[c].vehicle
      BY <1>1 DEF CallRecord
    <2> QED
      BY <1>3, <2>1, <2>2, <2>3 DEF Becomes
  <1> QED
    BY <1>2, <1>3

\* Certificates are never taken back nor given to another vehicle.
CertsStay ==
  \A k \in Certs : cert[k].status # "never" =>
    cert'[k].status # "never" /\ cert'[k].vehicle = cert[k].vehicle

\* A step of c leaves what the handlers know true if it leaves the certificates
\* they are about to insert.
LEMMA CallsKept ==
  ASSUME TypeOK, CallsOK, NEW c \in Calls, NEW h, Becomes(c, h), CertsStay,
         Knows(h, cert'),
         \A e \in Calls \ {c} : At(e, "insert") =>
           cert'[call[e].cert].status = "never" /\ h.cert # call[e].cert,
         h.step = "insert" => \A e \in Calls \ {c} : call[e].cert # h.cert
  PROVE  CallsOK' /\ call' \in [Calls -> CallRecord]
  <1>1. /\ call' \in [Calls -> CallRecord]
        /\ call'[c] = h
        /\ \A e \in Calls \ {c} : call'[e] = call[e]
    BY DEF TypeOK, Becomes
  <1>2. ASSUME NEW e \in Calls \ {c}
        PROVE  Knows(call[e], cert')
    BY DEF CallsOK, Knows, CertsStay, At
  <1>3. \A e \in Calls : Knows(call'[e], cert')
    BY <1>1, <1>2
  <1>4. ASSUME NEW e \in Calls, call'[e].step = "insert", NEW f \in Calls \ {e}
        PROVE  call'[f].cert # call'[e].cert
    BY <1>1, <1>4 DEF CallsOK, At
  <1> QED
    BY <1>1, <1>3, <1>4 DEF CallsOK, At

-----------------------------------------------------------------------------
\* A step of a handler that has begun.
OutOK ==
  out \subseteq [ kind : {"audit", "certification:updated", "certification:expiring"},
                  about : Certs \cup Vehicles ]

LEMMA HandlerKeepsInv ==
  ASSUME Inv, NEW c \in Calls, NEW h, Becomes(c, h),
         h.cert \in {call[c].cert, NoCert}, h.vehicle \in {call[c].vehicle, NoVehicle},
         h.step # "insert", Knows(h, cert'),
         At(c, "audit") => h = Idle,
         vehicle' \in [Vehicles -> CarRow], cert' \in [Certs -> CertRow], OutOK',
         UNCHANGED <<today, sweep>>,
         shaken' \subseteq Vehicles, shaken \subseteq shaken',
         CertsStay, RowsOK',
         \A k \in Certs \ {call[c].cert} : cert[k].status = "never" => cert'[k].status = "never",
         \A v \in Vehicles : vehicle[v].row = "present" =>
           \/ vehicle'[v].row = "present"
           \/ v = call[c].vehicle /\ h.step \in {"idle", "audit"}
  PROVE  Inv'
  <1> USE CertificationsAssumption
  <1>1. TypeOK /\ CallsOK /\ SweepOK /\ OverlapsAreShaken
    BY DEF Inv
  <1>2. ASSUME NEW e \in Calls \ {c}, At(e, "insert")
        PROVE  cert'[call[e].cert].status = "never" /\ h.cert # call[e].cert
    BY <1>1, <1>2 DEF CallsOK, Knows, At
  <1>3. CallsOK' /\ call' \in [Calls -> CallRecord]
    BY <1>1, <1>2, CallsKept
  <1>4. /\ call'[c] = h
        /\ \A e \in Calls \ {c} : call'[e] = call[e]
    BY <1>1 DEF TypeOK, Becomes
  <1>5. TypeOK'
    BY <1>1, <1>3 DEF TypeOK, OutOK
  <1>6. SweepOK'
    BY <1>1 DEF SweepOK, CertsStay, TypeOK
  <1>7. ASSUME NEW v \in Vehicles \ shaken'
        PROVE  /\ Swept(v)' => Swept(v)
               /\ \A e \in Calls : Works(e, v)' => Works(e, v)
    <2>1. Swept(v)' => Swept(v)
      BY <1>1 DEF Swept, SweepOK, CertsStay, TypeOK
    <2>2. \A e \in Calls : Works(e, v)' => Works(e, v)
      BY <1>4 DEF Works
    <2> QED
      BY <2>1, <2>2
  <1>8. ASSUME NEW v \in Vehicles \ shaken', NEW e \in Calls, Works(e, v)'
        PROVE  vehicle'[v].row = "present" \/ At(e, "audit")'
    <2>1. Works(e, v) /\ (vehicle[v].row = "present" \/ At(e, "audit"))
      BY <1>1, <1>7, <1>8 DEF OverlapsAreShaken
    <2>2. CASE e = c
      <3>1. h # Idle
        BY <1>4, <1>8, <2>2, IdleIsARecord DEF Works
      <3>2. ~ At(c, "audit") /\ h.step # "idle"
        BY <3>1 DEF Knows
      <3> QED
        BY <1>4, <2>1, <2>2, <3>2 DEF At
    <2>3. CASE e # c
      <3>1. ~ Works(c, v)
        BY <1>1, <2>1, <2>3 DEF OverlapsAreShaken
      <3> QED
        BY <1>4, <2>1, <2>3, <3>1 DEF At, Works
    <2> QED
      BY <2>2, <2>3
  <1>9. OverlapsAreShaken'
    BY <1>1, <1>7, <1>8 DEF OverlapsAreShaken
  <1> QED
    BY <1>3, <1>5, <1>6, <1>9 DEF Inv

\* The same of a step that writes neither table.
LEMMA ReaderKeepsInv ==
  ASSUME Inv, NEW c \in Calls, NEW h, Becomes(c, h),
         h.cert \in {call[c].cert, NoCert}, h.vehicle \in {call[c].vehicle, NoVehicle},
         h.step # "insert", Knows(h, cert),
         At(c, "audit") => h = Idle,
         UNCHANGED <<tables, today, sweep>>, OutOK',
         shaken' \subseteq Vehicles, shaken \subseteq shaken'
  PROVE  Inv'
  <1>1. CertsStay /\ RowsOK' /\ vehicle' \in [Vehicles -> CarRow] /\ cert' \in [Certs -> CertRow]
    BY DEF Inv, CertsStay, RowsOK, Stored, Present, tables, TypeOK
  <1>2. Knows(h, cert') /\ cert' = cert /\ vehicle' = vehicle
    BY DEF tables
  <1> QED
    BY <1>1, <1>2, HandlerKeepsInv

LEMMA SilentIsOK == Silent => OutOK'
  BY DEF Silent, OutOK

\* A handler that starts.
LEMMA StartKeepsInv ==
  ASSUME Inv, NEW c \in Calls, NEW h \in CallRecord, Start(c, h), Knows(h, cert),
         \A e \in Calls : At(e, "insert") \/ h.step = "insert" => h.cert # call[e].cert,
         Present(h.vehicle)
  PROVE  Inv'
  <1> USE CertificationsAssumption
  <1>1. TypeOK /\ CallsOK /\ SweepOK /\ RowsOK /\ OverlapsAreShaken
    BY DEF Inv
  <1>2. /\ UNCHANGED <<vehicle, cert, today, sweep>>
        /\ Becomes(c, h) /\ Silent
        /\ shaken' = shaken \cup ({h.vehicle} \cap (Busy \ {NoVehicle}))
        /\ h.vehicle \in Vehicles \cup {NoVehicle}
    BY DEF Start, tables, Becomes, CallRecord
  <1>3. CertsStay /\ Knows(h, cert') /\ RowsOK' /\ SweepOK'
    BY <1>1, <1>2 DEF CertsStay, RowsOK, Stored, Present, SweepOK
  <1>4. \A e \in Calls : At(e, "insert") => cert'[call[e].cert].status = "never"
    BY <1>1, <1>2 DEF CallsOK, Knows, At
  <1>5. CallsOK' /\ call' \in [Calls -> CallRecord]
    BY <1>1, <1>2, <1>3, <1>4, CallsKept
  <1>6. /\ call'[c] = h
        /\ \A e \in Calls \ {c} : call'[e] = call[e]
    BY <1>1, <1>2 DEF TypeOK, Becomes
  <1>7. TypeOK'
    BY <1>1, <1>2, <1>5, SilentIsOK DEF TypeOK, OutOK
  <1>8. ASSUME NEW v \in Vehicles \ shaken'
        PROVE  /\ v \notin shaken
               /\ Swept(v)' = Swept(v)
               /\ v = h.vehicle => ~ Swept(v) /\ \A e \in Calls : ~ Works(e, v)
    <2>1. v \notin shaken /\ (v = h.vehicle => v \notin Busy)
      BY <1>2, <1>8
    <2>2. v \notin Busy => ~ Swept(v) /\ \A e \in Calls : ~ Works(e, v)
      BY DEF Busy, Swept, Works
    <2>3. Swept(v)' = Swept(v)
      BY <1>2 DEF Swept
    <2> QED
      BY <2>1, <2>2, <2>3
  <1>9. OverlapsAreShaken'
    <2> SUFFICES ASSUME NEW v \in (Vehicles \ shaken)'
                 PROVE  /\ \A d, e \in Calls : Works(d, v)' /\ Works(e, v)' => d = e
                        /\ \A d \in Calls : Works(d, v)' =>
                             /\ ~ Swept(v)'
                             /\ vehicle'[v].row = "present" \/ At(d, "audit")'
      BY DEF OverlapsAreShaken
    <2>1. v \in Vehicles \ shaken'
      OBVIOUS
    <2>2. CASE v = h.vehicle
      <3>1. vehicle[v].row = "present"
        BY <2>1, <2>2 DEF Present
      <3>2. \A e \in Calls \ {c} : ~ Works(e, v)'
        BY <1>6, <1>8, <2>1, <2>2 DEF Works
      <3> QED
        BY <1>2, <1>8, <2>1, <2>2, <3>1, <3>2
    <2>3. CASE v # h.vehicle
      <3>1. \A e \in Calls : Works(e, v)' => e # c /\ Works(e, v) /\ At(e, "audit")' = At(e, "audit")
        BY <1>6, <2>3 DEF Works, At
      <3> QED
        BY <1>1, <1>2, <1>8, <2>1, <3>1 DEF OverlapsAreShaken
    <2> QED
      BY <2>2, <2>3
  <1> QED
    BY <1>3, <1>5, <1>7, <1>9 DEF Inv

LEMMA HandlerFields ==
  ASSUME NEW step \in Steps, NEW op \in {"submit", "approve", "reject", "delete", "remove"},
         NEW k \in Certs \cup {NoCert}, NEW v \in Vehicles \cup {NoVehicle}, NEW paper \in Paper
  PROVE  LET h == Handler(step, op, k, v, paper)
         IN  /\ h \in CallRecord
             /\ h.step = step /\ h.op = op /\ h.cert = k /\ h.vehicle = v
             /\ h.paper = paper /\ h.dirty = {}
  BY DEF Handler, CallRecord

LEMMA ArrivalKeepsInv ==
  ASSUME Inv, NEW c \in Calls, Arrive(c)
  PROVE  Inv'
  <1> USE CertificationsAssumption, IdleIsARecord
  <1>1. TypeOK /\ CallsOK /\ RowsOK
    BY DEF Inv
  <1>2. ASSUME NEW k \in Certs, Stored(k)
        PROVE  /\ Present(cert[k].vehicle) /\ cert[k].vehicle \in Vehicles \cup {NoVehicle}
               /\ cert[k].status # "never" /\ cert[k].expiry \in MaybeDate
               /\ \A e \in Calls : At(e, "insert") => k # call[e].cert
    BY <1>1, <1>2 DEF RowsOK, TypeOK, CertRow, Stored, Decisions, CallsOK, Knows, At
  <1>3. ASSUME NEW k \in Certs, NEW v \in Subjects[k], Submit(c, k, v)
        PROVE  Inv'
    <2> DEFINE h == Handler("insert", "submit", k, v, Blank)
    <2>1. v \in Vehicles \cup {NoVehicle}
      OBVIOUS
    <2>2. /\ h \in CallRecord /\ h.step = "insert" /\ h.op = "submit" /\ h.cert = k /\ h.vehicle = v
      BY <2>1, HandlerFields DEF Steps
    <2>3. Knows(h, cert)
      BY <1>3, <2>2 DEF Knows, Submit, AtCert, AtCar
    <2>4. Start(c, h) /\ Present(h.vehicle) /\ \A e \in Calls : h.cert # call[e].cert
      BY <1>3, <2>2 DEF Submit
    <2> HIDE DEF h
    <2> QED
      BY <2>2, <2>3, <2>4, StartKeepsInv
  <1>4. ASSUME NEW k \in Certs, NEW op \in {"approve", "reject"}, NEW paper \in Paper, Stored(k),
               Start(c, Handler("cert_read", op, k, cert[k].vehicle, paper))
        PROVE  Inv'
    <2> DEFINE h == Handler("cert_read", op, k, cert[k].vehicle, paper)
    <2>1. /\ h \in CallRecord /\ h.step = "cert_read" /\ h.op = op /\ h.cert = k
          /\ h.vehicle = cert[k].vehicle
      <3>1. /\ "cert_read" \in Steps /\ k \in Certs \cup {NoCert}
            /\ op \in {"submit", "approve", "reject", "delete", "remove"}
            /\ cert[k].vehicle \in Vehicles \cup {NoVehicle}
        BY <1>2, <1>4 DEF Steps
      <3> QED
        BY ONLY <3>1, paper \in Paper, HandlerFields
    <2>2. Knows(h, cert)
      BY <1>2, <1>4, <2>1 DEF Knows, AtCert, AtCar, Saving
    <2>3. Start(c, h) /\ Present(h.vehicle) /\ \A e \in Calls : At(e, "insert") => h.cert # call[e].cert
      BY <1>2, <1>4, <2>1
    <2> HIDE DEF h
    <2> QED
      BY <2>1, <2>2, <2>3, StartKeepsInv
  <1>5. ASSUME NEW k \in Certs, NEW d \in MaybeDate, AdminApprove(c, k, d)
        PROVE  Inv'
    <2> DEFINE paper == [ status |-> "approved", expiry |-> IF d # NoDate THEN d ELSE cert[k].expiry ]
    <2>1. Stored(k) /\ Start(c, Handler("cert_read", "approve", k, cert[k].vehicle, paper))
      BY <1>5 DEF AdminApprove
    <2>2. paper \in Paper
      BY <1>2, <2>1 DEF Paper, Decisions
    <2> QED
      BY <1>4, <2>1, <2>2
  <1>6. ASSUME NEW k \in Certs, AdminReject(c, k)
        PROVE  Inv'
    <2> DEFINE paper == [ status |-> "rejected", expiry |-> cert[k].expiry ]
    <2>1. Stored(k) /\ Start(c, Handler("cert_read", "reject", k, cert[k].vehicle, paper))
      BY <1>6 DEF AdminReject
    <2>2. paper \in Paper
      BY <1>2, <2>1 DEF Paper, Decisions
    <2> QED
      BY <1>4, <2>1, <2>2
  <1>7. ASSUME NEW v \in Vehicles, NEW op \in {"delete", "remove"}, FindToDelete(c, v, op)
        PROVE  Inv'
    <2> DEFINE h == Handler("delete", op, NoCert, v, Blank)
    <2>1. /\ h \in CallRecord /\ h.step = "delete" /\ h.op = op /\ h.cert = NoCert /\ h.vehicle = v
      BY HandlerFields DEF Steps
    <2>2. Knows(h, cert)
      BY <1>7, <2>1 DEF Knows, AtCert, AtCar, Saving
    <2>3. Start(c, h) /\ Present(h.vehicle)
      BY <1>7, <2>1 DEF FindToDelete, Present
    <2>4. \A e \in Calls : At(e, "insert") => h.cert # call[e].cert
      BY <1>1, <2>1 DEF CallsOK, Knows, At
    <2> HIDE DEF h
    <2> QED
      BY <2>1, <2>2, <2>3, <2>4, StartKeepsInv
  <1> QED
    BY <1>3, <1>5, <1>6, <1>7 DEF Arrive

-----------------------------------------------------------------------------
\* What the statements that only read find out.
LEMMA OcrEffect ==
  ASSUME TypeOK, NEW c \in Calls, OcrAnswers(c)
  PROVE  \E h : /\ Becomes(c, h)
                /\ h.op = call[c].op /\ h.cert = call[c].cert /\ h.vehicle = call[c].vehicle
                /\ h.step \in {"car_read", "cert_read"}
                /\ h.step = "car_read" => h.vehicle # NoVehicle /\ h.paper.status = "approved"
                /\ h.step = "cert_read" => \/ h.paper.status = "pending_review"
                                           \/ h.vehicle = NoVehicle
  <1>1. PICK r \in Readings \cup {Unread} :
          call' = [call EXCEPT
            ![c].step = IF Accepted(r) /\ call[c].vehicle # NoVehicle THEN "car_read" ELSE "cert_read",
            ![c].paper = [ status |-> IF Accepted(r) THEN "approved" ELSE "pending_review",
                           expiry |-> r.date ]]
    BY DEF OcrAnswers
  <1> DEFINE step == IF Accepted(r) /\ call[c].vehicle # NoVehicle THEN "car_read" ELSE "cert_read"
             paper == [ status |-> IF Accepted(r) THEN "approved" ELSE "pending_review",
                        expiry |-> r.date ]
             h == [call[c] EXCEPT !.step = step, !.paper = paper]
  <1>2. call[c] \in CallRecord
    BY DEF TypeOK
  <1>3. r.date \in MaybeDate
    BY DEF Readings, Unread, MaybeDate
  <1>4. paper \in Paper
    BY <1>3 DEF Paper, Decisions
  <1>5. h \in CallRecord
    BY <1>2, <1>4 DEF CallRecord, Steps
  <1>6. /\ h.step = step /\ h.paper = paper
        /\ h.op = call[c].op /\ h.cert = call[c].cert /\ h.vehicle = call[c].vehicle
    BY <1>2 DEF CallRecord
  <1>7. call' = [call EXCEPT ![c] = h]
    BY <1>1
  <1>8. /\ step \in {"car_read", "cert_read"}
        /\ step = "car_read" => call[c].vehicle # NoVehicle /\ paper.status = "approved"
        /\ step = "cert_read" => paper.status = "pending_review" \/ call[c].vehicle = NoVehicle
    <2>1. CASE Accepted(r)
      BY <2>1
    <2>2. CASE ~ Accepted(r)
      BY <2>2
    <2> QED
      BY <2>1, <2>2
  <1> HIDE DEF h, step, paper
  <1> QED
    BY <1>5, <1>6, <1>7, <1>8 DEF Becomes

LEMMA CertReadEffect ==
  ASSUME TypeOK, NEW c \in Calls, CertRead(c)
  PROVE  \E h : /\ Becomes(c, h)
                /\ h.op = call[c].op /\ h.cert = call[c].cert /\ h.vehicle = call[c].vehicle
                /\ h.paper = call[c].paper /\ h.step = "cert_write"
                /\ Stored(h.cert) =>
                     /\ "row" \notin h.dirty
                     /\ "status" \in h.dirty <=> cert[h.cert].status # h.paper.status
                     /\ "expiry" \in h.dirty <=> cert[h.cert].expiry # h.paper.expiry
  <1> DEFINE k == call[c].cert
             dirty == IF Stored(k) THEN { f \in {"status", "expiry"} : cert[k][f] # call[c].paper[f] }
                      ELSE {"row"}
             h == [call[c] EXCEPT !.step = "cert_write", !.dirty = dirty]
  <1>1. call[c] \in CallRecord
    BY DEF TypeOK
  <1>2. h \in CallRecord
    BY <1>1 DEF CallRecord, Steps
  <1>3. /\ h.step = "cert_write" /\ h.dirty = dirty /\ h.paper = call[c].paper
        /\ h.op = call[c].op /\ h.cert = call[c].cert /\ h.vehicle = call[c].vehicle
    BY <1>1 DEF CallRecord
  <1>4. call' = [call EXCEPT ![c] = h]
    BY DEF CertRead
  <1>5. Stored(k) => /\ "row" \notin dirty
                     /\ "status" \in dirty <=> cert[k].status # call[c].paper.status
                     /\ "expiry" \in dirty <=> cert[k].expiry # call[c].paper.expiry
    OBVIOUS
  <1> HIDE DEF h, k, dirty
  <1>6. h.cert = k
    BY <1>3 DEF k
  <1> QED
    BY <1>2, <1>3, <1>4, <1>5, <1>6 DEF Becomes

LEMMA CarReadEffect ==
  ASSUME TypeOK, NEW c \in Calls, CarRead(c)
  PROVE  \E h : /\ Becomes(c, h)
                /\ h.op = call[c].op /\ h.cert = call[c].cert /\ h.vehicle = call[c].vehicle
                /\ h.paper = call[c].paper /\ h.step = "car_write"
                /\ Present(h.vehicle) =>
                     /\ "row" \notin h.dirty
                     /\ "certified" \in h.dirty <=>
                          vehicle[h.vehicle].certified # CarAfter(h.paper).certified
                     /\ "until" \in h.dirty <=> vehicle[h.vehicle].until # CarAfter(h.paper).until
  <1> DEFINE v == call[c].vehicle
             dirty == IF Present(v)
                      THEN { f \in {"certified", "until"} : vehicle[v][f] # CarAfter(call[c].paper)[f] }
                      ELSE {"row"}
             h == [call[c] EXCEPT !.step = "car_write", !.dirty = dirty]
  <1>1. call[c] \in CallRecord
    BY DEF TypeOK
  <1>2. h \in CallRecord
    BY <1>1 DEF CallRecord, Steps
  <1>3. /\ h.step = "car_write" /\ h.dirty = dirty /\ h.paper = call[c].paper
        /\ h.op = call[c].op /\ h.cert = call[c].cert /\ h.vehicle = call[c].vehicle
    BY <1>1 DEF CallRecord
  <1>4. call' = [call EXCEPT ![c] = h]
    BY DEF CarRead
  <1>5. Present(v) =>
          /\ "row" \notin dirty
          /\ "certified" \in dirty <=> vehicle[v].certified # CarAfter(call[c].paper).certified
          /\ "until" \in dirty <=> vehicle[v].until # CarAfter(call[c].paper).until
    OBVIOUS
  <1> HIDE DEF h, v, dirty
  <1>6. h.vehicle = v
    BY <1>3 DEF v
  <1> QED
    BY <1>2, <1>3, <1>4, <1>5, <1>6 DEF Becomes

-----------------------------------------------------------------------------
LEMMA IdleKnows ==
  ASSUME NEW certs
  PROVE  Knows(Idle, certs) /\ Idle.step = "idle" /\ Idle.cert = NoCert
  BY DEF Knows, Idle, Handler, AtCert, AtCar, Saving

\* A handler that ends without a write.
LEMMA FinishKeepsInv ==
  ASSUME Inv, NEW c \in Calls, Finish(c), UNCHANGED <<tables, today, sweep>>, OutOK',
         shaken' \subseteq Vehicles, shaken \subseteq shaken'
  PROVE  Inv'
  BY FinishEffect, IdleIsARecord, IdleKnows, ReaderKeepsInv

LEMMA InsertKeepsInv ==
  ASSUME Inv, NEW c \in Calls, InsertCert(c)
  PROVE  Inv'
  <1> DEFINE k == call[c].cert
             v == call[c].vehicle
  <1>1. TypeOK /\ CallsOK /\ RowsOK
    BY DEF Inv
  <1>2. /\ call[c] \in CallRecord /\ v \in Vehicles \cup {NoVehicle}
        /\ At(c, "insert") /\ k \in Certs /\ cert[k].status = "never" /\ call[c].op = "submit"
    BY <1>1 DEF TypeOK, CallRecord, InsertCert, CallsOK, Knows, At
  <1>3. UNCHANGED <<vehicle, today, sweep, shaken>> /\ OutOK'
    BY SilentIsOK DEF InsertCert
  <1>4. CASE Present(v)
    <2>1. /\ cert' = [cert EXCEPT ![k] =
                        [ status |-> "pending_ocr", expiry |-> NoDate, vehicle |-> v ]]
          /\ Goto(c, "ocr")
      BY <1>4 DEF InsertCert
    <2>2. PICK h : /\ Becomes(c, h) /\ h.step = "ocr"
                   /\ h.op = "submit" /\ h.cert = k /\ h.vehicle = v
      BY <1>1, <1>2, <2>1, GotoEffect DEF Steps
    <2>3. /\ cert' \in [Certs -> CertRow]
          /\ cert'[k].status = "pending_ocr" /\ cert'[k].vehicle = v
          /\ \A j \in Certs \ {k} : cert'[j] = cert[j]
      BY <1>1, <1>2, <2>1 DEF TypeOK, CertRow, Decisions, MaybeDate
    <2>4. CertsStay
      BY <1>2, <2>3 DEF CertsStay
    <2>5. RowsOK'
      BY <1>1, <1>3, <1>4, <2>3 DEF RowsOK, Stored, Present
    <2>6. Knows(h, cert')
      BY <1>2, <2>2, <2>3 DEF Knows, AtCert, AtCar
    <2> QED
      BY <1>1, <1>2, <1>3, <2>2, <2>3, <2>4, <2>5, <2>6, HandlerKeepsInv DEF TypeOK, At
  <1>5. CASE ~ Present(v)
    BY <1>1, <1>3, <1>5, FinishKeepsInv DEF InsertCert, tables, TypeOK
  <1> QED
    BY <1>4, <1>5

LEMMA CertWriteKeepsInv ==
  ASSUME Inv, NEW c \in Calls, CertWrite(c)
  PROVE  Inv'
  <1> DEFINE k == call[c].cert
             v == call[c].vehicle
             paper == call[c].paper
             dirty == call[c].dirty
             inserted == "row" \in dirty
  <1>1. TypeOK /\ CallsOK /\ RowsOK
    BY DEF Inv
  <1>2. /\ call[c] \in CallRecord /\ v \in Vehicles \cup {NoVehicle} /\ paper \in Paper
        /\ At(c, "cert_write") /\ k \in Certs /\ call[c].op \in Saving
        /\ cert[k].status # "never" /\ cert[k].vehicle = v
    BY <1>1 DEF TypeOK, CallRecord, CertWrite, CallsOK, Knows, At, AtCert, AtCar
  <1>3. UNCHANGED <<vehicle, today, sweep, shaken>> /\ OutOK'
    BY SilentIsOK DEF CertWrite
  <1>4. CASE inserted /\ ~ Present(v)
    BY <1>1, <1>3, <1>4, FinishKeepsInv DEF CertWrite, tables, TypeOK
  <1>5. CASE ~ (inserted /\ ~ Present(v))
    <2>1. /\ cert' = IF ~ inserted /\ ~ Stored(k) THEN cert
                     ELSE [cert EXCEPT
                       ![k].status = IF inserted \/ "status" \in dirty THEN paper.status ELSE @,
                       ![k].expiry = IF inserted \/ "expiry" \in dirty THEN paper.expiry ELSE @]
          /\ Goto(c, AfterCert(c))
      BY <1>5 DEF CertWrite
    <2>2. /\ cert' \in [Certs -> CertRow]
          /\ cert'[k].vehicle = v
          /\ cert'[k] = cert[k] \/ (cert'[k].status \in Decisions \cup {cert[k].status} /\ (inserted \/ Stored(k)))
          /\ \A j \in Certs \ {k} : cert'[j] = cert[j]
      <3>1. cert \in [Certs -> CertRow] /\ cert[k] \in CertRow
        BY <1>1, <1>2 DEF TypeOK
      <3>2. CASE ~ inserted /\ ~ Stored(k)
        BY <1>2, <2>1, <3>1, <3>2
      <3>3. CASE inserted \/ Stored(k)
        <4> DEFINE row == [cert[k] EXCEPT
                             !.status = IF inserted \/ "status" \in dirty THEN paper.status ELSE @,
                             !.expiry = IF inserted \/ "expiry" \in dirty THEN paper.expiry ELSE @]
        <4>1. /\ row \in CertRow /\ row.vehicle = v
              /\ row.status \in Decisions \cup {cert[k].status}
          BY <1>2, <3>1 DEF CertRow, Paper
        <4>2. cert' = [cert EXCEPT ![k] = row]
          BY <2>1, <3>3
        <4> HIDE DEF row
        <4> QED
          BY <1>2, <3>1, <3>3, <4>1, <4>2
      <3> QED
        BY <3>2, <3>3
    <2>3. cert'[k].status # "never"
      BY <1>2, <2>2 DEF Decisions
    <2>4. CertsStay
      BY <1>2, <2>2, <2>3 DEF CertsStay
    <2>5. Stored(k) \/ inserted => Present(v)
      BY <1>1, <1>2, <1>5 DEF RowsOK
    <2>6. RowsOK'
      BY <1>1, <1>2, <1>3, <2>2, <2>3, <2>5 DEF RowsOK, Stored, Present
    <2>7. AfterCert(c) \in {"idle", "car_read", "audit"}
      BY DEF AfterCert
    <2>8. PICK h : /\ Becomes(c, h) /\ h.step = AfterCert(c)
                   /\ AfterCert(c) = "idle" => h = Idle
                   /\ AfterCert(c) # "idle" => h.op = call[c].op /\ h.cert = k /\ h.vehicle = v
      BY <1>1, <2>1, <2>7, GotoEffect DEF Steps
    <2>9. Knows(h, cert')
      <3>1. CASE AfterCert(c) = "idle"
        BY <2>8, <3>1, IdleKnows
      <3>2. CASE AfterCert(c) # "idle"
        <4>1. /\ h.op \in {"approve", "reject"}
              /\ h.step = "car_read" => v \in Vehicles
          BY <1>2, <2>8, <3>2 DEF AfterCert, Saving
        <4> QED
          BY <1>2, <2>2, <2>3, <2>7, <2>8, <3>2, <4>1 DEF Knows, AtCert, AtCar, Saving
      <3> QED
        BY <3>1, <3>2
    <2>10. /\ h.cert \in {call[c].cert, NoCert} /\ h.vehicle \in {call[c].vehicle, NoVehicle}
           /\ h.step # "insert"
      BY <2>7, <2>8, IdleKnows, IdleIsARecord
    <2> QED
      BY <1>1, <1>2, <1>3, <2>2, <2>4, <2>6, <2>8, <2>9, <2>10, HandlerKeepsInv DEF TypeOK, At
  <1> QED
    BY <1>4, <1>5

LEMMA CarWriteKeepsInv ==
  ASSUME Inv, NEW c \in Calls, CarWrite(c)
  PROVE  Inv'
  <1> DEFINE v == call[c].vehicle
             car == CarAfter(call[c].paper)
             dirty == call[c].dirty
             inserted == "row" \in dirty
             step == IF call[c].op = "submit" THEN "cert_read" ELSE "audit"
  <1>1. TypeOK /\ CallsOK /\ RowsOK
    BY DEF Inv
  <1>2. /\ call[c] \in CallRecord /\ v \in Vehicles /\ call[c].paper \in Paper
        /\ At(c, "car_write") /\ call[c].cert \in Certs /\ call[c].op \in Saving
        /\ cert[call[c].cert].status # "never" /\ cert[call[c].cert].vehicle = v
    BY <1>1 DEF TypeOK, CallRecord, CarWrite, CallsOK, Knows, At, AtCert, AtCar
  <1>3. UNCHANGED <<cert, today, sweep, shaken>> /\ OutOK'
    BY SilentIsOK DEF CarWrite
  <1>4. car.certified \in BOOLEAN /\ car.until \in MaybeDate
    BY <1>2 DEF CarAfter, Paper, MaybeDate
  <1>5. vehicle' = IF ~ inserted /\ ~ Present(v) THEN vehicle
                   ELSE [vehicle EXCEPT
                     ![v].row = "present",
                     ![v].certified = IF inserted \/ "certified" \in dirty THEN car.certified ELSE @,
                     ![v].until = IF inserted \/ "until" \in dirty THEN car.until ELSE @]
    BY DEF CarWrite
  <1> HIDE DEF car
  <1>6. /\ vehicle' \in [Vehicles -> CarRow]
        /\ vehicle'[v] = vehicle[v] \/ vehicle'[v].row = "present"
        /\ \A w \in Vehicles \ {v} : vehicle'[w] = vehicle[w]
    <2>1. vehicle \in [Vehicles -> CarRow] /\ vehicle[v] \in CarRow
      BY <1>1, <1>2 DEF TypeOK
    <2>2. CASE ~ inserted /\ ~ Present(v)
      BY <1>5, <2>1, <2>2
    <2>3. CASE inserted \/ Present(v)
      <3> DEFINE row == [vehicle[v] EXCEPT
                           !.row = "present",
                           !.certified = IF inserted \/ "certified" \in dirty THEN car.certified ELSE @,
                           !.until = IF inserted \/ "until" \in dirty THEN car.until ELSE @]
      <3>1. row \in CarRow /\ row.row = "present"
        BY <1>4, <2>1 DEF CarRow
      <3>2. vehicle' = [vehicle EXCEPT ![v] = row]
        BY <1>5, <2>3
      <3> HIDE DEF row
      <3> QED
        BY <1>2, <2>1, <3>1, <3>2
    <2> QED
      BY <2>2, <2>3
  <1>7. RowsOK'
    BY <1>1, <1>3, <1>6 DEF RowsOK, Stored, Present
  <1>8. Goto(c, step) /\ step \in {"cert_read", "audit"}
    BY DEF CarWrite
  <1>9. PICK h : /\ Becomes(c, h) /\ h.step = step
                 /\ h.op = call[c].op /\ h.cert = call[c].cert /\ h.vehicle = v
    BY <1>1, <1>8, GotoEffect DEF Steps
  <1>10. Knows(h, cert')
    BY <1>2, <1>3, <1>9 DEF Knows, AtCert, AtCar, Saving
  <1> QED
    BY <1>1, <1>2, <1>3, <1>6, <1>7, <1>8, <1>9, <1>10, HandlerKeepsInv DEF TypeOK, CertsStay, At

LEMMA DeleteKeepsInv ==
  ASSUME Inv, NEW c \in Calls, DeleteVehicle(c)
  PROVE  Inv'
  <1> DEFINE v == call[c].vehicle
             step == IF call[c].op = "remove" THEN "audit" ELSE "idle"
  <1>1. TypeOK /\ CallsOK /\ RowsOK
    BY DEF Inv
  <1>2. v \in Vehicles /\ At(c, "delete") /\ call[c].op \in {"delete", "remove"}
    BY <1>1 DEF DeleteVehicle, CallsOK, Knows, At
  <1>3. UNCHANGED <<today, sweep, shaken>> /\ OutOK'
    BY SilentIsOK DEF DeleteVehicle
  <1>4. /\ vehicle' \in [Vehicles -> CarRow]
        /\ vehicle'[v].row = "deleted" /\ vehicle'[v].certified = FALSE
        /\ \A w \in Vehicles \ {v} : vehicle'[w] = vehicle[w]
    BY <1>1, <1>2 DEF DeleteVehicle, TypeOK, CarRow, MaybeDate
  <1>5. ASSUME NEW k \in Certs
        PROVE  /\ cert'[k] \in CertRow /\ cert'[k].vehicle = cert[k].vehicle
               /\ Stored(k)' => Stored(k) /\ cert[k].vehicle # v
               /\ cert[k].status = "never" <=> cert'[k].status = "never"
    BY <1>1 DEF DeleteVehicle, TypeOK, CertRow, Stored, Decisions
  <1>6. cert' \in [Certs -> CertRow]
    BY <1>5 DEF DeleteVehicle
  <1>7. RowsOK'
    BY <1>1, <1>4, <1>5 DEF RowsOK, Present
  <1>8. CertsStay
    BY <1>5 DEF CertsStay
  <1>9. Goto(c, step) /\ step \in {"audit", "idle"}
    BY DEF DeleteVehicle
  <1>10. PICK h : /\ Becomes(c, h) /\ h.step = step
                  /\ step = "idle" => h = Idle
                  /\ step # "idle" =>
                       h.op = call[c].op /\ h.cert = call[c].cert /\ h.vehicle = v
    BY <1>1, <1>9, GotoEffect DEF Steps
  <1>11. Knows(h, cert')
    BY <1>2, <1>10, IdleKnows DEF Knows, AtCert, AtCar, Saving
  <1>12. h.cert \in {call[c].cert, NoCert} /\ h.vehicle \in {call[c].vehicle, NoVehicle}
    BY <1>10, IdleKnows, IdleIsARecord
  <1> QED
    BY <1>1, <1>2, <1>3, <1>4, <1>5, <1>6, <1>7, <1>8, <1>9, <1>10, <1>11, <1>12, HandlerKeepsInv
       DEF TypeOK, At

LEMMA AuditKeepsInv ==
  ASSUME Inv, NEW c \in Calls, RecordAudit(c)
  PROVE  Inv'
  <1>1. TypeOK /\ CallsOK
    BY DEF Inv
  <1>2. IF call[c].op = "remove" THEN call[c].vehicle \in Vehicles ELSE call[c].cert \in Certs
    BY <1>1 DEF RecordAudit, CallsOK, Knows, At, Saving
  <1>3. OutOK'
    BY <1>2 DEF RecordAudit, OutOK
  <1> QED
    BY <1>1, <1>3, FinishKeepsInv DEF RecordAudit, TypeOK

LEMMA ContinueKeepsInv ==
  ASSUME Inv, NEW c \in Calls, Continue(c)
  PROVE  Inv'
  <1>1. TypeOK /\ CallsOK
    BY DEF Inv
  <1>2. ASSUME OcrAnswers(c) PROVE Inv'
    <2>1. /\ call[c].op = "submit" /\ At(c, "ocr") /\ call[c].cert \in Certs
          /\ cert[call[c].cert].status # "never" /\ cert[call[c].cert].vehicle = call[c].vehicle
      BY <1>1, <1>2 DEF OcrAnswers, CallsOK, Knows, At, Saving
    <2>2. PICK h : /\ Becomes(c, h)
                   /\ h.op = call[c].op /\ h.cert = call[c].cert /\ h.vehicle = call[c].vehicle
                   /\ h.step \in {"car_read", "cert_read"}
                   /\ h.step = "car_read" => h.vehicle # NoVehicle
      BY <1>1, <1>2, OcrEffect
    <2>3. call[c].vehicle \in Vehicles \cup {NoVehicle}
      BY <1>1 DEF TypeOK, CallRecord
    <2>4. Knows(h, cert)
      BY <2>1, <2>2, <2>3 DEF Knows, AtCert, AtCar, Saving
    <2>5. UNCHANGED <<tables, today, sweep, shaken>> /\ OutOK'
      BY <1>2, SilentIsOK DEF OcrAnswers
    <2> QED
      BY <1>1, <2>1, <2>2, <2>4, <2>5, ReaderKeepsInv DEF At, TypeOK
  <1>3. ASSUME CertRead(c) PROVE Inv'
    <2>1. /\ call[c].op \in Saving /\ At(c, "cert_read") /\ call[c].cert \in Certs
          /\ cert[call[c].cert].status # "never" /\ cert[call[c].cert].vehicle = call[c].vehicle
      BY <1>1, <1>3 DEF CertRead, CallsOK, Knows, At, AtCert, AtCar
    <2>2. PICK h : /\ Becomes(c, h) /\ h.step = "cert_write"
                   /\ h.op = call[c].op /\ h.cert = call[c].cert /\ h.vehicle = call[c].vehicle
      BY <1>1, <1>3, CertReadEffect
    <2>3. Knows(h, cert)
      BY <2>1, <2>2 DEF Knows, AtCert, AtCar
    <2>4. UNCHANGED <<tables, today, sweep, shaken>> /\ OutOK'
      BY <1>3, SilentIsOK DEF CertRead
    <2> QED
      BY <1>1, <2>1, <2>2, <2>3, <2>4, ReaderKeepsInv DEF At, TypeOK
  <1>4. ASSUME CarRead(c) PROVE Inv'
    <2>1. /\ call[c].op \in Saving /\ At(c, "car_read") /\ call[c].cert \in Certs
          /\ call[c].vehicle \in Vehicles
          /\ cert[call[c].cert].status # "never" /\ cert[call[c].cert].vehicle = call[c].vehicle
      BY <1>1, <1>4 DEF CarRead, CallsOK, Knows, At, AtCert, AtCar
    <2>2. PICK h : /\ Becomes(c, h) /\ h.step = "car_write"
                   /\ h.op = call[c].op /\ h.cert = call[c].cert /\ h.vehicle = call[c].vehicle
      BY <1>1, <1>4, CarReadEffect
    <2>3. Knows(h, cert)
      BY <2>1, <2>2 DEF Knows, AtCert, AtCar
    <2>4. UNCHANGED <<tables, today, sweep, shaken>> /\ OutOK'
      BY <1>4, SilentIsOK DEF CarRead
    <2> QED
      BY <1>1, <2>1, <2>2, <2>3, <2>4, ReaderKeepsInv DEF At, TypeOK
  <1> QED
    BY <1>2, <1>3, <1>4, InsertKeepsInv, CertWriteKeepsInv, CarWriteKeepsInv, DeleteKeepsInv,
       AuditKeepsInv DEF Continue

LEMMA FailKeepsInv ==
  ASSUME Inv, NEW c \in Calls, Fail(c)
  PROVE  Inv'
  <1>1. TypeOK
    BY DEF Inv
  <1>2. call[c].vehicle \in Vehicles \cup {NoVehicle}
    BY <1>1 DEF TypeOK, CallRecord
  <1> QED
    BY <1>1, <1>2, FinishKeepsInv, SilentIsOK DEF Fail, TypeOK

-----------------------------------------------------------------------------
\* Steps that no handler takes.
Job == [ step : {"idle", "next", "write", "remind"}, todo : SUBSET Certs,
         cars : SUBSET Vehicles, cert : Certs \cup {NoCert}, save : {"none", "update", "insert"} ]

LEMMA BusyIsVehicles == TypeOK => Busy \subseteq Vehicles \cup {NoVehicle}
  BY DEF TypeOK, Busy, CallRecord, CertRow

LEMMA BackgroundKeepsInv ==
  ASSUME Inv, UNCHANGED call,
         vehicle' \in [Vehicles -> CarRow], cert' \in [Certs -> CertRow], today' \in Dates,
         sweep' \in Job, OutOK', shaken' \subseteq Vehicles, shaken \subseteq shaken',
         CertsStay, RowsOK', SweepOK',
         \A k \in Certs : cert[k].status = "never" => cert'[k].status = "never",
         \A v \in Vehicles : vehicle[v].row = "present" => vehicle'[v].row = "present",
         \A v \in Vehicles \ shaken' : Swept(v)' => Swept(v) \/ \A c \in Calls : ~ Works(c, v)
  PROVE  Inv'
  <1>1. TypeOK /\ CallsOK /\ OverlapsAreShaken
    BY DEF Inv
  <1>2. TypeOK'
    BY <1>1 DEF TypeOK, OutOK, Job
  <1>3. CallsOK'
    <2>1. \A c \in Calls : Knows(call[c], cert')
      BY <1>1 DEF CallsOK, Knows, CertsStay
    <2> QED
      BY <1>1, <2>1 DEF CallsOK, At
  <1>4. OverlapsAreShaken'
    BY <1>1 DEF OverlapsAreShaken, Works, At
  <1> QED
    BY <1>2, <1>3, <1>4 DEF Inv

\* The nightly job.
LEMMA SweepWriteKeepsInv ==
  ASSUME Inv, SweepWrite
  PROVE  Inv'
  <1> DEFINE k == sweep.cert
  <1> USE CertificationsAssumption
  <1>1. TypeOK /\ RowsOK /\ SweepOK
    BY DEF Inv
  <1>2. sweep \in Job /\ k \in sweep.todo /\ k \in Certs /\ cert[k].status # "never"
    BY <1>1 DEF TypeOK, Job, SweepWrite, SweepOK
  <1>3. UNCHANGED <<vehicle, today, call>> /\ OutOK'
    BY SilentIsOK DEF SweepWrite
  <1>4. CASE sweep.save = "insert" => Present(cert[k].vehicle)
    <2>1. /\ cert' = IF sweep.save = "insert" \/ (sweep.save = "update" /\ Stored(k))
                     THEN [cert EXCEPT ![k].status = "expired"] ELSE cert
          /\ sweep' = [sweep EXCEPT !.step = "next", !.cert = NoCert, !.save = "none",
                         !.todo = @ \ {k}, !.cars = @ \cup ({cert[k].vehicle} \ {NoVehicle})]
          /\ UNCHANGED shaken
      BY <1>4 DEF SweepWrite
    <2>2. cert[k].vehicle \in Vehicles \cup {NoVehicle}
      BY <1>1, <1>2 DEF TypeOK, CertRow
    <2>3. /\ sweep' \in Job /\ sweep'.step = "next" /\ sweep'.todo = sweep.todo \ {k}
          /\ sweep'.cars = sweep.cars \cup ({cert[k].vehicle} \ {NoVehicle})
      BY <1>2, <2>1, <2>2 DEF Job
    <2>4. /\ cert' \in [Certs -> CertRow]
          /\ \A j \in Certs : /\ cert'[j].vehicle = cert[j].vehicle
                              /\ \/ cert'[j] = cert[j]
                                 \/ /\ j = k /\ cert'[j].status = "expired"
                                    /\ Present(cert[k].vehicle) \/ Stored(k)
      BY <1>1, <1>2, <1>4, <2>1 DEF TypeOK, CertRow, Decisions
    <2>5. CertsStay /\ \A j \in Certs : cert[j].status = "never" => cert'[j].status = "never"
      BY <1>2, <2>4 DEF CertsStay
    <2>6. RowsOK'
      BY <1>1, <1>2, <1>3, <2>4, <2>5 DEF RowsOK, Stored, Present
    <2>7. SweepOK'
      BY <1>1, <1>2, <2>3, <2>5 DEF SweepOK, CertsStay, Job
    <2>8. \A v \in Vehicles : Swept(v)' => Swept(v)
      BY <1>2, <2>3, <2>4 DEF Swept, Job
    <2> QED
      BY <1>1, <1>3, <2>1, <2>3, <2>4, <2>5, <2>6, <2>7, <2>8, BackgroundKeepsInv DEF TypeOK
  <1>5. CASE ~ (sweep.save = "insert" => Present(cert[k].vehicle))
    <2>1. GiveUp /\ UNCHANGED cert /\ shaken' = shaken \cup (Busy \ {NoVehicle})
      BY <1>5 DEF SweepWrite
    <2>2. sweep' \in Job /\ sweep'.todo = {} /\ sweep'.cars = {} /\ sweep'.step # "write"
      BY <2>1 DEF GiveUp, Asleep, Job
    <2>3. SweepOK' /\ \A v \in Vehicles : ~ Swept(v)'
      BY <2>2 DEF SweepOK, Swept
    <2>4. CertsStay /\ RowsOK'
      BY <1>1, <1>3, <2>1 DEF CertsStay, RowsOK, Stored, Present
    <2> QED
      BY <1>1, <1>3, <2>1, <2>2, <2>3, <2>4, BusyIsVehicles, BackgroundKeepsInv DEF TypeOK
  <1> QED
    BY <1>4, <1>5

LEMMA SweepKeepsInv ==
  ASSUME Inv, Sweep \/ SweepFails
  PROVE  Inv'
  <1> USE CertificationsAssumption
  <1>1. TypeOK /\ RowsOK /\ SweepOK
    BY DEF Inv
  <1>2. sweep \in Job
    BY <1>1 DEF TypeOK, Job
  <1>3. cert' = cert => CertsStay /\ \A k \in Certs : cert[k].status = "never" => cert'[k].status = "never"
    BY DEF CertsStay
  <1>4. UNCHANGED tables => RowsOK' /\ vehicle' \in [Vehicles -> CarRow] /\ cert' \in [Certs -> CertRow]
    BY <1>1 DEF tables, RowsOK, Stored, Present, TypeOK
  <1>5. ASSUME SweepStart PROVE Inv'
    <2> DEFINE found == { k \in Approved : Overdue(cert[k].expiry) }
    <2>1. /\ sweep' = [Asleep EXCEPT !.step = "next", !.todo = found]
          /\ shaken' = shaken \cup ({ cert[k].vehicle : k \in found } \cap (Busy \ {NoVehicle}))
          /\ UNCHANGED <<vehicle, cert, today, call>> /\ OutOK'
      BY <1>5, SilentIsOK DEF SweepStart, SweepFinds, tables
    <2>2. found \subseteq Certs /\ \A k \in found : cert[k].status # "never"
      BY DEF Approved
    <2> HIDE DEF found
    <2>3. sweep' \in Job /\ sweep'.step = "next" /\ sweep'.todo = found /\ sweep'.cars = {}
      BY <2>1, <2>2 DEF Asleep, Job
    <2>4. SweepOK'
      BY <2>1, <2>2, <2>3 DEF SweepOK
    <2>5. ASSUME NEW v \in Vehicles \ shaken', Swept(v)', NEW c \in Calls
          PROVE  ~ Works(c, v)
      <3>1. v \in { cert[k].vehicle : k \in found }
        BY <2>1, <2>3, <2>5 DEF Swept
      <3>2. v \notin Busy
        BY <2>1, <2>5, <3>1
      <3> QED
        BY <3>2 DEF Busy, Works
    <2> QED
      BY <1>1, <1>3, <1>4, <2>1, <2>3, <2>4, <2>5, BusyIsVehicles, BackgroundKeepsInv DEF TypeOK, tables
  <1>6. ASSUME NEW k \in Certs, SweepRead(k) PROVE Inv'
    <2>1. /\ UNCHANGED <<tables, today, call, shaken>> /\ OutOK'
          /\ k \in sweep.todo
      BY <1>6, SilentIsOK DEF SweepRead
    <2>2. /\ sweep' \in Job /\ sweep'.step = "write" /\ sweep'.cert = k
          /\ sweep'.todo = sweep.todo /\ sweep'.cars = sweep.cars
      BY <1>2, <1>6 DEF SweepRead, Job
    <2>3. SweepOK' /\ \A v \in Vehicles : Swept(v)' => Swept(v)
      BY <1>1, <2>1, <2>2 DEF SweepOK, Swept, tables
    <2> QED
      BY <1>1, <1>3, <1>4, <2>1, <2>2, <2>3, BackgroundKeepsInv DEF TypeOK, tables
  <1>7. ASSUME SweepVehicles PROVE Inv'
    <2>1. /\ UNCHANGED <<cert, today, call, shaken>> /\ OutOK'
          /\ sweep' = [Asleep EXCEPT !.step = "remind"]
      BY <1>7, SilentIsOK DEF SweepVehicles
    <2>2. sweep' \in Job /\ sweep'.step = "remind" /\ sweep'.todo = {} /\ sweep'.cars = {}
      BY <2>1 DEF Asleep, Job
    <2>3. SweepOK' /\ \A v \in Vehicles : ~ Swept(v)'
      BY <2>2 DEF SweepOK, Swept
    <2>4. ASSUME NEW v \in Vehicles
          PROVE  /\ vehicle'[v] \in CarRow /\ vehicle'[v].row = vehicle[v].row
                 /\ vehicle'[v].certified => vehicle[v].certified
      <3>1. /\ vehicle[v] \in CarRow
            /\ \/ vehicle'[v] = vehicle[v]
               \/ vehicle'[v] = [vehicle[v] EXCEPT !.certified = FALSE, !.until = NoDate]
        BY <1>1, <1>7 DEF SweepVehicles, TypeOK
      <3> QED
        BY <3>1 DEF CarRow, MaybeDate
    <2>5. vehicle' \in [Vehicles -> CarRow]
      BY <1>7, <2>4 DEF SweepVehicles
    <2>6. RowsOK'
      BY <1>1, <2>1, <2>4 DEF RowsOK, Stored, Present
    <2> QED
      BY <1>1, <1>3, <2>1, <2>2, <2>3, <2>4, <2>5, <2>6, BackgroundKeepsInv DEF TypeOK
  <1>8. ASSUME Remind PROVE Inv'
    <2>1. UNCHANGED <<tables, today, call, shaken>> /\ sweep' = Asleep
      BY <1>8 DEF Remind
    <2>2. OutOK'
      BY <1>8 DEF Remind, OutOK
    <2>3. sweep' \in Job /\ sweep'.step = "idle" /\ sweep'.todo = {} /\ sweep'.cars = {}
      BY <2>1 DEF Asleep, Job
    <2>4. SweepOK' /\ \A v \in Vehicles : ~ Swept(v)'
      BY <2>3 DEF SweepOK, Swept
    <2> QED
      BY <1>1, <1>3, <1>4, <2>1, <2>2, <2>3, <2>4, BackgroundKeepsInv DEF TypeOK, tables
  <1>9. ASSUME SweepFails PROVE Inv'
    <2>1. /\ UNCHANGED <<tables, today, call>> /\ OutOK' /\ GiveUp
          /\ shaken' = shaken \cup (Busy \ {NoVehicle})
      BY <1>9, SilentIsOK DEF SweepFails
    <2>2. sweep' \in Job /\ sweep'.todo = {} /\ sweep'.cars = {} /\ sweep'.step # "write"
      BY <2>1 DEF GiveUp, Asleep, Job
    <2>3. SweepOK' /\ \A v \in Vehicles : ~ Swept(v)'
      BY <2>2 DEF SweepOK, Swept
    <2> QED
      BY <1>1, <1>3, <1>4, <2>1, <2>2, <2>3, BusyIsVehicles, BackgroundKeepsInv DEF TypeOK, tables
  <1> QED
    BY <1>5, <1>6, <1>7, <1>8, <1>9, SweepWriteKeepsInv DEF Sweep

LEMMA RestKeepsInv ==
  ASSUME Inv, DayPasses \/ (\E v \in Vehicles : CreateVehicle(v)) \/ Restart \/ UNCHANGED vars
  PROVE  Inv'
  <1> USE CertificationsAssumption
  <1>1. TypeOK /\ RowsOK /\ SweepOK /\ CallsOK /\ OverlapsAreShaken
    BY DEF Inv
  <1>2. ASSUME DayPasses PROVE Inv'
    <2>1. UNCHANGED <<vehicle, cert, call, sweep, shaken>> /\ OutOK' /\ today' \in Dates
      BY <1>1, <1>2, SilentIsOK DEF DayPasses, tables, Dates, TypeOK
    <2>2. CertsStay /\ RowsOK' /\ SweepOK' /\ \A v \in Vehicles : Swept(v)' => Swept(v)
      BY <1>1, <2>1 DEF CertsStay, RowsOK, Stored, Present, SweepOK, Swept
    <2> QED
      BY <1>1, <2>1, <2>2, BackgroundKeepsInv DEF TypeOK, Job
  <1>3. ASSUME NEW v \in Vehicles, CreateVehicle(v) PROVE Inv'
    <2>1. UNCHANGED <<cert, today, call, sweep, shaken>> /\ OutOK'
      BY <1>3, SilentIsOK DEF CreateVehicle
    <2>2. /\ vehicle' \in [Vehicles -> CarRow]
          /\ vehicle'[v].row = "present"
          /\ \A w \in Vehicles : vehicle'[w].certified = vehicle[w].certified
          /\ \A w \in Vehicles \ {v} : vehicle'[w].row = vehicle[w].row
      BY <1>1, <1>3 DEF CreateVehicle, TypeOK, CarRow
    <2>3. CertsStay /\ RowsOK' /\ SweepOK' /\ \A w \in Vehicles : Swept(w)' => Swept(w)
      BY <1>1, <2>1, <2>2 DEF CertsStay, RowsOK, Stored, Present, SweepOK, Swept
    <2>4. \A w \in Vehicles : vehicle[w].row = "present" => vehicle'[w].row = "present"
      BY <2>2
    <2> QED
      BY <1>1, <2>1, <2>2, <2>3, <2>4, BackgroundKeepsInv DEF TypeOK, Job
  <1>4. ASSUME Restart PROVE Inv'
    <2>1. /\ UNCHANGED <<vehicle, cert, today>> /\ OutOK'
          /\ call' = [c \in Calls |-> Idle] /\ sweep' = Asleep
          /\ shaken' = shaken \cup (Busy \ {NoVehicle})
      BY <1>4, SilentIsOK DEF Restart, tables
    <2>2. TypeOK'
      BY <1>1, <2>1, IdleIsARecord, BusyIsVehicles DEF TypeOK, OutOK, Asleep
    <2>3. RowsOK' /\ SweepOK'
      BY <1>1, <2>1 DEF RowsOK, Stored, Present, SweepOK, Asleep
    <2>4. CallsOK' /\ OverlapsAreShaken'
      BY <2>1, IdleKnows, IdleIsARecord DEF CallsOK, At, OverlapsAreShaken, Works
    <2> QED
      BY <2>2, <2>3, <2>4 DEF Inv
  <1>5. ASSUME UNCHANGED vars PROVE Inv'
    BY <1>5 DEF Inv, vars, tables, TypeOK, RowsOK, CallsOK, SweepOK, OverlapsAreShaken, Stored,
       Present, At, Works, Swept, Dates, MaybeDate
  <1> QED
    BY <1>2, <1>3, <1>4, <1>5

LEMMA NextKeepsInv == Inv /\ [Next]_vars => Inv'
  BY ArrivalKeepsInv, ContinueKeepsInv, FailKeepsInv, SweepKeepsInv, RestKeepsInv DEF Next

-----------------------------------------------------------------------------
\* Every variable keeps its type, and dates stay within the clock, whatever
\* overlaps, fails or dies.
THEOREM TypeCorrect == Spec => []TypeOK
  <1>1. Init => Inv
    BY InitInv
  <1>2. Inv /\ [Next]_vars => Inv'
    BY NextKeepsInv
  <1>3. Inv => TypeOK
    BY DEF Inv
  <1> QED
    BY <1>1, <1>2, <1>3, PTL DEF Spec

-----------------------------------------------------------------------------
LEMMA OnlySavesRevive ==
  ASSUME Inv, [Next]_vars, NEW v \in Vehicles,
         vehicle[v].row = "deleted", vehicle'[v].row = "present"
  PROVE  v \in shaken
  <1>1. TypeOK /\ CallsOK /\ OverlapsAreShaken
    BY DEF Inv
  <1>2. vehicle' # vehicle
    OBVIOUS
  <1>3. ASSUME NEW c \in Calls, CarWrite(c) PROVE v \in shaken
    <2>1. v = call[c].vehicle
      BY <1>1, <1>3 DEF CarWrite, TypeOK
    <2> QED
      BY <1>1, <1>3, <2>1 DEF CarWrite, OverlapsAreShaken, Works, At
  <1>4. ASSUME NEW c \in Calls, DeleteVehicle(c) PROVE FALSE
    BY <1>1, <1>4 DEF DeleteVehicle, TypeOK
  <1>5. ASSUME NEW w \in Vehicles, CreateVehicle(w) PROVE FALSE
    BY <1>1, <1>5 DEF CreateVehicle, TypeOK
  <1>6. ASSUME SweepVehicles PROVE FALSE
    <2>1. /\ vehicle[v] \in CarRow
          /\ \/ vehicle'[v] = vehicle[v]
             \/ vehicle'[v] = [vehicle[v] EXCEPT !.certified = FALSE, !.until = NoDate]
      BY <1>1, <1>6 DEF SweepVehicles, TypeOK
    <2> QED
      BY <2>1 DEF CarRow
  <1>7. ASSUME NEW c \in Calls, Arrive(c) PROVE FALSE
    BY <1>2, <1>7 DEF Arrive, Submit, AdminApprove, AdminReject, FindToDelete, Start, tables
  <1>8. ASSUME NEW c \in Calls,
               InsertCert(c) \/ OcrAnswers(c) \/ CertRead(c) \/ CertWrite(c) \/ CarRead(c)
               \/ RecordAudit(c) \/ Fail(c)
        PROVE  FALSE
    BY <1>2, <1>8 DEF InsertCert, OcrAnswers, CertRead, CertWrite, CarRead, RecordAudit, Fail, tables
  <1>9. SweepStart \/ (\E k \in Certs : SweepRead(k)) \/ SweepWrite \/ Remind \/ DayPasses
        \/ SweepFails \/ Restart \/ UNCHANGED vars => FALSE
    BY <1>2 DEF SweepStart, SweepFinds, SweepRead, SweepWrite, Remind, DayPasses, SweepFails,
       Restart, vars, tables
  <1> QED
    BY <1>3, <1>4, <1>5, <1>6, <1>7, <1>8, <1>9 DEF Next, Continue, Sweep

\* A vehicle that was deleted is only brought back, by the save of an entity
\* loaded before, when a handler ran beside its deletion or was cut off.
THEOREM DeletionIsFinal == Spec => DeletedStaysDeleted
  <1>1. Init => Inv
    BY InitInv
  <1>2. Inv /\ [Next]_vars => Inv'
    BY NextKeepsInv
  <1>3. Inv /\ [Next]_vars =>
          [ \A v \in Vehicles :
              vehicle[v].row = "deleted" /\ vehicle'[v].row = "present" => v \in shaken ]_vars
    BY OnlySavesRevive
  <1> QED
    BY <1>1, <1>2, <1>3, PTL DEF Spec, DeletedStaysDeleted

-----------------------------------------------------------------------------
\* What a handler h that is alone with its vehicle knows of the rows.
Covered(v, car, certs) ==
  car.certified => \E k \in Certs : /\ certs[k].vehicle = v
                                    /\ certs[k].status = "approved"
                                    /\ certs[k].expiry = car.until

Certifying(h) == h.op = "submit" /\ h.step \in AtCert /\ h.paper.status = "approved"
Rejecting(h) == h.op = "reject" /\ h.step \in AtCar

Sole(h, certs, car) ==
  /\ h.step = "cert_write" =>
       /\ "row" \notin h.dirty
       /\ "status" \in h.dirty <=> certs[h.cert].status # h.paper.status
       /\ "expiry" \in h.dirty <=> certs[h.cert].expiry # h.paper.expiry
  /\ h.step = "car_write" =>
       /\ "row" \notin h.dirty
       /\ "certified" \in h.dirty <=> car.certified # CarAfter(h.paper).certified
       /\ "until" \in h.dirty <=> car.until # CarAfter(h.paper).until
  /\ h.step \in AtCert => certs[h.cert].status \in Decisions
  /\ h.op = "submit" /\ h.step # "insert" => certs[h.cert].status = "pending_ocr"
  /\ h.op = "submit" /\ h.step \in AtCert => h.paper.status \in {"approved", "pending_review"}
  /\ h.op = "submit" /\ h.step \in AtCar => h.paper.status = "approved"
  /\ h.op = "approve" /\ h.step \in AtCert => certs[h.cert].status # "approved"
  /\ h.op = "approve" /\ h.step \in AtCar =>
       certs[h.cert].status = "approved" /\ certs[h.cert].expiry = h.paper.expiry
  /\ h.op = "approve" /\ h.step # "audit" => h.paper.status = "approved"
  /\ h.op = "reject" /\ h.step # "audit" => h.paper.status = "rejected"
  /\ Certifying(h) => car.certified /\ car.until = h.paper.expiry
  /\ ~ Certifying(h) /\ ~ Rejecting(h) => Covered(h.vehicle, car, certs)

SolesOK ==
  \A c \in Calls : call[c].vehicle \in Vehicles \ shaken =>
    Sole(call[c], cert, vehicle[call[c].vehicle])

RestOK ==
  \A v \in Vehicles \ (shaken \cup sweep.cars) :
    (\A c \in Calls : ~ Works(c, v)) => Covered(v, vehicle[v], cert)

IInv == Inv /\ SolesOK /\ RestOK

LEMMA InitIInv == Init => IInv
  <1> SUFFICES ASSUME Init PROVE IInv
    OBVIOUS
  <1>1. Inv
    BY InitInv
  <1>2. SolesOK
    BY IdleIsARecord, CertificationsAssumption DEF Init, SolesOK
  <1>3. RestOK
    BY DEF Init, RestOK, Covered
  <1> QED
    BY <1>1, <1>2, <1>3 DEF IInv

\* A step that leaves the flags of a vehicle and its certificates alone.
Untouched(v) ==
  /\ vehicle'[v].certified = vehicle[v].certified
  /\ vehicle'[v].until = vehicle[v].until
  /\ \A k \in Certs : cert[k].vehicle = v \/ cert'[k].vehicle = v => cert'[k] = cert[k]

LEMMA CoveredKept ==
  ASSUME NEW v \in Vehicles, Untouched(v)
  PROVE  Covered(v, vehicle'[v], cert') <=> Covered(v, vehicle[v], cert)
  BY DEF Covered, Untouched

LEMMA SoleKept ==
  ASSUME NEW h, h.vehicle \in Vehicles, Knows(h, cert), Untouched(h.vehicle),
         Sole(h, cert, vehicle[h.vehicle])
  PROVE  Sole(h, cert', vehicle'[h.vehicle])
  <1>1. Covered(h.vehicle, vehicle'[h.vehicle], cert') <=> Covered(h.vehicle, vehicle[h.vehicle], cert)
    BY CoveredKept
  <1>2. h.op \in Saving /\ h.step # "insert" => h.cert \in Certs /\ cert'[h.cert] = cert[h.cert]
    BY DEF Knows, Untouched
  <1>3. h.step \in AtCert \cup AtCar => h.op \in Saving /\ h.step # "insert"
    BY DEF Knows, AtCert, AtCar
  <1> QED
    BY <1>1, <1>2, <1>3 DEF Sole, Untouched, Saving, AtCert, AtCar, Certifying, Rejecting

\* A step of a handler keeps what is known of the vehicles it does not touch;
\* one obligation is left for its own.
LEMMA HandlerKeepsSoles ==
  ASSUME IInv, NEW c \in Calls, NEW h, Becomes(c, h), UNCHANGED sweep,
         shaken \subseteq shaken', h.vehicle \in {call[c].vehicle, NoVehicle},
         \A w \in Vehicles \ {call[c].vehicle} : Untouched(w),
         call[c].vehicle \in Vehicles \ shaken' =>
           IF h.vehicle = call[c].vehicle
             THEN Sole(h, cert', vehicle'[h.vehicle])
             ELSE Covered(call[c].vehicle, vehicle'[call[c].vehicle], cert')
  PROVE  SolesOK' /\ RestOK'
  <1> USE CertificationsAssumption
  <1>1. TypeOK /\ CallsOK /\ OverlapsAreShaken /\ SolesOK /\ RestOK
    BY DEF IInv, Inv
  <1>2. /\ call'[c] = h
        /\ \A e \in Calls \ {c} : call'[e] = call[e]
    BY <1>1 DEF TypeOK, Becomes
  <1>3. ASSUME NEW e \in Calls, call'[e].vehicle \in Vehicles \ shaken'
        PROVE  Sole(call'[e], cert', vehicle'[call'[e].vehicle])
    <2>1. CASE e = c
      BY <1>2, <1>3, <2>1
    <2>2. CASE e # c
      <3>1. call'[e] = call[e] /\ call[e].vehicle \in Vehicles \ shaken
        BY <1>2, <1>3, <2>2
      <3>2. call[e].vehicle # call[c].vehicle
        BY <1>1, <2>2, <3>1 DEF OverlapsAreShaken, Works
      <3>3. Knows(call[e], cert) /\ Sole(call[e], cert, vehicle[call[e].vehicle])
        BY <1>1, <3>1 DEF CallsOK, SolesOK
      <3> QED
        BY <3>1, <3>2, <3>3, SoleKept
    <2> QED
      BY <2>1, <2>2
  <1>4. ASSUME NEW v \in Vehicles \ (shaken' \cup sweep'.cars), \A e \in Calls : ~ Works(e, v)'
        PROVE  Covered(v, vehicle'[v], cert')
    <2>1. CASE v = call[c].vehicle
      BY <1>2, <1>4, <2>1 DEF Works
    <2>2. CASE v # call[c].vehicle
      <3>1. \A e \in Calls : ~ Works(e, v)
        BY <1>2, <1>4, <2>2 DEF Works
      <3>2. Covered(v, vehicle[v], cert)
        BY <1>1, <1>4, <3>1 DEF RestOK
      <3> QED
        BY <1>4, <2>2, <3>2, CoveredKept
    <2> QED
      BY <2>1, <2>2
  <1> QED
    BY <1>3, <1>4 DEF SolesOK, RestOK

-----------------------------------------------------------------------------
LEMMA StartKeepsSoles ==
  ASSUME IInv, NEW c \in Calls, NEW h \in CallRecord, Start(c, h),
         h.vehicle \in Vehicles /\ Covered(h.vehicle, vehicle[h.vehicle], cert)
           => Sole(h, cert, vehicle[h.vehicle])
  PROVE  SolesOK' /\ RestOK'
  <1> USE CertificationsAssumption
  <1>1. TypeOK /\ SolesOK /\ RestOK
    BY DEF IInv, Inv
  <1>2. /\ vehicle' = vehicle /\ cert' = cert /\ sweep' = sweep
        /\ call[c] = Idle /\ call' = [call EXCEPT ![c] = h]
        /\ shaken' = shaken \cup ({h.vehicle} \cap (Busy \ {NoVehicle}))
    BY DEF Start, tables
  <1>3. /\ call'[c] = h
        /\ \A e \in Calls \ {c} : call'[e] = call[e]
    BY <1>1, <1>2 DEF TypeOK
  <1>4. ASSUME h.vehicle \in Vehicles \ shaken'
        PROVE  Covered(h.vehicle, vehicle[h.vehicle], cert)
    <2>1. h.vehicle \notin Busy /\ h.vehicle \notin shaken
      BY <1>2, <1>4
    <2> QED
      BY <1>1, <1>4, <2>1 DEF RestOK, Busy, Works
  <1>5. SolesOK'
    BY <1>1, <1>2, <1>3, <1>4 DEF SolesOK
  <1>6. RestOK'
    <2> SUFFICES ASSUME NEW v \in Vehicles \ (shaken' \cup sweep'.cars),
                        \A e \in Calls : ~ Works(e, v)'
                 PROVE  Covered(v, vehicle'[v], cert')
      BY DEF RestOK
    <2>1. \A e \in Calls : ~ Works(e, v)
      BY <1>2, <1>3, IdleIsARecord DEF Works
    <2> QED
      BY <1>1, <1>2, <2>1 DEF RestOK
  <1> QED
    BY <1>5, <1>6

LEMMA ArrivalKeepsSoles ==
  ASSUME IInv, NEW c \in Calls, Arrive(c)
  PROVE  SolesOK' /\ RestOK'
  <1> USE CertificationsAssumption, IdleIsARecord
  <1>1. TypeOK
    BY DEF IInv, Inv
  <1>2. ASSUME NEW step \in Steps, NEW op \in {"submit", "approve", "reject", "delete", "remove"},
               NEW k \in Certs \cup {NoCert}, NEW v \in Vehicles \cup {NoVehicle}, NEW paper \in Paper,
               Start(c, Handler(step, op, k, v, paper)),
               \/ step = "insert" /\ op = "submit"
               \/ step = "delete" /\ op \in {"delete", "remove"}
               \/ /\ step = "cert_read" /\ Stored(k)
                  /\ \/ op = "approve" /\ cert[k].status # "approved" /\ paper.status = "approved"
                     \/ op = "reject" /\ paper.status = "rejected"
        PROVE  SolesOK' /\ RestOK'
    <2> DEFINE h == Handler(step, op, k, v, paper)
    <2>1. /\ h \in CallRecord
          /\ h.step = step /\ h.op = op /\ h.cert = k /\ h.vehicle = v
          /\ h.paper = paper /\ h.dirty = {}
      BY ONLY <1>2, HandlerFields
    <2>2. Start(c, h)
      BY <1>2
    <2> HIDE DEF h
    <2>3. Covered(h.vehicle, vehicle[h.vehicle], cert) => Sole(h, cert, vehicle[h.vehicle])
      BY <1>2, <2>1 DEF Sole, AtCert, AtCar, Stored, Certifying, Rejecting
    <2> QED
      BY <2>1, <2>2, <2>3, StartKeepsSoles
  <1>3. ASSUME NEW k \in Certs
        PROVE  cert[k].vehicle \in Vehicles \cup {NoVehicle} /\ cert[k].expiry \in MaybeDate
    BY <1>1 DEF TypeOK, CertRow
  <1>4. ASSUME NEW k \in Certs, NEW v \in Subjects[k], Submit(c, k, v)
        PROVE  SolesOK' /\ RestOK'
    <2>1. Start(c, Handler("insert", "submit", k, v, Blank)) /\ v \in Vehicles \cup {NoVehicle}
      BY <1>4 DEF Submit
    <2> QED
      BY <1>2, <2>1 DEF Steps
  <1>5. ASSUME NEW k \in Certs, NEW d \in MaybeDate, AdminApprove(c, k, d)
        PROVE  SolesOK' /\ RestOK'
    <2> DEFINE paper == [ status |-> "approved", expiry |-> IF d # NoDate THEN d ELSE cert[k].expiry ]
    <2>1. /\ Stored(k) /\ cert[k].status # "approved"
          /\ Start(c, Handler("cert_read", "approve", k, cert[k].vehicle, paper))
      BY <1>5 DEF AdminApprove
    <2>2. paper \in Paper /\ paper.status = "approved"
      BY <1>3 DEF Paper, Decisions
    <2> HIDE DEF paper
    <2> QED
      BY <1>2, <1>3, <2>1, <2>2 DEF Steps
  <1>6. ASSUME NEW k \in Certs, AdminReject(c, k)
        PROVE  SolesOK' /\ RestOK'
    <2> DEFINE paper == [ status |-> "rejected", expiry |-> cert[k].expiry ]
    <2>1. Stored(k) /\ Start(c, Handler("cert_read", "reject", k, cert[k].vehicle, paper))
      BY <1>6 DEF AdminReject
    <2>2. paper \in Paper /\ paper.status = "rejected"
      BY <1>3 DEF Paper, Decisions
    <2> HIDE DEF paper
    <2> QED
      BY <1>2, <1>3, <2>1, <2>2 DEF Steps
  <1>7. ASSUME NEW v \in Vehicles, NEW op \in {"delete", "remove"}, FindToDelete(c, v, op)
        PROVE  SolesOK' /\ RestOK'
    <2>1. Start(c, Handler("delete", op, NoCert, v, Blank))
      BY <1>7 DEF FindToDelete
    <2> QED
      BY <1>2, <2>1 DEF Steps
  <1> QED
    BY <1>4, <1>5, <1>6, <1>7 DEF Arrive

-----------------------------------------------------------------------------
\* A handler alone with its vehicle: the vehicle exists, and what it knows holds.
LEMMA Alone ==
  ASSUME IInv, NEW c \in Calls, call[c].vehicle \in Vehicles \ shaken
  PROVE  /\ Sole(call[c], cert, vehicle[call[c].vehicle])
         /\ vehicle[call[c].vehicle].row = "present" \/ At(c, "audit")
  BY DEF IInv, Inv, SolesOK, OverlapsAreShaken, Works

\* A write of the certificate k of a vehicle leaves the others alone.
LEMMA CertOfItsVehicle ==
  ASSUME NEW v, NEW k \in Certs, vehicle' = vehicle,
         cert[k].vehicle \in {v, NoVehicle}, cert'[k].vehicle = v,
         \A j \in Certs \ {k} : cert'[j] = cert[j]
  PROVE  \A w \in Vehicles \ {v} : Untouched(w)
  BY CertificationsAssumption DEF Untouched

LEMMA InsertKeepsSoles ==
  ASSUME IInv, NEW c \in Calls, InsertCert(c)
  PROVE  SolesOK' /\ RestOK'
  <1> USE CertificationsAssumption
  <1> DEFINE k == call[c].cert
             v == call[c].vehicle
  <1>1. TypeOK /\ CallsOK /\ RowsOK
    BY DEF IInv, Inv
  <1>2. /\ v \in Vehicles \cup {NoVehicle}
        /\ At(c, "insert") /\ k \in Certs /\ cert[k].status = "never" /\ call[c].op = "submit"
        /\ cert[k].vehicle = NoVehicle
    BY <1>1 DEF TypeOK, CallRecord, InsertCert, CallsOK, Knows, At, RowsOK
  <1>3. vehicle' = vehicle /\ shaken' = shaken /\ sweep' = sweep
    BY DEF InsertCert
  <1>4. CASE Present(v)
    <2>1. /\ cert' = [cert EXCEPT ![k] =
                        [ status |-> "pending_ocr", expiry |-> NoDate, vehicle |-> v ]]
          /\ Goto(c, "ocr")
      BY <1>4 DEF InsertCert
    <2>2. PICK h : /\ Becomes(c, h) /\ h.step = "ocr"
                   /\ h.op = "submit" /\ h.cert = k /\ h.vehicle = v
      BY <1>1, <1>2, <2>1, GotoEffect DEF Steps
    <2>3. /\ cert'[k].status = "pending_ocr" /\ cert'[k].vehicle = v
          /\ \A j \in Certs \ {k} : cert'[j] = cert[j]
      BY <1>1, <1>2, <2>1 DEF TypeOK
    <2>4. \A w \in Vehicles \ {v} : Untouched(w)
      BY <1>2, <1>3, <2>3, CertOfItsVehicle
    <2>5. ASSUME v \in Vehicles \ shaken'
          PROVE  Sole(h, cert', vehicle'[h.vehicle])
      <3>1. Covered(v, vehicle[v], cert)
        BY <1>2, <1>3, <2>5, Alone DEF Sole, At, Certifying, Rejecting, AtCert
      <3>2. Covered(v, vehicle[v], cert')
        BY <1>2, <2>3, <3>1 DEF Covered
      <3> QED
        BY <1>3, <2>2, <2>3, <3>2 DEF Sole, AtCert, AtCar, Certifying, Rejecting
    <2> QED
      BY <1>3, <2>2, <2>4, <2>5, HandlerKeepsSoles
  <1>5. CASE ~ Present(v)
    <2>1. Becomes(c, Idle) /\ cert' = cert
      BY <1>5, FinishEffect DEF InsertCert
    <2>2. v \notin Vehicles \ shaken
      BY <1>2, <1>5, Alone DEF Present, At
    <2>3. \A w \in Vehicles \ {v} : Untouched(w)
      BY <1>3, <2>1 DEF Untouched
    <2> QED
      BY <1>3, <2>1, <2>2, <2>3, IdleIsARecord, HandlerKeepsSoles
  <1> QED
    BY <1>4, <1>5

\* Statements that only read.
LEMMA ReaderKeepsSoles ==
  ASSUME IInv, NEW c \in Calls, OcrAnswers(c) \/ CertRead(c) \/ CarRead(c)
  PROVE  SolesOK' /\ RestOK'
  <1> USE CertificationsAssumption
  <1> DEFINE v == call[c].vehicle
  <1>1. TypeOK /\ CallsOK /\ RowsOK
    BY DEF IInv, Inv
  <1>2. vehicle' = vehicle /\ cert' = cert /\ shaken' = shaken /\ sweep' = sweep
    BY DEF OcrAnswers, CertRead, CarRead, tables
  <1>3. \A w \in Vehicles \ {v} : Untouched(w)
    BY <1>2 DEF Untouched
  <1>4. Knows(call[c], cert)
    BY <1>1 DEF CallsOK
  <1>5. CASE OcrAnswers(c)
    <2>1. PICK h : /\ Becomes(c, h)
                   /\ h.op = call[c].op /\ h.cert = call[c].cert /\ h.vehicle = v
                   /\ h.step \in {"car_read", "cert_read"}
                   /\ h.step = "car_read" => h.paper.status = "approved"
                   /\ h.step = "cert_read" => h.paper.status = "pending_review" \/ v = NoVehicle
      BY <1>1, <1>5, OcrEffect
    <2>2. call[c].op = "submit" /\ call[c].step = "ocr"
      BY <1>4, <1>5 DEF OcrAnswers, Knows, At
    <2>3. ASSUME v \in Vehicles \ shaken'
          PROVE  Sole(h, cert', vehicle'[h.vehicle])
      <3>1. Sole(call[c], cert, vehicle[v]) /\ v # NoVehicle
        BY <1>2, <2>3, Alone
      <3> QED
        BY <1>2, <2>1, <2>2, <3>1 DEF Sole, AtCert, AtCar, Certifying, Rejecting, Decisions
    <2> QED
      BY <1>2, <1>3, <2>1, <2>3, HandlerKeepsSoles
  <1>6. CASE CertRead(c)
    <2>1. PICK h : /\ Becomes(c, h)
                   /\ h.op = call[c].op /\ h.cert = call[c].cert /\ h.vehicle = v
                   /\ h.paper = call[c].paper /\ h.step = "cert_write"
                   /\ Stored(h.cert) =>
                        /\ "row" \notin h.dirty
                        /\ "status" \in h.dirty <=> cert[h.cert].status # h.paper.status
                        /\ "expiry" \in h.dirty <=> cert[h.cert].expiry # h.paper.expiry
      BY <1>1, <1>6, CertReadEffect
    <2>2. call[c].step = "cert_read"
      BY <1>6 DEF CertRead, At
    <2>3. ASSUME v \in Vehicles \ shaken'
          PROVE  Sole(h, cert', vehicle'[h.vehicle])
      <3>1. Sole(call[c], cert, vehicle[v])
        BY <1>2, <2>3, Alone
      <3> QED
        BY <1>2, <2>1, <2>2, <3>1 DEF Sole, AtCert, AtCar, Certifying, Rejecting, Stored
    <2> QED
      BY <1>2, <1>3, <2>1, <2>3, HandlerKeepsSoles
  <1>7. CASE CarRead(c)
    <2>1. PICK h : /\ Becomes(c, h)
                   /\ h.op = call[c].op /\ h.cert = call[c].cert /\ h.vehicle = v
                   /\ h.paper = call[c].paper /\ h.step = "car_write"
                   /\ Present(h.vehicle) =>
                        /\ "row" \notin h.dirty
                        /\ "certified" \in h.dirty <=>
                             vehicle[h.vehicle].certified # CarAfter(h.paper).certified
                        /\ "until" \in h.dirty <=> vehicle[h.vehicle].until # CarAfter(h.paper).until
      BY <1>1, <1>7, CarReadEffect
    <2>2. call[c].step = "car_read"
      BY <1>7 DEF CarRead, At
    <2>3. ASSUME v \in Vehicles \ shaken'
          PROVE  Sole(h, cert', vehicle'[h.vehicle])
      <3>1. Sole(call[c], cert, vehicle[v]) /\ Present(v)
        BY <1>2, <2>2, <2>3, Alone DEF Present, At
      <3> QED
        BY <1>2, <2>1, <2>2, <3>1 DEF Sole, AtCert, AtCar, Certifying, Rejecting
    <2> QED
      BY <1>2, <1>3, <2>1, <2>3, HandlerKeepsSoles
  <1> QED
    BY <1>5, <1>6, <1>7

LEMMA CertWriteKeepsSoles ==
  ASSUME IInv, NEW c \in Calls, CertWrite(c)
  PROVE  SolesOK' /\ RestOK'
  <1> USE CertificationsAssumption
  <1> DEFINE k == call[c].cert
             v == call[c].vehicle
             paper == call[c].paper
             dirty == call[c].dirty
             inserted == "row" \in dirty
  <1>1. TypeOK /\ CallsOK /\ RowsOK
    BY DEF IInv, Inv
  <1>2. /\ v \in Vehicles \cup {NoVehicle} /\ paper \in Paper
        /\ call[c].step = "cert_write" /\ k \in Certs /\ call[c].op \in Saving
        /\ cert[k].vehicle = v
    BY <1>1 DEF TypeOK, CallRecord, CertWrite, CallsOK, Knows, At, AtCert, AtCar
  <1>3. vehicle' = vehicle /\ shaken' = shaken /\ sweep' = sweep
    BY DEF CertWrite
  <1>4. CASE inserted /\ ~ Present(v)
    <2>1. Becomes(c, Idle) /\ cert' = cert
      BY <1>4, FinishEffect DEF CertWrite
    <2>2. v \notin Vehicles \ shaken
      BY <1>2, <1>4, Alone DEF Sole
    <2>3. \A w \in Vehicles \ {v} : Untouched(w)
      BY <1>3, <2>1 DEF Untouched
    <2> QED
      BY <1>3, <2>1, <2>2, <2>3, IdleIsARecord, HandlerKeepsSoles
  <1>5. CASE ~ (inserted /\ ~ Present(v))
    <2>1. /\ cert' = IF ~ inserted /\ ~ Stored(k) THEN cert
                     ELSE [cert EXCEPT
                       ![k].status = IF inserted \/ "status" \in dirty THEN paper.status ELSE @,
                       ![k].expiry = IF inserted \/ "expiry" \in dirty THEN paper.expiry ELSE @]
          /\ Goto(c, AfterCert(c))
      BY <1>5 DEF CertWrite
    <2>2. /\ cert'[k].vehicle = v
          /\ \A j \in Certs \ {k} : cert'[j] = cert[j]
      <3>1. cert \in [Certs -> CertRow] /\ cert[k] \in CertRow
        BY <1>1, <1>2 DEF TypeOK
      <3>2. cert'[k].vehicle = v
        BY <1>2, <2>1, <3>1 DEF CertRow
      <3>3. ASSUME NEW j \in Certs \ {k} PROVE cert'[j] = cert[j]
        BY <2>1, <3>1
      <3> QED
        BY <3>2, <3>3
    <2>3. \A w \in Vehicles \ {v} : Untouched(w)
      BY <1>2, <1>3, <2>2, CertOfItsVehicle
    <2>4. AfterCert(c) \in {"idle", "car_read", "audit"}
      BY DEF AfterCert
    <2>5. PICK h : /\ Becomes(c, h) /\ h.step = AfterCert(c)
                   /\ AfterCert(c) = "idle" => h = Idle
                   /\ AfterCert(c) # "idle" =>
                        /\ h.op = call[c].op /\ h.cert = k /\ h.vehicle = v
                        /\ AfterCert(c) # "audit" => h.paper = paper
      BY <1>1, <2>1, <2>4, GotoEffect DEF Steps
    <2>6. h.vehicle \in {v, NoVehicle}
      BY <2>5, IdleIsARecord
    <2>7. ASSUME v \in Vehicles \ shaken'
          PROVE  IF h.vehicle = v THEN Sole(h, cert', vehicle'[h.vehicle])
                 ELSE Covered(v, vehicle'[v], cert')
      <3>1. Sole(call[c], cert, vehicle[v]) /\ v # NoVehicle
        BY <1>3, <2>7, Alone
      <3>2. /\ ~ inserted /\ cert[k].status \in Decisions
            /\ "status" \in dirty <=> cert[k].status # paper.status
            /\ "expiry" \in dirty <=> cert[k].expiry # paper.expiry
        BY <1>2, <3>1 DEF Sole, AtCert
      <3>3. cert'[k].status = paper.status /\ cert'[k].expiry = paper.expiry
        BY <1>1, <1>2, <2>1, <3>2 DEF TypeOK, CertRow, Stored
      <3>4. ~ Certifying(call[c]) /\ cert[k].status # "approved" =>
              Covered(v, vehicle'[v], cert')
        <4>1. ~ Certifying(call[c]) => Covered(v, vehicle[v], cert)
          BY <1>2, <3>1 DEF Sole, Rejecting, AtCar
        <4> QED
          BY <1>3, <2>2, <4>1 DEF Covered
      <3>5. CASE call[c].op = "submit"
        <4>1. h.vehicle = NoVehicle
          BY <2>5, <3>5, IdleIsARecord DEF AfterCert
        <4>2. CASE Certifying(call[c])
          <5>1. vehicle[v].until = paper.expiry /\ paper.status = "approved"
            BY <3>1, <4>2 DEF Sole, Certifying
          <5>2. Covered(v, vehicle'[v], cert')
            BY <1>2, <1>3, <2>2, <3>3, <5>1 DEF Covered
          <5> QED
            BY <3>1, <4>1, <5>2
        <4>3. CASE ~ Certifying(call[c])
          <5>1. cert[k].status = "pending_ocr"
            BY <1>2, <3>1, <3>5 DEF Sole
          <5> QED
            BY <3>1, <3>4, <4>1, <4>3, <5>1
        <4> QED
          BY <4>2, <4>3
      <3>6. CASE call[c].op = "approve"
        <4>1. h.step = "car_read" /\ h.op = "approve" /\ h.cert = k /\ h.vehicle = v /\ h.paper = paper
          BY <2>5, <3>1, <3>6 DEF AfterCert
        <4>2. paper.status = "approved" /\ Covered(v, vehicle'[v], cert')
          BY <1>2, <3>1, <3>4, <3>6 DEF Sole, AtCert, Certifying
        <4> QED
          BY <3>3, <4>1, <4>2 DEF Sole, AtCert, AtCar, Certifying, Rejecting
      <3>7. CASE call[c].op = "reject"
        <4>1. h.step = "car_read" /\ h.op = "reject" /\ h.cert = k /\ h.vehicle = v /\ h.paper = paper
          BY <2>5, <3>1, <3>7 DEF AfterCert
        <4>2. paper.status = "rejected"
          BY <1>2, <3>1, <3>7 DEF Sole
        <4> QED
          BY <3>3, <4>1, <4>2 DEF Sole, AtCert, AtCar, Certifying, Rejecting
      <3> QED
        BY <1>2, <3>5, <3>6, <3>7 DEF Saving
    <2> QED
      BY <1>3, <2>3, <2>5, <2>6, <2>7, HandlerKeepsSoles
  <1> QED
    BY <1>4, <1>5

LEMMA CarWriteKeepsSoles ==
  ASSUME IInv, NEW c \in Calls, CarWrite(c)
  PROVE  SolesOK' /\ RestOK'
  <1> USE CertificationsAssumption
  <1> DEFINE k == call[c].cert
             v == call[c].vehicle
             paper == call[c].paper
             car == CarAfter(paper)
             dirty == call[c].dirty
             inserted == "row" \in dirty
             step == IF call[c].op = "submit" THEN "cert_read" ELSE "audit"
  <1>1. TypeOK /\ CallsOK /\ RowsOK
    BY DEF IInv, Inv
  <1>2. /\ v \in Vehicles /\ k \in Certs /\ call[c].op \in Saving
        /\ call[c].step = "car_write" /\ cert[k].vehicle = v
    BY <1>1 DEF TypeOK, CallRecord, CarWrite, CallsOK, Knows, At, AtCert, AtCar
  <1>3. cert' = cert /\ shaken' = shaken /\ sweep' = sweep
    BY DEF CarWrite
  <1>4. vehicle' = IF ~ inserted /\ ~ Present(v) THEN vehicle
                   ELSE [vehicle EXCEPT
                     ![v].row = "present",
                     ![v].certified = IF inserted \/ "certified" \in dirty THEN car.certified ELSE @,
                     ![v].until = IF inserted \/ "until" \in dirty THEN car.until ELSE @]
    BY DEF CarWrite
  <1>5. \A w \in Vehicles \ {v} : Untouched(w)
    BY <1>1, <1>2, <1>3, <1>4 DEF TypeOK, Untouched
  <1>6. PICK h : /\ Becomes(c, h) /\ h.step = step
                 /\ h.op = call[c].op /\ h.cert = k /\ h.vehicle = v
                 /\ step # "audit" => h.paper = paper
    <2>1. Goto(c, step) /\ step \in {"cert_read", "audit"}
      BY DEF CarWrite
    <2> QED
      BY <1>1, <2>1, GotoEffect DEF Steps
  <1>7. ASSUME v \in Vehicles \ shaken'
        PROVE  Sole(h, cert', vehicle'[h.vehicle])
    <2>1. Sole(call[c], cert, vehicle[v]) /\ Present(v)
      BY <1>2, <1>3, <1>7, Alone DEF Present, At
    <2>2. /\ ~ inserted
          /\ "certified" \in dirty <=> vehicle[v].certified # car.certified
          /\ "until" \in dirty <=> vehicle[v].until # car.until
      BY <1>2, <2>1 DEF Sole
    <2>3. vehicle'[v].certified = car.certified /\ vehicle'[v].until = car.until
      <3> HIDE DEF car
      <3> QED
        BY <1>1, <1>2, <1>4, <2>1, <2>2 DEF TypeOK, CarRow
    <2>4. CASE call[c].op = "submit"
      <3>1. paper.status = "approved" /\ cert[k].status = "pending_ocr"
        BY <1>2, <2>1, <2>4 DEF Sole, AtCar
      <3>2. vehicle'[v].certified = TRUE /\ vehicle'[v].until = paper.expiry
        BY <2>3, <3>1 DEF CarAfter
      <3>3. h.step = "cert_read" /\ h.op = "submit" /\ h.paper = paper
        BY <1>6, <2>4
      <3> QED
        BY <1>3, <1>6, <3>1, <3>2, <3>3 DEF Sole, AtCert, AtCar, Certifying, Rejecting, Decisions
    <2>5. CASE call[c].op = "approve"
      <3>1. /\ paper.status = "approved"
            /\ cert[k].status = "approved" /\ cert[k].expiry = paper.expiry
        BY <1>2, <2>1, <2>5 DEF Sole, AtCar
      <3>2. vehicle'[v].until = paper.expiry
        BY <2>3, <3>1 DEF CarAfter
      <3>3. Covered(v, vehicle'[v], cert')
        BY <1>2, <1>3, <3>1, <3>2 DEF Covered
      <3>4. h.step = "audit" /\ h.op = "approve"
        BY <1>6, <2>5
      <3> QED
        BY <1>6, <3>3, <3>4 DEF Sole, AtCert, AtCar, Certifying, Rejecting
    <2>6. CASE call[c].op = "reject"
      <3>1. paper.status = "rejected"
        BY <1>2, <2>1, <2>6 DEF Sole
      <3>2. vehicle'[v].certified = FALSE
        BY <2>3, <3>1 DEF CarAfter
      <3>3. Covered(v, vehicle'[v], cert')
        BY <3>2 DEF Covered
      <3>4. h.step = "audit" /\ h.op = "reject"
        BY <1>6, <2>6
      <3> QED
        BY <1>6, <3>3, <3>4 DEF Sole, AtCert, AtCar, Certifying, Rejecting
    <2> QED
      BY <1>2, <2>4, <2>5, <2>6 DEF Saving
  <1> QED
    BY <1>3, <1>5, <1>6, <1>7, HandlerKeepsSoles

LEMMA DeleteKeepsSoles ==
  ASSUME IInv, NEW c \in Calls, DeleteVehicle(c)
  PROVE  SolesOK' /\ RestOK'
  <1> USE CertificationsAssumption
  <1> DEFINE v == call[c].vehicle
             step == IF call[c].op = "remove" THEN "audit" ELSE "idle"
  <1>1. TypeOK /\ CallsOK
    BY DEF IInv, Inv
  <1>2. v \in Vehicles /\ call[c].op \in {"delete", "remove"}
    BY <1>1 DEF DeleteVehicle, CallsOK, Knows, At
  <1>3. sweep' = sweep /\ shaken' = shaken
    BY DEF DeleteVehicle
  <1>4. /\ vehicle'[v].certified = FALSE
        /\ \A w \in Vehicles \ {v} : vehicle'[w] = vehicle[w]
    BY <1>1, <1>2 DEF DeleteVehicle, TypeOK
  <1>5. ASSUME NEW j \in Certs
        PROVE  cert'[j].vehicle = cert[j].vehicle /\ (cert[j].vehicle # v => cert'[j] = cert[j])
    BY <1>1 DEF DeleteVehicle, TypeOK, CertRow
  <1>6. \A w \in Vehicles \ {v} : Untouched(w)
    BY <1>4, <1>5 DEF Untouched
  <1>7. Goto(c, step) /\ step \in {"audit", "idle"}
    BY DEF DeleteVehicle
  <1>8. PICK h : /\ Becomes(c, h) /\ h.step = step
                 /\ step = "idle" => h = Idle
                 /\ step # "idle" => h.op = call[c].op /\ h.vehicle = v
    BY <1>1, <1>7, GotoEffect DEF Steps
  <1>9. Covered(v, vehicle'[v], cert')
    BY <1>4 DEF Covered
  <1>10. CASE step = "idle"
    BY <1>2, <1>3, <1>6, <1>8, <1>9, <1>10, IdleIsARecord, HandlerKeepsSoles
  <1>11. CASE step = "audit"
    <2>1. h.step = "audit" /\ h.op = "remove" /\ h.vehicle = v
      BY <1>8, <1>11
    <2>2. Sole(h, cert', vehicle'[h.vehicle])
      BY <1>9, <2>1 DEF Sole, AtCert, AtCar, Certifying, Rejecting
    <2> QED
      BY <1>3, <1>6, <1>8, <2>1, <2>2, HandlerKeepsSoles
  <1> QED
    BY <1>7, <1>10, <1>11

LEMMA EndKeepsSoles ==
  ASSUME IInv, NEW c \in Calls, RecordAudit(c) \/ Fail(c)
  PROVE  SolesOK' /\ RestOK'
  <1> USE CertificationsAssumption
  <1> DEFINE v == call[c].vehicle
  <1>1. /\ vehicle' = vehicle /\ cert' = cert /\ sweep' = sweep /\ shaken \subseteq shaken'
        /\ Becomes(c, Idle)
    BY FinishEffect DEF RecordAudit, Fail, tables
  <1>2. \A w \in Vehicles \ {v} : Untouched(w)
    BY <1>1 DEF Untouched
  <1>3. ASSUME v \in Vehicles \ shaken'
        PROVE  Covered(v, vehicle'[v], cert')
    <2>1. CASE RecordAudit(c)
      <3>1. Sole(call[c], cert, vehicle[v])
        BY <1>1, <1>3, Alone
      <3> QED
        BY <1>1, <2>1, <3>1 DEF RecordAudit, At, Sole, AtCert, AtCar, Certifying, Rejecting
    <2>2. CASE Fail(c)
      BY <1>3, <2>2 DEF Fail
    <2> QED
      BY <2>1, <2>2
  <1>4. v \in Vehicles \ shaken' => Idle.vehicle # v
    BY IdleIsARecord
  <1> QED
    BY <1>1, <1>2, <1>3, <1>4, IdleIsARecord, HandlerKeepsSoles

-----------------------------------------------------------------------------
\* A step that no handler takes leaves the vehicles of handlers alone; what else
\* it touches it decertifies, or keeps for the nightly job to decertify.
LEMMA BackgroundKeepsSoles ==
  ASSUME IInv, UNCHANGED call, shaken \subseteq shaken',
         \A v \in Vehicles \ shaken' :
           \/ Untouched(v) /\ (v \in sweep.cars => v \in sweep'.cars)
           \/ /\ \A c \in Calls : ~ Works(c, v)
              /\ v \in sweep'.cars \/ ~ vehicle'[v].certified
  PROVE  SolesOK' /\ RestOK'
  <1>1. SolesOK /\ RestOK /\ CallsOK
    BY DEF IInv, Inv
  <1>2. ASSUME NEW c \in Calls, call[c].vehicle \in Vehicles \ shaken'
        PROVE  Sole(call[c], cert', vehicle'[call[c].vehicle])
    <2>1. Untouched(call[c].vehicle)
      BY <1>2 DEF Works
    <2>2. Knows(call[c], cert) /\ Sole(call[c], cert, vehicle[call[c].vehicle])
      BY <1>1, <1>2 DEF CallsOK, SolesOK
    <2> QED
      BY <1>2, <2>1, <2>2, SoleKept
  <1>3. ASSUME NEW v \in Vehicles \ (shaken' \cup sweep'.cars), \A c \in Calls : ~ Works(c, v)
        PROVE  Covered(v, vehicle'[v], cert')
    <2>1. CASE Untouched(v) /\ v \notin sweep.cars
      <3>1. Covered(v, vehicle[v], cert)
        BY <1>1, <1>3, <2>1 DEF RestOK
      <3> QED
        BY <1>3, <2>1, <3>1, CoveredKept
    <2>2. CASE ~ vehicle'[v].certified
      BY <2>2 DEF Covered
    <2> QED
      BY <1>3, <2>1, <2>2
  <1> QED
    BY <1>2, <1>3 DEF SolesOK, RestOK, Works

LEMMA SweepKeepsSoles ==
  ASSUME IInv, Sweep \/ SweepFails
  PROVE  SolesOK' /\ RestOK'
  <1> USE CertificationsAssumption
  <1>1. TypeOK /\ RowsOK /\ SweepOK /\ OverlapsAreShaken
    BY DEF IInv, Inv
  <1>2. sweep \in Job
    BY <1>1 DEF TypeOK, Job
  <1>3. UNCHANGED tables => \A v \in Vehicles : Untouched(v)
    BY DEF tables, Untouched
  <1>4. CASE SweepStart
    <2>1. UNCHANGED tables /\ call' = call /\ shaken \subseteq shaken' /\ sweep.cars = {}
      BY <1>4 DEF SweepStart, SweepFinds, Asleep
    <2> QED
      BY <1>3, <2>1, BackgroundKeepsSoles
  <1>5. ASSUME NEW k \in Certs, SweepRead(k) PROVE SolesOK' /\ RestOK'
    <2>1. UNCHANGED tables /\ call' = call /\ shaken' = shaken /\ sweep'.cars = sweep.cars
      BY <1>2, <1>5 DEF SweepRead, Job
    <2> QED
      BY <1>3, <2>1, BackgroundKeepsSoles
  <1>6. CASE SweepWrite
    <2> DEFINE k == sweep.cert
    <2>1. k \in sweep.todo /\ k \in Certs
      BY <1>1, <1>2, <1>6 DEF SweepWrite, SweepOK, Job
    <2>2. vehicle' = vehicle /\ call' = call
      BY <1>6 DEF SweepWrite
    <2>3. CASE sweep.save = "insert" => Present(cert[k].vehicle)
      <3>1. /\ \A j \in Certs \ {k} : cert'[j] = cert[j]
            /\ cert'[k].vehicle = cert[k].vehicle
            /\ shaken' = shaken
            /\ sweep'.cars = sweep.cars \cup ({cert[k].vehicle} \ {NoVehicle})
        <4>1. /\ cert' = IF sweep.save = "insert" \/ (sweep.save = "update" /\ Stored(k))
                         THEN [cert EXCEPT ![k].status = "expired"] ELSE cert
              /\ sweep' = [sweep EXCEPT !.step = "next", !.cert = NoCert, !.save = "none",
                             !.todo = @ \ {k}, !.cars = @ \cup ({cert[k].vehicle} \ {NoVehicle})]
              /\ shaken' = shaken
          BY <1>6, <2>3 DEF SweepWrite
        <4>2. cert[k] \in CertRow
          BY <1>1, <2>1 DEF TypeOK
        <4>3. cert'[k].vehicle = cert[k].vehicle /\ \A j \in Certs \ {k} : cert'[j] = cert[j]
          BY <1>1, <2>1, <4>1, <4>2 DEF TypeOK, CertRow
        <4>4. sweep'.cars = sweep.cars \cup ({cert[k].vehicle} \ {NoVehicle})
          BY <1>2, <4>1 DEF Job
        <4> QED
          BY <4>1, <4>3, <4>4
      <3>2. \A v \in Vehicles : v # cert[k].vehicle => Untouched(v)
        BY <2>2, <3>1 DEF Untouched
      <3>3. \A v \in Vehicles \ shaken : v = cert[k].vehicle => \A c \in Calls : ~ Works(c, v)
        BY <1>1, <2>1 DEF OverlapsAreShaken, Swept
      <3> QED
        BY <2>2, <3>1, <3>2, <3>3, BackgroundKeepsSoles
    <2>4. CASE ~ (sweep.save = "insert" => Present(cert[k].vehicle))
      <3>1. cert' = cert /\ shaken' = shaken \cup (Busy \ {NoVehicle})
        BY <1>6, <2>4 DEF SweepWrite
      <3>2. sweep.cars \subseteq Busy /\ sweep.cars \subseteq Vehicles
        BY <1>2 DEF Busy, Job
      <3> QED
        BY <1>3, <2>2, <3>1, <3>2, BackgroundKeepsSoles DEF tables
    <2> QED
      BY <2>3, <2>4
  <1>7. CASE SweepVehicles
    <2>1. cert' = cert /\ call' = call /\ shaken' = shaken
      BY <1>7 DEF SweepVehicles
    <2>2. ASSUME NEW v \in Vehicles \ sweep.cars
          PROVE  Untouched(v)
      BY <1>7, <2>1, <2>2 DEF SweepVehicles, Untouched
    <2>3. ASSUME NEW v \in (Vehicles \cap sweep.cars) \ shaken
          PROVE  ~ vehicle'[v].certified /\ \A c \in Calls : ~ Works(c, v)
      <3>1. vehicle[v] \in CarRow
        BY <1>1 DEF TypeOK
      <3>2. ~ vehicle'[v].certified
        <4>1. CASE Present(v)
          BY <1>7, <2>3, <3>1, <4>1 DEF SweepVehicles, CarRow
        <4>2. CASE ~ Present(v)
          BY <1>1, <1>7, <2>3, <4>2 DEF SweepVehicles, RowsOK, Present
        <4> QED
          BY <4>1, <4>2
      <3> QED
        BY <1>1, <2>3, <3>2 DEF OverlapsAreShaken, Swept
    <2> QED
      BY <2>1, <2>2, <2>3, BackgroundKeepsSoles
  <1>8. CASE Remind
    <2>1. UNCHANGED tables /\ call' = call /\ shaken' = shaken /\ sweep.cars = {}
      BY <1>1, <1>8 DEF Remind, SweepOK
    <2> QED
      BY <1>3, <2>1, BackgroundKeepsSoles
  <1>9. CASE SweepFails
    <2>1. UNCHANGED tables /\ call' = call /\ shaken' = shaken \cup (Busy \ {NoVehicle})
      BY <1>9 DEF SweepFails
    <2>2. sweep.cars \subseteq Busy /\ sweep.cars \subseteq Vehicles
      BY <1>2 DEF Busy, Job
    <2> QED
      BY <1>3, <2>1, <2>2, BackgroundKeepsSoles
  <1> QED
    BY <1>4, <1>5, <1>6, <1>7, <1>8, <1>9 DEF Sweep

LEMMA RestKeepsSoles ==
  ASSUME IInv, DayPasses \/ (\E v \in Vehicles : CreateVehicle(v)) \/ Restart \/ UNCHANGED vars
  PROVE  SolesOK' /\ RestOK'
  <1> USE CertificationsAssumption
  <1>1. TypeOK /\ RowsOK /\ RestOK
    BY DEF IInv, Inv
  <1>2. CASE DayPasses \/ UNCHANGED vars
    <2>1. UNCHANGED <<vehicle, cert, call, shaken, sweep>>
      BY <1>2 DEF DayPasses, vars, tables
    <2> QED
      BY <2>1, BackgroundKeepsSoles DEF Untouched
  <1>3. ASSUME NEW v \in Vehicles, CreateVehicle(v) PROVE SolesOK' /\ RestOK'
    <2>1. UNCHANGED <<cert, call, shaken, sweep>>
      BY <1>3 DEF CreateVehicle
    <2>2. \A w \in Vehicles : vehicle'[w].certified = vehicle[w].certified
                              /\ vehicle'[w].until = vehicle[w].until
      BY <1>1, <1>3 DEF CreateVehicle, TypeOK, CarRow
    <2> QED
      BY <2>1, <2>2, BackgroundKeepsSoles DEF Untouched
  <1>4. CASE Restart
    <2>1. /\ vehicle' = vehicle /\ cert' = cert
          /\ \A c \in Calls : call'[c] = Idle
          /\ shaken' = shaken \cup (Busy \ {NoVehicle})
      BY <1>4 DEF Restart, tables
    <2>2. SolesOK'
      BY <2>1, IdleIsARecord DEF SolesOK
    <2>3. RestOK'
      <3> SUFFICES ASSUME NEW v \in Vehicles \ shaken'
                   PROVE  Covered(v, vehicle'[v], cert')
        BY DEF RestOK
      <3>1. v \notin shaken /\ v \notin Busy
        BY <2>1
      <3> QED
        BY <1>1, <2>1, <3>1 DEF RestOK, Busy, Works
    <2> QED
      BY <2>2, <2>3
  <1> QED
    BY <1>2, <1>3, <1>4

LEMMA NextKeepsIInv == IInv /\ [Next]_vars => IInv'
  <1> SUFFICES ASSUME IInv, [Next]_vars PROVE IInv'
    OBVIOUS
  <1>1. Inv'
    BY NextKeepsInv DEF IInv
  <1>2. SolesOK' /\ RestOK'
    BY ArrivalKeepsSoles, InsertKeepsSoles, ReaderKeepsSoles, CertWriteKeepsSoles,
       CarWriteKeepsSoles, DeleteKeepsSoles, EndKeepsSoles, SweepKeepsSoles, RestKeepsSoles
       DEF Next, Continue
  <1> QED
    BY <1>1, <1>2 DEF IInv

\* A certified vehicle has the approved certificate whose date it shows, unless
\* handlers of it overlapped, failed half way or died: whatever the order of the
\* saves of submissions, of both decisions of an admin and of the nightly job.
THEOREM CoverIsReal == Spec => []CertifiedHasCertificate
  <1>1. Init => IInv
    BY InitIInv
  <1>2. IInv /\ [Next]_vars => IInv'
    BY NextKeepsIInv
  <1>3. IInv => CertifiedHasCertificate
    BY DEF IInv, RestOK, Covered, CertifiedHasCertificate, Backs, Busy, Works
  <1> QED
    BY <1>1, <1>2, <1>3, PTL DEF Spec
=============================================================================
