------------------------------ MODULE Onboarding ------------------------------
(***************************************************************************)
(* The profile page of a driver-to-be: his cars and documents as the page  *)
(* shows them, the wizards that add a car (a driver's first one starts     *)
(* with the licence), the photo that is analysed while he goes on, and the *)
(* server that answers.  The steps of a wizard are unmounted when it is    *)
(* closed, and only then; the wizard and the page never are, and go on     *)
(* with what they were waiting for.                                        *)
(***************************************************************************)
EXTENDS Naturals, FiniteSets, SequencesExt

CONSTANTS
  MaxCars,      \* bound: cars registered
  MaxPhotos,    \* bound: photos taken
  MaxRequests,  \* bound: requests under way
  MaxDocs,      \* bound: documents handed in
  MaxClicks     \* bound: what the user does, and the answers that are lost

ASSUME OnboardingAssumption ==
  MaxCars >= 1 /\ {MaxCars, MaxPhotos, MaxRequests, MaxDocs, MaxClicks} \subseteq Nat

VARIABLES
  cars,     \* vehicles: the photo each was registered with, and the photo of its plate
  garage,   \* the cars that have not been deleted
  docs,     \* the documents handed in
  driver,   \* users.is_driver
  page,     \* profile.vue
  wizard,   \* DriverOnboardingWizard, AddVehicleWizard and the step that is mounted
  requests, \* requests and answers under way
  clicks,
  unsure,   \* history: the parts of the page that missed something
  hasty     \* history: what the user did not wait for, or never heard of

wizard_vars == <<cars, garage, docs, driver, page, wizard, requests, clicks, unsure, hasty>>

-----------------------------------------------------------------------------
CarIds == 1..MaxCars
Photos == 0..MaxPhotos
\* What /certifications/me says: the documents, and the cars they are for.
Certs == [docs : 0..MaxDocs, cars : SUBSET CarIds]
NoCerts == [docs |-> 0, cars |-> {}]
Page == [cars : SUBSET CarIds, certs : Certs, has_certs : BOOLEAN, driver : BOOLEAN, saving : BOOLEAN]

Steps == {"license", "vehicle", "insurance"}
Papers == {"license", "insurance"}
\* sending: the steps that wait for an answer; passed: the documents that were not rejected.
\* shots: the photos taken so far; photo: the file; read: the photo whose plate is in the form; ready: it is shown.
Wizard == [ open : {"no", "driver", "add"}, step : Steps, created : 0..MaxCars,
            passed : SUBSET Papers, sending : SUBSET Steps,
            shots : Photos, photo : Photos, read : Photos, ready : BOOLEAN ]
\* reset, and the steps as they are mounted.
Dialog(open) ==
  [wizard EXCEPT !.open = open, !.step = IF open = "add" THEN "vehicle" ELSE "license", !.created = 0,
                 !.passed = {}, !.sending = {}, !.photo = 0, !.read = 0, !.ready = FALSE]

\* then: what goes on after the answer; heard: by the step that asked, which is still there.
\* license, insurance: of the wizard; upload: of the page.
Kinds == {"cars", "certs", "me", "mode", "delete", "analyze", "create", "upload"} \cup Papers
Request == [ kind : Kinds, then : {"", "created", "finish", "page"}, heard : BOOLEAN,
          photo : Photos, read : Photos, car : 0..MaxCars, flag : BOOLEAN,
          answer : {"none", "ok", "failed"}, certs : Certs ]
Blank == [ kind |-> "me", then |-> "", heard |-> FALSE, photo |-> 0, read |-> 0, car |-> 0,
           flag |-> FALSE, answer |-> "none", certs |-> NoCerts ]

Plain(kind) == [Blank EXCEPT !.kind = kind]
Me(then) == [Plain("me") EXCEPT !.then = then]
Click == clicks < MaxClicks /\ clicks' = clicks + 1
Asks(cs) == Len(requests) + Len(cs) <= MaxRequests /\ requests' = requests \o cs
\* The positions I, in order.
InOrder(I) == { o \in [1..Cardinality(I) -> I] : \A j, k \in DOMAIN o : j < k => o[j] < o[k] }
\* The dialog that asked for cs is closed; nobody ever hears of an analysis.
Kept(cs) == { i \in DOMAIN cs : cs[i].kind # "analyze" }
Closing(cs, asks) ==
  \E o \in InOrder(Kept(cs)) :
    requests' = [j \in DOMAIN o |-> [cs[o[j]] EXCEPT !.heard = FALSE]] \o asks
Waiting(kind) == \E i \in DOMAIN requests : requests[i].kind = kind

\* loadCertifications: nothing to ask for a passenger.
Loads(p) == IF p.driver THEN <<Plain("cars"), Plain("certs")>> ELSE <<Plain("cars")>>
WithoutCerts(p) == IF p.driver THEN p ELSE [p EXCEPT !.certs = NoCerts, !.has_certs = FALSE]

-----------------------------------------------------------------------------
(* What the user does.                                                     *)
\* onDriverModeChange: without a car on the page, the wizard.
Toggle ==
  /\ Click /\ ~page.saving /\ wizard.open = "no"
  /\ IF ~page.driver /\ page.cars = {}
     THEN /\ wizard' = Dialog("driver")
          /\ UNCHANGED <<page, requests>>
     ELSE /\ Asks(<<[Plain("mode") EXCEPT !.flag = ~page.driver]>>)
          /\ page' = [page EXCEPT !.saving = TRUE]
          /\ UNCHANGED wizard
  /\ UNCHANGED <<cars, garage, docs, driver, unsure, hasty>>

AddVehicle ==
  /\ Click /\ page.driver /\ wizard.open = "no"
  /\ wizard' = Dialog("add")
  /\ UNCHANGED <<cars, garage, docs, driver, page, requests, unsure, hasty>>

\* close: the page is not told of a car that was created.
Close ==
  /\ Click /\ wizard.open # "no"
  /\ wizard' = Dialog("no") /\ Closing(requests, << >>)
  /\ unsure' = IF wizard.created # 0 \/ wizard.passed # {} \/ \E kind \in Papers \cup {"create"} : Waiting(kind)
               THEN {"cars", "certs", "driver"} ELSE unsure
  /\ UNCHANGED <<cars, garage, docs, driver, page, hasty>>

\* The file of a document: the licence, or the insurance of the car just created.
SubmitDocument ==
  /\ Click /\ wizard.open # "no" /\ wizard.step \in Papers \ (wizard.passed \cup wizard.sending)
  /\ wizard.step = "insurance" => wizard.created # 0
  /\ Asks(<<[Plain(wizard.step) EXCEPT !.heard = TRUE]>>)
  /\ wizard' = [wizard EXCEPT !.sending = @ \cup {wizard.step}]
  /\ UNCHANGED <<cars, garage, docs, driver, page, unsure, hasty>>

\* The same from a card of the page, in a dialog that stays open until the answer.
Upload ==
  /\ Click /\ page.driver /\ wizard.open = "no" /\ ~Waiting("upload")
  /\ Asks(<<Plain("upload")>>)
  /\ UNCHANGED <<cars, garage, docs, driver, page, wizard, unsure, hasty>>

\* onLicenseNext, onInsuranceNext, and back.
NextStep ==
  /\ Click /\ wizard.open # "no" /\ wizard.step \in wizard.passed
  /\ \/ /\ wizard.step = "license"
        /\ wizard' = [wizard EXCEPT !.step = "vehicle"]
        /\ UNCHANGED requests
     \/ /\ wizard.step = "insurance" /\ wizard.open = "driver"
        /\ Asks(<<Me("finish")>>)
        /\ UNCHANGED wizard
     \/ /\ wizard.step = "insurance" /\ wizard.open = "add"
        /\ Closing(requests, <<Me("page")>>)
        /\ wizard' = Dialog("no")
  /\ UNCHANGED <<cars, garage, docs, driver, page, unsure, hasty>>
Back ==
  /\ Click /\ wizard.open = "driver" /\ wizard.step = "vehicle" /\ "vehicle" \notin wizard.sending
  /\ wizard' = [wizard EXCEPT !.step = "license"]
  /\ UNCHANGED <<cars, garage, docs, driver, page, requests, unsure, hasty>>

\* onFileChange, analyze: also while another photo is being analysed.
Pick ==
  /\ Click /\ wizard.open # "no" /\ wizard.step = "vehicle" /\ "vehicle" \notin wizard.sending
  /\ wizard.shots < MaxPhotos
  /\ wizard' = [wizard EXCEPT !.shots = @ + 1, !.photo = wizard.shots + 1, !.ready = FALSE]
  /\ Asks(<<[Plain("analyze") EXCEPT !.heard = TRUE, !.photo = wizard.shots + 1]>>)
  /\ hasty' = IF Waiting("analyze") THEN hasty \cup {"photo"} ELSE hasty
  /\ UNCHANGED <<cars, garage, docs, driver, page, unsure>>

\* submit: the form as it is by now; the button waits for the answer, not for what the
\* wizard does with it.
\* Mutants: while it is sent; while the photo is analysed.
CanSubmitTwice == wizard.ready
CanSubmitEarly == wizard.photo # 0 /\ "vehicle" \notin wizard.sending
CanSubmit == wizard.ready /\ "vehicle" \notin wizard.sending
SubmitCar ==
  /\ Click /\ wizard.open # "no" /\ wizard.step = "vehicle" /\ CanSubmit
  /\ Asks(<<[Plain("create") EXCEPT !.heard = TRUE, !.photo = wizard.photo, !.read = wizard.read]>>)
  /\ wizard' = [wizard EXCEPT !.sending = @ \cup {"vehicle"}]
  /\ hasty' = IF wizard.created # 0 THEN hasty \cup {"submit"} ELSE hasty
  /\ UNCHANGED <<cars, garage, docs, driver, page, unsure>>

\* askDelete, removeVehicle.
Delete(car) ==
  /\ Click /\ car \in page.cars /\ wizard.open = "no"
  /\ Asks(<<[Plain("delete") EXCEPT !.car = car]>>)
  /\ UNCHANGED <<cars, garage, docs, driver, page, wizard, unsure, hasty>>

-----------------------------------------------------------------------------
(* The server.                                                             *)
Reply(i, c) == requests' = [requests EXCEPT ![i] = c]
CertsNow == [docs |-> docs, cars |-> garage]

ServeRead(i) ==
  LET c == requests[i] IN
  /\ c.answer = "none" /\ c.kind \in {"cars", "certs", "me", "analyze"}
  /\ \/ c.kind \in {"cars", "certs"} /\ Reply(i, [c EXCEPT !.answer = "ok", !.certs = CertsNow])
     \/ c.kind = "me" /\ Reply(i, [c EXCEPT !.answer = "ok", !.flag = driver])
     \/ c.kind = "analyze" /\ Reply(i, [c EXCEPT !.answer = "ok", !.read = c.photo])
     \/ c.kind = "analyze" /\ Reply(i, [c EXCEPT !.answer = "ok"])
  /\ UNCHANGED <<cars, garage, docs, driver, page, wizard, clicks, unsure, hasty>>

\* The parts of which the page is about to hear something older.
OlderLoads ==
  { part \in {"cars", "certs"} : \E j \in DOMAIN requests : requests[j].kind = part /\ requests[j].answer = "ok" }
OlderMode(i, d) ==
  { part \in {"driver", "certs"} : d # driver /\ \E j \in DOMAIN requests :
      j # i /\ requests[j].kind \in {"me", "mode"} /\ requests[j].answer = "ok" /\ requests[j].flag # d }

\* What a dialog that was closed had asked for, the page will not load.
Missed(c) == IF c.heard \/ c.kind = "upload" THEN {} ELSE {"cars", "certs", "driver"}
\* Nor a document that its wizard saw rejected, unless the wizard goes on to its end.
Rejected(c, ok) == IF ok \/ c.kind = "upload" THEN {} ELSE {"certs"}

\* createMine: the first car makes a driver.
ServeCreate(i) ==
  LET c == requests[i] IN
  /\ c.kind = "create" /\ c.answer = "none" /\ Len(cars) < MaxCars
  /\ cars' = Append(cars, [photo |-> c.photo, read |-> c.read])
  /\ garage' = garage \cup {Len(cars')}
  /\ driver' = TRUE
  /\ unsure' = unsure \cup OlderLoads \cup OlderMode(i, TRUE) \cup Missed(c)
  /\ Reply(i, [c EXCEPT !.answer = "ok", !.car = Len(cars'), !.flag = ~driver])
  /\ UNCHANGED <<docs, page, wizard, clicks, hasty>>

\* A document is rejected, or not; deleteMine; setDriverMode.
ServeDocument(i) ==
  LET c == requests[i] IN
  /\ c.kind \in Papers \cup {"upload"} /\ c.answer = "none" /\ docs < MaxDocs
  /\ docs' = docs + 1
  /\ \E ok \in BOOLEAN :
       /\ Reply(i, [c EXCEPT !.answer = "ok", !.flag = ok])
       /\ unsure' = unsure \cup OlderLoads \cup Missed(c) \cup Rejected(c, ok)
  /\ UNCHANGED <<cars, garage, driver, page, wizard, clicks, hasty>>
ServeDelete(i) ==
  LET c == requests[i] IN
  /\ c.kind = "delete" /\ c.answer = "none"
  /\ garage' = garage \ {c.car}
  /\ Reply(i, [c EXCEPT !.answer = IF c.car \in garage THEN "ok" ELSE "failed"])
  /\ unsure' = unsure \cup OlderLoads
  /\ UNCHANGED <<cars, docs, driver, page, wizard, clicks, hasty>>
ServeMode(i) ==
  LET c == requests[i]
      ok == c.flag => garage # {} \/ driver
  IN  /\ c.kind = "mode" /\ c.answer = "none"
      /\ driver' = IF ok THEN c.flag ELSE driver
      /\ unsure' = unsure \cup OlderMode(i, driver')
      /\ Reply(i, [c EXCEPT !.answer = IF ok THEN "ok" ELSE "failed"])
      /\ UNCHANGED <<cars, garage, docs, page, wizard, clicks, hasty>>

\* The answer, or the request, is lost.
Lose(i) ==
  /\ Click /\ requests[i].answer # "failed"
  /\ Reply(i, [requests[i] EXCEPT !.answer = "failed"])
  /\ unsure' = {"cars", "certs", "driver"}
  /\ hasty' = IF requests[i].kind = "create" /\ requests[i].answer = "ok" THEN hasty \cup {"lost"} ELSE hasty
  /\ UNCHANGED <<cars, garage, docs, driver, page, wizard>>

-----------------------------------------------------------------------------
(* The answers.                                                            *)
Rest(i) == RemoveAt(requests, i)
\* The page is sure again of a part whose last load is taken, and right, once nothing
\* but loads of the other part is under way.
Sees(i, part, now) ==
  IF now /\ wizard.open = "no"
     /\ \A j \in DOMAIN requests \ {i} : requests[j].kind \in {"cars", "certs"} \ {part}
  THEN unsure \ {part} ELSE unsure

TakeCars(i) ==
  LET c == requests[i] IN
  /\ c.kind = "cars" /\ c.answer = "ok"
  /\ requests' = Rest(i)
  /\ page' = [page EXCEPT !.cars = c.certs.cars]
  /\ unsure' = Sees(i, "cars", c.certs.cars = garage)
  /\ UNCHANGED <<cars, garage, docs, driver, wizard, clicks, hasty>>
TakeCerts(i) ==
  LET c == requests[i] IN
  /\ c.kind = "certs" /\ c.answer = "ok"
  /\ requests' = Rest(i)
  /\ page' = [page EXCEPT !.certs = c.certs, !.has_certs = TRUE]
  /\ unsure' = Sees(i, "certs", c.certs = CertsNow)
  /\ UNCHANGED <<cars, garage, docs, driver, wizard, clicks, hasty>>

\* setUser, when the answer came, and what was waiting for it.
LoadsNothing(p) == << >>   \* mutant
AfterMe(p) == Loads(p)
TakeMe(i) ==
  LET c == requests[i]
      p == IF c.answer = "ok" THEN [page EXCEPT !.driver = c.flag] ELSE page
  IN  /\ c.kind = "me" /\ c.answer # "none"
      /\ \/ /\ c.then = "created"
            /\ requests' = Rest(i) /\ page' = p
            /\ wizard' = [wizard EXCEPT !.step = IF wizard.open = "driver" THEN "insurance" ELSE @]
         \/ /\ c.then = "finish"
            /\ page' = p
            /\ IF wizard.open = "driver"
               THEN wizard' = Dialog("no") /\ Closing(Rest(i), <<Me("page")>>)
               ELSE requests' = Append(Rest(i), Me("page")) /\ UNCHANGED wizard
         \/ /\ c.then = "page"
            /\ requests' = Rest(i) \o AfterMe(p) /\ page' = WithoutCerts(p)
            /\ UNCHANGED wizard
      /\ UNCHANGED <<cars, garage, docs, driver, clicks, unsure, hasty>>

\* The mode as the server answered it.
TakeMode(i) ==
  LET c == requests[i]
      p == [page EXCEPT !.saving = FALSE, !.driver = IF c.answer = "ok" THEN c.flag ELSE page.driver]
  IN  /\ c.kind = "mode" /\ c.answer # "none"
      /\ page' = IF c.answer = "ok" THEN WithoutCerts(p) ELSE p
      /\ requests' = IF c.answer = "ok" /\ c.flag THEN Append(Rest(i), Plain("certs")) ELSE Rest(i)
      /\ UNCHANGED <<cars, garage, docs, driver, wizard, clicks, unsure, hasty>>

TakeDelete(i) ==
  LET c == requests[i] IN
  /\ c.kind = "delete" /\ c.answer # "none"
  /\ IF c.answer = "ok"
     THEN /\ page' = WithoutCerts([page EXCEPT !.cars = @ \ {c.car}])
          /\ requests' = IF page.driver THEN Append(Rest(i), Plain("certs")) ELSE Rest(i)
     ELSE requests' = Rest(i) /\ UNCHANGED page
  /\ UNCHANGED <<cars, garage, docs, driver, wizard, clicks, unsure, hasty>>

\* A step that is gone does not hear its answer.
TakeStep(i, w) ==
  /\ requests[i].answer # "none"
  /\ wizard' = IF requests[i].heard THEN w ELSE wizard
  /\ UNCHANGED <<cars, garage, docs, driver, page, clicks, unsure>>

\* analyze: what was read fills the form, what was not leaves it as it is.
TakeAnalysis(i) ==
  LET c == requests[i]
      reads == c.answer = "ok" /\ c.read # 0
  IN  /\ c.kind = "analyze"
      /\ requests' = Rest(i)
      /\ hasty' = IF reads THEN hasty ELSE hasty \cup {"unread"}
      /\ TakeStep(i, [wizard EXCEPT !.ready = TRUE, !.read = IF reads THEN c.read ELSE @])
TakeDocument(i) ==
  LET c == requests[i] IN
  /\ c.kind \in Papers
  /\ requests' = Rest(i)
  /\ TakeStep(i, [wizard EXCEPT !.sending = @ \ {c.kind},
                                !.passed = IF c.answer = "ok" /\ c.flag THEN @ \cup {c.kind} ELSE @])
  /\ UNCHANGED hasty

\* onCertSubmitted.
TakeUpload(i) ==
  /\ requests[i].kind = "upload" /\ requests[i].answer # "none"
  /\ IF requests[i].answer = "ok"
     THEN requests' = Rest(i) \o Loads(page) /\ page' = WithoutCerts(page)
     ELSE requests' = Rest(i) /\ UNCHANGED page
  /\ UNCHANGED <<cars, garage, docs, driver, wizard, clicks, unsure, hasty>>

\* createdVehicle.
Registered(w, car) == [w EXCEPT !.sending = @ \ {"vehicle"}, !.created = car]

\* onVehicleCreated: the wizard of a new driver asks who he is before it goes on.
TakeCreate(i) ==
  LET c == requests[i]
      w == Registered(wizard, c.car)
      asks == wizard.open = "driver" /\ c.flag
  IN  /\ c.kind = "create"
      /\ requests' = IF c.heard /\ c.answer = "ok" /\ asks THEN Append(Rest(i), Me("created")) ELSE Rest(i)
      /\ TakeStep(i, IF c.answer # "ok" THEN [wizard EXCEPT !.sending = @ \ {"vehicle"}]
                     ELSE [w EXCEPT !.step = IF asks THEN @ ELSE "insurance"])
      /\ UNCHANGED hasty

TakeFailure(i) ==
  /\ requests[i].kind \in {"cars", "certs"} /\ requests[i].answer = "failed"
  /\ requests' = Rest(i)
  /\ UNCHANGED <<cars, garage, docs, driver, page, wizard, clicks, unsure, hasty>>

-----------------------------------------------------------------------------
\* The page is mounted, by somebody who has so many cars.
Start(n, as_driver) ==
  /\ cars = [c \in 1..n |-> [photo |-> 0, read |-> 0]]
  /\ garage = 1..n /\ docs = 0 /\ driver = as_driver
  /\ page = [cars |-> {}, certs |-> NoCerts, has_certs |-> FALSE, driver |-> as_driver, saving |-> FALSE]
  /\ wizard = [ open |-> "no", step |-> "license", created |-> 0, passed |-> {}, sending |-> {},
                shots |-> 0, photo |-> 0, read |-> 0, ready |-> FALSE ]
  /\ requests = Loads(page)
  /\ clicks = 0 /\ unsure = {} /\ hasty = {}
WizardInit == \E n \in 0..1, as_driver \in BOOLEAN : Start(n, as_driver)

Serve(i) == ServeRead(i) \/ ServeCreate(i) \/ ServeDocument(i) \/ ServeDelete(i) \/ ServeMode(i)
Take(i) ==
  \/ TakeCars(i) \/ TakeCerts(i) \/ TakeMe(i) \/ TakeMode(i) \/ TakeDelete(i)
  \/ TakeAnalysis(i) \/ TakeDocument(i) \/ TakeUpload(i) \/ TakeCreate(i) \/ TakeFailure(i)
WizardNext ==
  \/ Toggle \/ AddVehicle \/ Close \/ SubmitDocument \/ Upload \/ NextStep \/ Back \/ Pick \/ SubmitCar
  \/ \E car \in CarIds : Delete(car)
  \/ \E i \in DOMAIN requests : Serve(i) \/ Take(i) \/ Lose(i)

WizardSpec == WizardInit /\ [][WizardNext]_wizard_vars

-----------------------------------------------------------------------------
(* Properties.                                                             *)
WizardTypeOK ==
  /\ Len(cars) <= MaxCars /\ cars \in Seq([photo : Photos, read : Photos])
  /\ garage \subseteq DOMAIN cars /\ docs \in 0..MaxDocs /\ driver \in BOOLEAN
  /\ page \in Page /\ (page.has_certs \/ page.certs = NoCerts) /\ wizard \in Wizard
  /\ requests \in Seq(Request)
  /\ clicks \in 0..MaxClicks
  /\ unsure \subseteq {"cars", "certs", "driver"} /\ hasty \subseteq {"photo", "submit", "lost", "unread"}

\* Once the wizard is closed and everything has answered, the page shows the cars and the
\* documents of the server, unless a wizard was closed half-way, an answer was lost, or
\* an older load came last.
Quiet == requests = << >> /\ wizard.open = "no"
PageCatchesUp ==
  Quiet =>
    /\ page.cars = garage \/ "cars" \in unsure
    /\ page.driver = driver \/ "driver" \in unsure
    /\ (page.driver => page.has_certs /\ page.certs = CertsNow) \/ "certs" \in unsure

\* A photo registers one car, unless the user submits it again while the wizard asks who
\* he has become, or because the answer to the first time was lost.
OneCarPerPhoto ==
  \A a, b \in garage : a # b /\ cars[a].photo = cars[b].photo /\ cars[a].photo # 0
    => hasty \cap {"submit", "lost"} # {}

\* A car is registered with the plate its own photo shows, or one the user has typed,
\* unless he took a second photo before the first was analysed, or one without a plate.
PlateIsOfPhoto ==
  \A c \in garage : cars[c].read \in {0, cars[c].photo} \/ hasty \cap {"photo", "unread"} # {}

\* The onboarding is for whoever has no car.
WizardMeansNoCar == [][wizard'.open = "driver" /\ wizard.open = "no" => garage = {}]_wizard_vars
=============================================================================
