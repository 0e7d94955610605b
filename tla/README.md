# Tahiti Ride: models, checks and proofs

Tahiti Ride is a carpooling service for Tahiti: a NestJS server over Postgres
(PostGIS), and a Nuxt web client. A passenger scans the permanent QR code of a
car, rides, asks to get out; the driver confirms, and the server prices the
route and moves money between two wallets. Wallets are filled and emptied by
bank transfers that admins approve by hand.

The modules here follow the code under `src/`. TLC checks them on small
instances; TLAPS proves some of them for every value of their constants.

    tlc -config MCTrips.cfg MCTrips       # one run
    tlapm TripsProofs.tla                 # one proof

## 1. Inventory

The server (`src/backend/src/modules`):

| Part | State | Operations | Talks to | Hard behaviour | Module |
|---|---|---|---|---|---|
| Trips | `trips`, `trip_points` | pickup, requestDropoff, completeByDriver, recordPassengerPointIfActive, estimate, lists | locations, pricing, mapbox, wallet, bus | no transaction: every statement interleaves with every other handler; a failed settlement is swallowed | Trips, TripClient, Fares |
| Wallet | `wallets`, `wallet_transactions` | settleTrip, ensureWallet, reads | called by trips | two row locks in an order that depends on the trip | Settlement |
| Wallet requests | `wallet_requests` | createDeposit, createPayout, cancelMine | bus | check-then-insert, read-then-save without lock | WalletRequests, WalletDesk |
| Admin: wallets, requests, trips | the tables above, `admin_actions` | approve, reject, adjust, cancel | bus, audit | races with users and with other admins; events sent before the commit | WalletRequests, WalletDesk, Settlement, Trips |
| Pricing, settings | `app_settings` and its cache | computeFare, computeDriverShare, update, setValue, hydration | trips | two roundings; tariffs changed one by one; row and cache | Pricing, BackOffice, Fares |
| Locations, realtime gateway | `driver_statuses`, `passenger_waits`, sockets, throttle map | driver:online, :offline, :position, passenger:wait, :cancel, :position, connect, disconnect | trips, bus | handlers that overlap; a disconnect noticed late; one throttle for two roles | Presence |
| Certifications, vehicles | `certifications`, `vehicles.is_certified` | submit (with OCR), adminApprove, adminReject, nightly expiry, create, delete | OCR provider, audit | a copy kept in another table, an OCR call between a read and a write, a job that dies half way | Certifications |
| Accounts (users, auth, roles guard, admin users, bootstrap) | `users`, a 30 s role cache | signup, login, mode, role, suspension, deletion | wallet, audit | find-then-save of whole entities; stale cache | BackOffice |
| Mapbox | none | computeDistanceMeters, estimateRoute | HTTP | cutting a route into chunks | Fares |
| QR, uploads | none, files | issue, validate; store, read | | | Trips (QR) |

The web client (`src/frontend/app`):

| Part | State | Fed by | Hard behaviour | Module |
|---|---|---|---|---|
| Rides: trip store, toasts, dialogs, sheet, /scan, /trip/[id] | active trip, pending drop-offs, awaited confirmation | events, fetches, a poll | answers that cross events, dialogs that replace each other, events lost for good | TripClient |
| Presence: toggles, drivers and passengers stores, socket plugin | toggles, others' positions, buffered emissions | events, resync on connect | what is resent, and in which order, after the socket comes back | Presence |
| Estimate on /map, settings page | shown fare, spinner, drafts | a debounced call, aborts | an answer for a journey that is no longer chosen | Fares |
| Wallet page, admin desk, badge | lists, a balance, a count | events before the commit, filtered loads | late loads, decided requests shown as pending | WalletDesk |
| Session: auth store, localStorage, guards | token, user | logins, /users/me, 401s, other tabs | a late answer of another session | Session |
| Onboarding: profile page, two wizards | step, draft, lists | the photo's analysis, loads | what is reset when, and what is not | Onboarding |

What makes each correct:

- Trips: a trip ends once, after its minimum delay and with its end point; it is
  paid once, by its passenger to its driver.
- Wallets: a balance moves only together with the row that says so, never
  leaves its column, and no update is lost; every handler ends.
- Wallet requests: a request moves money if and only if it was approved, once,
  for its owner and its amount.
- Pricing: the quote is payable under any settings, and is the one of the journey
  on the screen.
- Certifications: a certified vehicle has an approved certificate; none outlives
  its date; what was deleted stays deleted.
- Presence: the server has who says he is there; who left is nobody's marker; a
  waiting passenger sees the drivers.
- Accounts: a lost role stops working after the cache's life; a closed account
  is reopened on purpose only; an admin remains.
- Client: a screen ends up showing what the server holds, once nothing is under
  way and nothing was lost that the code never asks for again.

`PROJECT.json` lists every hazard at its line with the properties that cover
it, or why none does.

## 2. Modules

    Ledger                  abstract: wallets and their history
      ^   ^   ^  refined by (INSTANCE, RefinesLedger)
      |   |   +-- WalletRequests     <- MCWalletRequests, WalletRequestsProofs
      |   +------ Trips              <- MCTrips, TripsProofs
      +---------- Settlement         <- MCSettlement, SettlementProofs
    Pricing <- Fares                 <- MCFares, MapProofs
    Certifications                   <- MCCertifications, CertificationsProofs
    BackOffice                       <- MCBackOffice, BackOfficeProofs
    Session                          <- MCSession, SessionProofs
    Onboarding                       <- MCOnboarding, SessionProofs
    Presence                         <- MCPresence, MapProofs
    TripClient                       <- MCTripClient, TripsProofs
    WalletDesk                       <- MCWalletDesk, WalletDeskProofs

Three modules of proofs are about two components each, whose names differ therefore:
Onboarding's begin with `Wizard`, TripClient's with `Client`, Presence's with
`Presence`. `MapProofs` is about what /map quotes (Fares) and whom it shows
(Presence).

The server's handler modules use one convention. A handler in flight is a record
`call[c]`, `c` being one of a few slots; its `step` is the statement it will run
next, and its other fields are the local variables it carries over an `await`.
One action is what runs between two awaits that reach the database. `Fail(c)`
is a statement that throws, `Restart` the death of the process with all
handlers: a transaction is rolled back, plain statements stay done. `bus` (`out`
in Certifications) is what the last step handed to the realtime bus, so that
properties can speak of what users are told. TypeORM's `save` of a loaded entity
is a SELECT followed by an UPDATE of the columns found different, hence pairs
such as `SaveRead`/`SaveWrite`, `CarRead`/`CarWrite`, `Diff`/`Save`, `DiffSetting`/`SaveSetting`; of a row
that is gone it is an INSERT.

The client modules use another. `calls` holds the HTTP calls under way, from the
emission to the delivery of the answer; a call is served (or refused, or lost)
in one step and its answer is taken in another, in any order. `mail` holds the
events on their way to a client; an event is sent once, to the sockets that are
up. A component that the code unmounts forgets its calls, a store does not. What
was lost in a way the code never repairs, an event without a resync or an older
answer taken last, is remembered in a history variable (`misled`, `unsure`,
`hasty`, `behind`, `blurred`): a property excuses exactly those, so it says that
nothing else goes wrong. Each run's mutants show that the excuse does not swallow
the property.

**Ledger.** `balance` and `history` of each user. `Post` appends rows to some
users' histories and moves their balances by the same amounts, within
`0..Int4Max`, at most one row per reference and user. This is what the three
services promise together about `wallets` and `wallet_transactions`.

**WalletRequests.** `createDeposit`, `createPayout` (check, count, insert: three
steps), `cancelMine` (read, save), `approve` (lock request, lock wallet,
commit), `reject`, `adjust`. Row locks are the steps at which a handler holds
them. `approve` emits its events in the step before the commit, as the code
does; what a client makes of that window is WalletDesk.

**Trips.** `pickup` (five steps), the recording of a point (count, insert)
shared by GPS, drop-off and completion, `finalizeTrip` (price, settle, save),
`AdminTripsService.cancel` (load, save, audit). `settleTrip` is one step here,
because it is a transaction, and is opened up in Settlement. A distance is not
computed: the quote is any member of `Quotes`. `ripe` holds the trips older than
the minimum delay, `billed` the kind of the last point of the route that was
priced. `Operations` selects the handlers of an instance.

**Settlement.** `settleTrip` statement by statement: lock the passenger's wallet
and read it, lock the driver's, write both and the rows. `adjust` is the other
writer. Locks can form a circle; `DeadlockVictim` is Postgres aborting one
member of it.

**Pricing, Fares.** Pricing has `computeFare` and `computeDriverShare` over
integers in units of 1/`PerKm` kilometre, with the settings they read and the
updates that change them one by one. Fares adds who sees a fare: the map (`map`,
`asks`, `kept`: debounce, abort, answers, localStorage, a reload), the settings
page (`desk`, `calls`), and the route of a trip, cut in chunks of `ChunkSize`
points and measured leg by leg (`Chunks`, `Matched`, `Measures`).

**Certifications.** `vehicle` and `cert` are the two tables, `sweep` the nightly
job. A submission inserts its row, asks the OCR (`OcrAnswers`: any reading, or
none), then saves the vehicle and the certificate; an admin's decision saves the
certificate, then the vehicle, then the audit row. The job reads and writes the
overdue certificates one by one, then decertifies their vehicles, then sends
reminders. `shaken` remembers the vehicles whose handlers overlapped, failed or
died.

**Presence.** `client` is a tab (page, toggles, stores, position), `link`, `zombie`
and `buffer` its socket, `row` the tables `driver_status` and `passenger_waits`,
`recent` the throttle, `flight` the messages in transit or being handled. A
handler is an `Agenda` of jobs (write, read again, broadcast), one await each;
messages of a socket are dispatched in order but their handlers overlap. A
connection dies unnoticed (`Break`), is noticed by the client (`Notice`) and by
the server (`Disconnect`) each in its time; `Reconnect` resyncs.

**TripClient.** `ride` is what the server has, `tab` each passenger's page and
store, `desk` the driver's: his dialog, his pending drop-offs, his sheet and its
poll. Handlers of TripsService are one step each (Trips opens them up), and an
admin may cancel without a word.

**WalletDesk.** `status`, `credited`, `deciding` and `counting` are the server's,
a decision being announced (`Notify`) before it commits or rolls back; `page` is
the user's, `desk` the admin's with its filter, rows, dialog and badge.

**BackOffice.** `row` holds the columns of a user that matter, `trust` the guard's
cache of roles, `setting` a key of `app_settings`: is there a row, what it says, and
the cache. A handler finds the row, judges, takes the difference with what it finds
again and writes that (`Find`, `Diff`, `Save`), then audits (`Record`). An update of a
setting selects (`DiffSetting`), inserts or updates what differs (`SaveSetting`), and
caches its value (`CacheSetting`); one that found its value in the row writes nothing
and caches it all the same. `Tick` is the clock of the cache;
`Restart` runs the bootstrap.

**Session.** `tabs` are the auth stores of one browser, `storage` the copy in
localStorage they share without listening to it, `issued` and `dead` the tokens,
`mode` the column `is_driver`.

**Onboarding.** `page` is the profile page's lists, `wizard` the two wizards and the
step that is mounted, `cars`, `garage`, `docs` what the server has, with the photo
each car was registered from, `requests` the calls and answers under way. A wizard
that closes keeps them (`Closing`): they are answered, but the step that asked no
longer hears (`heard`), and an analysis nobody waits for is dropped (`Kept`).

## 3. Runs

| Run | Instance | Question |
|---|---|---|
| `wallet_requests` | 2 users (one driver), 2 requests, 2 handlers, amount 1, `Int4Max` 2 | does money move only with its row, once, for an approved request, and does every handler end |
| `request_status_moves_once` | the same handlers, 1 request | violation: a decision may be overwritten |
| `trips` | 1 trip, 2 handlers of any kind, up to 3 points, balances up to 4 | is a trip paid once, completed with its end point, its points in order |
| `settlement` | 2 users who drive each other, 2 trips, 3 handlers, balances up to 3 | are reads fresh under the locks, is a trip settled once, does every handler end |
| `pricing` | 3 tariffs in {0, 3, 7} or the environment's, distances around the roundings, routes of 1 to 7 points in chunks of 3; 2 places, 2 calls, 3 turns | is the quote payable, the one of the journey shown, the route measured, the page up to date |
| `certifications` | 1 vehicle, 1 certificate, 2 handlers of any kind, one midnight | is a certified car covered, a deleted one gone, an overdue document swept |
| `presence` | a driver and a passenger, 2 messages or handlers at a time, throttle of 2 ticks | does the server have the toggles, do leavers disappear, is the driver seen |
| `trip_client` | 2 passengers, their driver, 1 ride each, 2 calls and 1 poll under way | is what the screens say of a ride true once all has arrived |
| `wallet_desk` | 2 requests, 2 calls under way, 3 turns at most | do the user's list, the admin's and the badge agree with the table |
| `back_office` | 2 accounts, 2 handlers at a time, 2 calls, cache of 2 ticks, clock of 4 | is a lost role refused, an account closed, an admin left, a setting in its cache |
| `session` | 2 tabs, 2 accounts, 3 logins, 2 calls, 6 turns | which late answer mixes two accounts or undoes a logout |
| `onboarding` | 2 cars, 2 photos, 2 documents, 3 calls, 5 turns | what is left stale, registered twice, or read from the wrong photo |

Why the bounds are enough. Two handlers in flight meet every race of two
actors; every race found in this code needs only two. A deadlock needs two
settlements, and the third handler of `settlement` is the one that waits on
them. One trip suffices for what concerns a trip, and two requests for what one
request could do to another's payment. `Int4Max` stands for 2147483647 and is
small so that balances do reach it. `MaxPoints` and `MaxHistory` only stop
handlers from starting (points beyond those of each kind add nothing: properties
compare at most two). Ids are used once, so a finite instance runs out of them:
`CHECK_DEADLOCK FALSE` is then the state in which all requests or trips are
settled and no handler is left, or in which the people have taken their
`MaxTurns` turns and everything has arrived.

In the client runs, two calls under way are what it takes for one to overtake the
other, and a third (`onboarding`) for an answer to arrive between two others that
cross. `MaxTurns` (`MaxClicks` in Onboarding, `MaxEvents` in Presence) counts what people and the
network do, never what the program does in answer, so no behaviour is cut in the middle of an answer. Some start from
several moments rather than from one long prefix: `presence` with a passenger
alone and two turns, both fresh with none, and a driver with one turn before a
passenger who waits on another page; `trip_client` before a ride and
during one, with two turns for the passenger and two for the driver, and with two
passengers on board, with one turn each or one of a passenger and one of the
driver; `wallet_desk` before any request with three turns, with one or both
requests pending and shown with two; `pricing` with any tariffs and two turns, with
the environment's and three. Each moment is reachable. `BackOffice`'s cache lives two
ticks and its clock four, so an entry can expire, be filled by a late lookup and
expire again; it also starts with the boss alone and a
setting overridden by what the environment says. `certifications` has one vehicle and one certificate with two
handlers: a second certificate matters only to the vehicle it is of, and 2
vehicles with 2 certificates and one handler besides the job were checked by hand
(1.6 million states). `ChunkSize` is 3 instead of 100: routes of 1 to 7 points
give a last chunk of one, two and three points.

Type invariants are theorems for every module (section 4); they hold in the runs above
too, and adding the name of one to the `INVARIANTS` of its cfg checks it again. `FaresAssumption` wants every length a route can have among
the distances, so `MCDistances` lists those the routes of `pricing` add up to.

### What the runs excuse

The history variables name what the code does not prevent. A property says that
nothing beyond it goes wrong, and these are the things it excuses:

- `shaken` (Certifications): a vehicle two handlers worked on at once, or whose
  handler or job failed between its statements.
- `raced` (BackOffice): two handlers that met on a row. Two admins who demote each
  other leave none until the next boot. Of a setting: an update written while another one,
  of another value, had still to be cached; a written one without an answer; a boot
  that could not read the table. An update that meets no other makes it good.
- `shaken`, `blurred` (Presence): users whose presence messages overlapped or were
  lost with a socket; stores that were read or told while someone was leaving.
- `misled` (TripClient, WalletDesk): a client whose socket was down when the event
  was sent, a silent cancel, a load that answered after a later one.
- `behind` (Session), `unsure` and `hasty` (Onboarding, Fares).

### Fairness

`wallet_requests`, `settlement`: strong fairness of `Continue(c)`, the next
statement of a handler in flight. The event loop runs a handler whose statement
was answered, Postgres answers statements, and grants a row lock in the order of
the waits, so a handler that can be granted a lock again and again gets it: that
is strong fairness and not weak, because another handler may take the lock in
between. In Settlement it also covers the deadlock victim, `deadlock_timeout`
being finite.

`certifications`: weak fairness of the job (`@Cron` starts it every night, each of
its statements is answered), and eventually no more failed runs and restarts; a
job that always fails sweeps nothing. The handlers have none.

`presence`: weak fairness of the handlers of messages (`Handle(i)`), of the GPS
that keeps sending positions to a page that watches it, and of the clock.

`trip_client`: weak fairness of the sheet's timer (`Poll`), of the delivery of
events to sockets that are up, and of the oldest call being served and delivered.

No fairness is given to people, to requests arriving, to failures or restarts.

### Disagreements

`request_status_moves_once` ends in a violation: `cancelMine` saves over a decision
taken since it read the request, though a comment beside it and the state
machine of the entity say a request is decided once. These configurations, kept
beside the runs, end in a counterexample too; each states what a comment, a text
of the client or a test says:

| `tlc -config` | Module | Property | What the code does |
|---|---|---|---|
| `MCWalletRequestsPayout.cfg` | MCWalletRequests | OnePendingPayout | two `createPayout` both count zero pending |
| `MCTripsPickups.cfg` | MCTrips | PickupIsExclusive | two pickups both find no active trip |
| `MCTripsShare.cfg` | MCTrips | ShareIsWhatDriverReceived | a failed settlement leaves a completed trip whose share nobody received |
| `MCTripsCancel.cfg` | MCTrips | OnlyActiveTripsAreCancelled | `cancel` saves over a completion |
| `MCTripsBilling.cfg` | MCTrips | BilledRouteEndsAtDropoff | the billed route ends where the driver confirmed, not where the passenger asked to get out |
| `MCPresenceIntent.cfg` | MCPresence | IntentReachesServer | overlapping handlers leave the server with the older wish |
| `MCTripClientScan.cfg` | MCTripClient | ScanIsOpen | a passenger whose trip ended silently is kept out of /scan |
| `MCWalletDeskBalance.cfg` | MCWalletDesk | BalanceFollowsApproval | the event of an approval makes the page load the balance before the commit |
| `MCOnboardingWizard.cfg` | MCOnboarding | WizardMeansNoCar | the wizard of a first car opens for a driver whose list has not loaded |
| `MCCertificationsReject.cfg` | MCCertifications | OnlyApprovedRejectionsDecertify | rejecting a pending renewal decertifies a car that another certificate covers |

### What the models show beside the runs

- Trips: two overlapping recorders insert the same `seq`, so the replay an admin
  sees may swap two points; a failure between `cancel`'s two statements loses its
  audit row. Lines 87 and 100 of the repository's README describe a second QR scan
  at drop-off that no longer exists in the code, and so does `DriverQrCard`.
- Certifications: a failure between the two saves leaves the car and its
  certificate apart. A job whose save meets a deleted row fails, and forgets the
  cars it had collected: their certificates are expired already, so the next night
  does not find them and they stay certified for good. `save()` of a vehicle that
  was deleted meanwhile inserts it again. A save writes only some columns, so two
  of them can mix two decisions; the OCR's late save can overwrite an admin's.
  `adminApprove` takes rejected and expired rows. The comment at
  `certifications.service.ts:135-138` says superseded rows are deleted; they are not.
- BackOffice: two admins who demote each other leave no admin until the next boot;
  a column changed between find and save is written back; the token of a suspended
  user is accepted by `JwtAuthGuard` until it expires; `is_driver` survives the last
  vehicle; overlapping updates of a setting leave cache and row apart, also when one of them
  only saves again what was there; two first updates of a setting insert it twice and
  one fails; two first logins by Facebook at once fail with a 500; the bootstrap looks an address up
  without lowercasing it.
- Presence: one throttle serves two roles; a restart leaves rows online; a resync
  is skipped without a position.
- TripClient: a second `confirm.require` replaces the first dialog; the guard of
  the sheet does not cover the dialog's completion; after a refusal the
  passenger's button stays disabled; what the driver was asked is not asked again
  after a reload.
- WalletDesk: each dialog has its own `useWalletRequests()`, so a new request is on
  the page only after a reload; the answer of an approval may come after the event
  of a cancellation that overwrote it, and puts the row back as approved; an event and an answer that
  both apply one update decrement the total twice; a late `loadInfo` resets the amount being typed.
- Session: a late `setUser` puts a user beside another's token; a late 401 logs
  out the session that followed; a wrong password removes the session another tab
  stored.
- Onboarding: submitting stays enabled during `/users/me`, so a car can be
  registered twice; the first photo's late analysis overwrites the second's plate;
  closing half-way leaves the lists stale.
- Fares: the `finally` of an aborted estimate stops the spinner of the one that
  followed; the drafts of other tariffs are lost when a save reloads the page; a
  last chunk of one point makes the whole route fall back to straight lines, so
  one more recorded point can shorten a fare.
- Reminders (not modelled): the token watcher of `useCertificationReminder` dies
  with the component that created it, so dropping everything on logout does not
  happen.

## 4. Proofs

`WalletRequestsProofs` proves, for any users, requests, slots, amounts and
limits that meet `WalletRequestsAssumption`:

- `TypeCorrect`: `Spec => []TypeOK`, so no balance ever leaves `0..Int4Max`;
- `PaymentsAreRight`: `[]PaymentMatchesRequest`;
- `LocksProtect`: `[]LockedRowsAreStable`;
- `NoMoneyWithoutRow`, `ClosedStaysClosed`: two action properties;
- `ImplementsLedger`: `Spec => L!Spec`.

The inductive invariant is `IInv == TypeOK /\ RequestsOK /\ CallsOK /\
LockedRowsAreStable /\ PaymentMatchesRequest`. `PaymentMatchesRequest` alone is
not inductive: `ApproveCommit` appends a row for the request it holds, so one
needs that the request is still pending (the lock: `LockedRowsAreStable`) and
that a pending request has no row yet. `RequestsOK` says that an unused id has
no owner and a used one has a positive amount and a real owner; `CallsOK` that a
handler between two steps holds what it loaded. The commits then cannot
contradict each other because two handlers cannot both be in a step that holds
the same row. A handler that cancels breaks none of this: it reads without a
lock, so it can overwrite a decision (`StatusMovesOnce` fails) and yet moves no
money (`ClosedMovesNoMoney` is proved).

The first part of `MapProofs` proves for any tariffs, any admin history, any distances, places,
pages and answers that meet `PricingAssumption` and `FaresAssumption`:

- `TypeCorrect`, `QuotesArePayable`, `LongerCostsMore`, `PlatformIsPaid`,
  `FareIsRounded` for Pricing alone. They rest on lemmas about `Round` (monotone,
  within half a unit) and about products of naturals. The environment's defaults
  are assumed not negative for the base fee and the rate only: no code checks
  them, and with a negative rate the clamp of the margin would give the driver
  more than the fare.
- `OnlyPricing`: `FaresSpec => Spec`. What the pages, other admins, restarts and
  the ends of trips do to tariffs and quotes is what Pricing allows, so its
  theorems hold there too; `RoutesArePriced` draws the first of them.
- `PagesTypeCorrect`, `FareFollows` (`[]FareIsOfJourney`), `WaitersCanPay`
  (`NobodyWaitsShort`) and `DeskAgrees` (`[]DeskCatchesUp`).

For the pages the invariant adds `Following` and `Catching`. `Following` says that
at most one estimate is heeded, that it is of the journey now chosen unless the
debounce timer runs, and that an answer is of the journey it was asked for.
`FareIsOfJourney` alone only speaks of a map that waits for nothing, and taking an
answer is a step into such a state. `Catching` says, unless the page is `unsure`,
that an answered load brings the tariffs in force, and that the page either shows
them or has a call under way that will make it show them.

The second part of `MapProofs` is about Presence, for any users, positions, messages in
flight, throttle and events that meet `PresenceAssumption`: `PresenceTypeCorrect`,
`ToggleMatches` (`[]ToggleMatchesRow`) and `LeaversLeave` (`[]LeaversDisappear`).

- `PresenceTyped` strengthens the type invariant: a handler holds what is left of the
  agenda of its kind (`Left`), every message but a departure has a position, and only
  what broadcasts, sends a snapshot or tells of a departure reads before it tells.
- `ToggleMatchesRow` speaks of a user of whom nothing is on its way. `ToggleSafe` says of
  the others what the rows will become. `Promises`: the last message in flight that will
  write a row says what the toggle says, and if there is none the row does already;
  `LastWord` says it of the messages a disconnected socket has buffered. `Heard` puts
  these together along the life of a connection: a connected user's row follows his
  toggle; a dead connection the server has noticed leaves him offline; one it has not
  noticed promises nothing, because the handler of `disconnect` will write both rows;
  and a buffer never ends on a stale "join". `OneRole`, that at most the toggle of the
  present mode is on, is what makes `Reconnect` right, which tells the server of that
  role alone. `Orderly`, that a user's handlers start in order and those of his presence
  run one at a time, is what `shaken` excuses the breach of.
- `LeaversDisappear` speaks of a moment without handlers. `MapSafe` says of the others
  that whoever is seen on a map went the viewer's way and is there still, or a handler
  is about to tell this viewer that he left (`Retires`), or a snapshot will replace
  the whole map (`Refreshing`). That is kept because what the one handler at work has
  read is what the rows still say (`Current`): a broadcast reads its sender's row, then
  who is near, and tells them, with an await after each, and a departure writes its row
  long before it tells anyone. With two handlers at work none of this holds, and
  `blurred` then names every map. `Unseen`: a client that lost its socket shows nobody,
  so a stale map does not survive a reconnection.

`SettlementProofs` proves for any users, trips, quotes, corrections, slots and
column size that meet `SettlementAssumption` (in particular, nobody is the
driver of his own trip): `TypeCorrect`, `NoLostUpdate` (`[]ReadsStayFresh`),
`TripIsSettledOnce` (`[]TripMovesMoneyOnce`) and `ImplementsLedger`. The
inductive invariant is `IInv == TypeOK /\ CallsOK /\ ReadsStayFresh /\
TripMovesMoneyOnce`. `CallsOK` says what a handler between two steps carries: a
trip and an acceptable quote, or a user and a correction that kept his balance in
the column when it was read. The commit of a settlement writes two wallets from
values read two statements earlier; it is right because `ReadsStayFresh` makes
those values current, and that in turn is kept by the commit because no other
handler holds either wallet. `CommitSums` derives from them the few facts the
invariant and the refinement both use, stated as `Committed`; `RowsAfter` and
`OneMoreRow` say what appending a row changes. `TripMovesMoneyOnce` is kept
because the index refuses a second row of the passenger, and a driver has a row
only beside his passenger's.

`TripsProofs` proves for any users, boardings, trips, slots, quotes and limits
that meet `TripsAssumption`: `TypeCorrect`, `PaidOnce` (`[]TripIsPaidOnce`),
`NoFakeRide` (`[]CompletionIsBacked`), `PointsKeepOrder` and
`ImplementsLedger`. No handler here holds a lock, so the inductive invariant
`IInv == TypeOK /\ TripsOK /\ CallsOK /\ TripIsPaidOnce /\ CompletionIsBacked`
rests on monotony instead: what a handler found out before an await (a trip
exists, its delay has passed, its end point is stored, its route was priced,
its `settle` record is a payable quote) is still true when it goes on, because
nothing in the tables is ever taken back but a trip's status. `RecordOK` lists
what a handler knows at each step, `TablesGrow` is the monotony, and `StillOK`
and `CallsKept` combine them once for all actions. Only a pickup needs more,
that no other handler has its uuid: `CallsOK` says so. The statuses are left
out on purpose, since a late save can change them (`OnlyActiveTripsAreCancelled`
fails). `PointsOrdered` is a second invariant on top of it: the seq of a point is
smaller than its place in the table, and no recorder counted more points than
there are now.

The second part of `TripsProofs` is about TripClient, for any passengers, rides,
calls and polls under way: `ClientTypeCorrect`, `SeesTheTruth`
(`[]PassengerSeesTheTruth`) and `RequestIsShown` (`[]AwaitingIsPending`). Both
properties speak of a state where nothing is on its way; the invariant `RideIInv`
says of the others what will still arrive. `StoreOK`: the last event under way that
starts or ends a ride says whether the passenger is in one, an event that ends a
ride is preceded by the one that started it, and a store with no such event left is
right. `PageOK`: the page of a trip is right, or the end of its ride or a load is on
its way. `RequestsOK`: a request a passenger knows of is among those the driver has
to decide, or the event is on its way to him. `AsksOK` and `TellsOK` say what a call
and an event are about: a ride that has started, and one that is over for good when
its end is told, which is why a late end cannot undo the ride that followed.

`CertificationsProofs` proves for any vehicles, certificates, handlers in flight
and days that meet `CertificationsAssumption`: `TypeCorrect`, `DeletionIsFinal`
(`DeletedStaysDeleted`) and `CoverIsReal` (`[]CertifiedHasCertificate`). There is
no lock and no transaction to rest on, so the invariant has two layers. The first,
`Inv`, is about who works on what: stored rows refer to vehicles that exist
(`RowsOK`), a handler's certificate is its vehicle's (`CallsOK`), the job works on
certificates that were inserted (`SweepOK`), and a vehicle outside `shaken` has at
most one handler, not at the same time as the job, and exists until that handler
has deleted it (`OverlapsAreShaken`). `DeletionIsFinal` follows: only the write of
a save can bring a row back, and its vehicle exists unless it is shaken. The
second layer says what such a lone handler knows of the rows between two
statements: `Sole` has the columns its SELECT found different still different when
its UPDATE runs, and `Covered`, that a certified vehicle has its certificate,
except in the two windows where the saves are half done, `Certifying` (a
submission saves the vehicle before the certificate) and `Rejecting` (a decision
saves the certificate before the vehicle). `RestOK` is `Covered` for a vehicle nobody works on.
`CertifiedHasCertificate` alone is not inductive because a decision is written
from what was read two statements before.

`BackOfficeProofs` proves for any accounts, handlers, calls and cache life that meet
the module's assumption: `TypeCorrect`, `GuardFresh` (`[]GuardIsFresh`),
`SettingsAgreed` (`[]SettingsAgree`), `AdminRemains` (`[]AnAdminRemains`) and
`Reopened` (`ReopenedOnPurpose`). A handler is followed from its call to its save.
`Asked` is what the call settles for good: who acts, on whom, and since when.
`Passed` and `Trusted` bound the age of a role, in a handler that looked it up and
in the cache: an entry may be filled by a lookup that started long before, so the
bound is on the moment the account was last an admin (`Dated`), not on the moment
the entry was written. `Copied` says that a handler nobody crossed saves exactly the
row it found with its own change. That is why an admin remains: the only uncrossed
handlers that take a role away act on somebody else, for an actor who is an admin
still; `raced` remembers the others. `Settled` is the same
for the settings: unless `raced`, every value that will be cached without being written
any more (found the same, or written) is the row's, and when no written one waits for
its answer the cache is the row. Nothing is said of a value that was only found
different: it will be written, and that write is judged then.

`SessionProofs` proves for any tabs, accounts, logins and calls under way:
`TypeCorrect`, `ScreenShowsAccount` (`[]ScreenIsTheAccount`), `ModeShown`
(`[]ModeIsCurrent`) and `LogoutHolds` (`LogoutIsNotUndone`). Besides the properties
themselves the invariant says that every token met anywhere was issued, `CallOK`:
an answered call carries the user its token speaks for, whatever its tab has become
since, and `Fresh`: the token of a login under way is in no store, in no other
call, and nobody has left it. `LogoutIsNotUndone` rests on `Fresh`, because taking
a login is the one step that stores a token that no store held; every other step
moves tokens between stores (`StoresMove`).
`ScreenIsTheAccount` rests on `CallOK` and on `mixed`, which is set exactly when the
token of the store is not the one of the call.

The second part of `SessionProofs` is about Onboarding, for any cars, photos,
documents and requests under way: `WizardTypeCorrect`, `PhotoOnce`
(`[]OneCarPerPhoto`), `PlateOnPhoto` (`[]PlateIsOfPhoto`) and `PageIsCaughtUp`
(`[]PageCatchesUp`). What a step does to the requests is stated once for all steps:
`Trace` says where each one was before, `Moves` which went and which came. The
invariant `WizardIInv` has three parts.

- `Photographed`, about photos. `StepsHeard`: only a dialog that is open is told, and
  it sends one car at a time, of the photo it shows. `PhotosOnce`: a photo is of one
  car, or of one registration under way, and if the photo in the form is of one
  already, the wizard knows, or the answer that tells it is on its way. So a wizard
  that was closed and opened again cannot register the photo of a request that is
  still out. `PlatesRead`: what is read, in the form, in a request or in an analysis
  under way, is of the photo beside it; one analysis is under way at a time, unless
  the user was hasty.
- `Awaited`, about the page. Each part of it (`CarsComing`, `DriverComing`,
  `CertsComing`) is right, or unsure, or something is under way that will make it load
  again: the load itself, the end of a wizard (`Returning`), a mode that was set
  (`Told`), a car or a document the wizard is going to tell of (`Adding`, `Passing`), a
  change the page asked for (`Changed`). `PageCatchesUp` alone is not inductive, since
  taking the last answer leads into a quiet state. Two points are less obvious: the
  page drops a deleted car itself, so its list is right but for those whose deletion
  is answered and not taken (`Gone`); and the documents depend on the mode, because a
  page that shows a passenger loads none, so `DriverComing` must hold when only
  the documents are sure while a wizard asks who the user has become (`Joining`).
- `WizardTypeOK`.

`WalletDeskProofs` proves for any requests, calls under way and turns that meet
`WalletDeskAssumption`: `TypeCorrect`, `UserSees` (`[]UserSeesHisRequests`),
`DeskShows` (`[]DeskShowsPending`) and `BadgeHides` (`[]BadgeNeverHidesRequest`).
The three properties speak of a state where nothing is on its way; the invariant
says of every other state what will still arrive.

- `ListOK` and `RowsOK`: what a view shows of a request is its `Target` (the status,
  or the decision whose transaction has told the clients and did not commit), or an
  event about it is on its way; and every event about a request says its target or is
  followed by one that does (`LastWord`). So the last event heard leaves the view
  right, also when an older one contradicts it.
- `RowsOK`: under a filter that shows pending requests, each one nobody decides is
  among the rows, or the event of a new request or a load is on its way.
- `BalanceOK`: the balance shown is what was credited, or an approval is on its way,
  or a load of the balance is. An approval is heard before it commits, so between the
  two the answers that are not old (`Brings`) count it only if nobody is deciding.
- `BadgeOK` and `CountOK`: the badge is enough, or the last count on its way is, or a
  query is open or will send one that is. A count that another overtook may be too
  low; `CountOK` says that it is old then, or that a later one is not.
- `AllBring` says the same of the answer of every load that is not old, and of a
  decision's, which `applyUpdated` shows whatever came before: it is the committed
  status, or an event that contradicts it is on its way. `Alone`, `CallsOK` and
  `Deciding` say which call a decision belongs to and that no other call is about the
  same request.

A step is then one of three kinds, and a few lemmas serve each: those that leave the
tables and the mail alone (`QuietStep`), those that tell both clients (`Tells...`), and
those that take an event off the mail (`TailHeard`, `Hearsay`) or lose it (`Breaks`).

Every invariant and every action property of the passing runs is proved but one,
`RouteIsMeasured`: `Measures` folds over the chunks of a route and over its legs, and
what a fold yields needs an induction the provers cannot do.
The other properties that are only model-checked are the liveness properties, whose
fairness and ENABLED are out of the prover's reach. The violations are
counterexamples, so there is nothing to prove.

## 5. Not modelled, and why

- Geometry (PostGIS distances), routing over HTTP, OCR, token signing, password
  hashing, rendering: inputs from outside or pure computation on data no property
  tells apart. Two positions are near when they are equal; an OCR answers any
  reading; Map Matching answers the length of the legs it is given. Whether two
  names match is one of the answers.
- Uploads: files on disk and signed links, no state that a handler reads back.
- The admins' paged lists, analytics, the audit page, static pages, translations,
  the drawing of the map: reads and layout.
- Certification reminders and notifications on the client: they show what
  `Remind` sends.
- Scripts, migrations, deployment: one-shot tools and configuration.
- `ensureWallet` is part of signup, so wallets exist from `Init`. `softDelete` only marks
  an account: its wallet and its requests stay, and `approve` does not look at the mark.
- Presence: `ToggleOn` sends the event of the toggle. The position that the watcher of
  /map sends after it is `NewFix` with the same fix; for a passenger who set his
  position by hand it is left out.
- Floating point: sums are exact, and `Math.round` is applied to exact values.
- In Session, a request that was not served when its tab closes is never served.

## 6. What could follow

1. A proof of `RouteIsMeasured`, with a prover that does induction over sequences.
2. The admins' paged lists (`total` and pages under concurrent decisions) and the
   reminder toasts.
3. Name matching (`name-match.ts`) as a pure operator over small alphabets.
4. Composing Presence with TripClient: a pickup there is one step here.
