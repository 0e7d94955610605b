------------------------------ MODULE TripClient ------------------------------
(***************************************************************************)
(* A ride as the web clients of its passengers and of its driver see it:   *)
(* the trip store, fed by socket events and by HTTP answers, and the pages *)
(* /map, /scan, /trip/[id] and /trips.                                     *)
(*                                                                         *)
(* Events are sent once, to the sockets that are up.  A call is in flight  *)
(* from its emission to the delivery of its answer; answers come in any    *)
(* order.  The handlers of TripsService are one step here: module Trips    *)
(* opens them up.                                                          *)
(***************************************************************************)
EXTENDS Naturals, FiniteSets, SequencesExt

CONSTANTS
  Passengers,
  Driver,       \* the driver of every ride
  MaxRides,     \* bound: rides of a passenger
  MaxCalls,     \* bound: calls in flight
  MaxPolls,     \* bound: refreshes of the sheet in flight
  MaxTurns      \* bound: what a user and his environment do

ASSUME TripClientAssumption ==
  /\ Driver \notin Passengers
  /\ {MaxRides, MaxCalls, MaxPolls, MaxTurns} \subseteq Nat

VARIABLES
  ride,     \* trips: the last ride of each passenger, and whether it is active
  tab,      \* the tab of each passenger
  desk,     \* the tab of the driver
  link,     \* whether the socket of a client is up
  mail,     \* the events on their way to a client
  calls,    \* the HTTP calls in flight, oldest first
  turns,    \* how much of it each client did
  misled    \* history: what a lost event, a silent cancel or a late answer left wrong

client_vars == <<ride, tab, desk, link, mail, calls, turns, misled>>

-----------------------------------------------------------------------------
Clients == Passengers \cup {Driver}
Rides == Passengers \X (1..MaxRides)
IsActive(t) == ride[t[1]] = [n |-> t[2], on |-> TRUE]
Onboard == { t \in Rides : IsActive(t) }
RideOf(p) == { t \in Onboard : t[1] = p }

\* activeTripId as a set of at most one trip; submitting as the kind of call awaited.
Pages == {"map", "scan", "trip", "trips"}
Tab == [ page : Pages, viewed : SUBSET Rides, shown : {"loading", "active", "over", "error"},
         active : SUBSET Rides, awaiting : SUBSET Rides, submitting : BOOLEAN ]

\* A dialog of the driver: prompted by a request, or asked for on the sheet.
Dialog == [ from : {"prompt", "sheet"}, trip : Rides ]
NoDialog == [ from |-> "none" ]
Desk == [ on_map : BOOLEAN, pending : SUBSET Rides, handled : SUBSET Rides,
          dialog : Dialog \cup {NoDialog}, sheet : SUBSET Rides, completing : SUBSET Rides ]

ClientEvent == [ kind : {"started", "dropoff_requested", "completed"}, trip : Rides ]
Reads == {"active", "trip", "sheet"}
Writes == {"pickup", "dropoff", "complete"}
\* about: the trip a call names; rides: the active trips its answer speaks of;
\* page: whether the page, or the row of the sheet, that asked is still there;
\* gone: the tab that asked was reloaded, nobody hears the answer.
Call == [ who : Clients, kind : Reads \cup Writes, about : SUBSET Rides,
          origin : {"page", "tab", "gone"},
          stage : {"sent", "answered", "failed"}, rides : SUBSET Rides ]
Asked(c, kind, T, origin) ==
  << [ who |-> c, kind |-> kind, about |-> T, origin |-> origin, stage |-> "sent", rides |-> {} ] >>
Ask(c, kind, T) == Asked(c, kind, T, "page")

Turn(c) == turns[c] < MaxTurns /\ turns' = [turns EXCEPT ![c] = @ + 1]
InFlight(c) == { i \in DOMAIN calls : calls[i].who = c }
Done(i) == RemoveAt(calls, i)

\* The positions I, in order.
InOrder(I) == { o \in [1..Cardinality(I) -> I] : \A j, k \in DOMAIN o : j < k => o[j] < o[k] }
Sending(cs) == calls' = cs /\ Len(cs) <= MaxCalls
Send(new) == Sending(calls \o new)

\* c leaves its page: what only that page would show is forgotten.
Surviving(c, cs) == { i \in DOMAIN cs : cs[i].who # c \/ cs[i].kind \notin {"trip", "sheet"} }
Orphan(c, k) == IF k.who = c /\ k.origin = "page" THEN [k EXCEPT !.origin = "tab"] ELSE k
Leaving(c, cs, asks) ==
  \E o \in InOrder(Surviving(c, cs)) : Sending([j \in DOMAIN o |-> Orphan(c, cs[o[j]])] \o asks)

-----------------------------------------------------------------------------
(* The passenger's pages.                                                  *)
Mounts(p, page, T) ==
  CASE page \in {"map", "trips"} -> Ask(p, "active", {})
    [] page = "trip" -> Ask(p, "trip", T)
    [] page = "scan" -> << >>

\* p, whose store is t, goes to a page; /scan sends on to the trip he is in.
\* cs: the calls in flight by then.
Visit(p, t, page, T, cs) ==
  LET onward == page = "scan" /\ t.active # {}
      there == IF onward THEN "trip" ELSE page
      trip == IF onward THEN t.active ELSE T
  IN  /\ tab' = [tab EXCEPT ![p] = [t EXCEPT !.page = there, !.viewed = trip,
                                             !.shown = "loading", !.submitting = FALSE]]
      /\ Leaving(p, cs, Mounts(p, there, trip))

\* Mistake: the page of a trip that is over stays as it is.
StoredOnly(p, t, over, cs) ==
  IF t.page \in {"map", "scan"} /\ t.active \notin {tab[p].active, {}}
  THEN Visit(p, t, "trip", t.active, cs)
  ELSE /\ tab' = [tab EXCEPT ![p] = t]
       /\ Sending(IF t.page = "trips" /\ (t.active # tab[p].active \/ over # {})
                  THEN cs \o Ask(p, "active", {}) ELSE cs)

\* p's store becomes t and the watchers of his page run: /map and /scan go to a
\* new active trip; /trips, and the page of a trip that is over, load again.
Stored(p, t, over, cs) ==
  LET changed == t.active # tab[p].active IN
  IF t.page \in {"map", "scan"} /\ t.active \notin {tab[p].active, {}}
  THEN Visit(p, t, "trip", t.active, cs)
  ELSE /\ tab' = [tab EXCEPT ![p] = t]
       /\ Sending(cs \o
            CASE t.page = "trips" /\ (changed \/ over # {}) -> Ask(p, "active", {})
              [] t.page = "trip" /\ over # {} /\ over = t.viewed -> Ask(p, "trip", over)
              [] OTHER -> << >>)

\* What misled p about the page he leaves.
Left(p) == IF tab'[p].viewed # tab[p].viewed THEN {<<p, "page">>} ELSE {}

Open(p, page, T) ==
  /\ Turn(p)
  /\ page = "trip" <=> T # {}
  /\ <<page, T>> # <<tab[p].page, tab[p].viewed>>
  /\ Visit(p, tab[p], page, T, calls)
  /\ misled' = misled \ {<<p, "page">>}
  /\ UNCHANGED <<ride, desk, link, mail>>

\* The tab is loaded anew, its store with it.
FreshTab == [ page |-> "map", viewed |-> {}, shown |-> "loading", active |-> {},
           awaiting |-> {}, submitting |-> FALSE ]
Reload(p) ==
  LET heard == { i \in DOMAIN calls : calls[i].who # p \/ (calls[i].kind \in Writes /\ calls[i].stage = "sent") }
      deaf(k) == IF k.who = p THEN [k EXCEPT !.origin = "gone"] ELSE k
  IN  /\ Turn(p)
      /\ tab' = [tab EXCEPT ![p] = [FreshTab EXCEPT !.page = tab[p].page, !.viewed = tab[p].viewed]]
      /\ \E o \in InOrder(heard) :
           Sending([j \in DOMAIN o |-> deaf(calls[o[j]])] \o Mounts(p, tab[p].page, tab[p].viewed))
      /\ mail' = [mail EXCEPT ![p] = << >>]
      /\ misled' = misled \cup {<<p, "store">>, <<p, "page">>}
      /\ UNCHANGED <<ride, desk, link>>

\* onDecoded: a code is read.
Scan(p) ==
  /\ tab[p].page = "scan" /\ ~tab[p].submitting
  /\ Turn(p)
  /\ tab' = [tab EXCEPT ![p].submitting = TRUE]
  /\ Send(Ask(p, "pickup", {}))
  /\ UNCHANGED <<ride, desk, link, mail, misled>>

\* requestDropoff, on the page of an active trip.
GetOut(p) ==
  /\ tab[p].page = "trip" /\ tab[p].shown = "active"
  /\ ~tab[p].submitting /\ tab[p].viewed \cap tab[p].awaiting = {}
  /\ Turn(p)
  /\ tab' = [tab EXCEPT ![p].submitting = TRUE]
  /\ Send(Ask(p, "dropoff", tab[p].viewed))
  /\ UNCHANGED <<ride, desk, link, mail, misled>>

-----------------------------------------------------------------------------
(* The driver's page /map.                                                 *)
Sheets == { i \in DOMAIN calls : calls[i].kind = "sheet" }
Refresh == IF desk.on_map /\ Cardinality(Sheets) < MaxPolls THEN Ask(Driver, "sheet", {}) ELSE << >>

\* The pending requests become those of d.pending.  The watcher of /map asks the
\* driver about each one he was not asked about: the last dialog stays.
Noticed(d) ==
  LET fresh == { t \in d.pending : t \notin d.handled } IN
  IF d.on_map /\ fresh # {}
  THEN \E t \in fresh :
         desk' = [d EXCEPT !.handled = @ \cup fresh, !.dialog = [from |-> "prompt", trip |-> t]]
  ELSE desk' = d

GoToMap ==
  /\ ~desk.on_map /\ Turn(Driver)
  /\ desk' = [desk EXCEPT !.on_map = TRUE]
  /\ Send(Ask(Driver, "sheet", {}))
  /\ UNCHANGED <<ride, tab, link, mail, misled>>

LeaveMap ==
  /\ desk.on_map /\ Turn(Driver)
  /\ desk' = [desk EXCEPT !.on_map = FALSE, !.sheet = {}, !.handled = {}, !.completing = {}]
  /\ Leaving(Driver, calls, << >>)
  /\ UNCHANGED <<ride, tab, link, mail, misled>>

\* Mistake: the interval only runs while there are rows.
PollWhenShown ==
  /\ Refresh # << >> /\ desk.sheet # {}
  /\ Send(Refresh)
  /\ UNCHANGED <<ride, tab, desk, link, mail, turns, misled>>

\* The interval of thirty seconds.
Poll ==
  /\ Refresh # << >>
  /\ Send(Refresh)
  /\ UNCHANGED <<ride, tab, desk, link, mail, turns, misled>>

\* askConfirmation: the button of a row.
AskConfirmation(t) ==
  /\ desk.on_map /\ t \in desk.sheet \ desk.completing
  /\ Turn(Driver)
  /\ desk' = [desk EXCEPT !.dialog = [from |-> "sheet", trip |-> t]]
  /\ UNCHANGED <<ride, tab, link, mail, calls, misled>>

\* accept: nothing is sent without a position, nor twice for one row.
Accept(fix) ==
  /\ desk.dialog # NoDialog
  /\ LET t == desk.dialog.trip
         row == desk.dialog.from = "sheet"
         goes == fix /\ ~(row /\ t \in desk.completing)
     IN  /\ desk' = [desk EXCEPT !.dialog = NoDialog,
                                 !.handled = IF row THEN @ ELSE @ \ {t},
                                 !.completing = IF row /\ goes /\ desk.on_map THEN @ \cup {t} ELSE @]
         /\ Send(IF ~goes THEN << >>
                 ELSE Asked(Driver, "complete", {t}, IF row /\ desk.on_map THEN "page" ELSE "tab"))
  /\ UNCHANGED <<ride, tab, link, mail, turns, misled>>

\* Mistake: declining forgets the request.
RejectForgets ==
  /\ desk.dialog # NoDialog
  /\ desk' = [desk EXCEPT !.dialog = NoDialog, !.pending = @ \ {desk.dialog.trip},
                          !.handled = @ \ {desk.dialog.trip}]
  /\ UNCHANGED <<ride, tab, link, mail, calls, turns, misled>>

Reject ==
  /\ desk.dialog # NoDialog
  /\ desk' = [desk EXCEPT !.dialog = NoDialog,
                          !.handled = IF desk.dialog.from = "prompt" THEN @ \ {desk.dialog.trip} ELSE @]
  /\ UNCHANGED <<ride, tab, link, mail, calls, turns, misled>>

\* The dialog is closed without an answer.
CloseDialog ==
  /\ desk.dialog # NoDialog
  /\ desk' = [desk EXCEPT !.dialog = NoDialog]
  /\ UNCHANGED <<ride, tab, link, mail, calls, turns, misled>>

-----------------------------------------------------------------------------
(* The server.                                                             *)
\* emitToUsers: a socket that is down misses the event.
Publish(kind, t) ==
  LET e == [kind |-> kind, trip |-> t]
      told == { c \in {t[1], Driver} : link[c] }
  IN  /\ mail' = [c \in Clients |-> IF c \in told THEN Append(mail[c], e) ELSE mail[c]]
      /\ misled' = misled \cup ({t[1], Driver} \ told) \X {"store", "page"}

Reply(i, rides) ==
  calls' = IF calls[i].origin = "gone" THEN Done(i)
           ELSE [calls EXCEPT ![i].stage = "answered", ![i].rides = rides]

Read(i) ==
  /\ calls[i].stage = "sent" /\ calls[i].kind \in Reads
  /\ Reply(i, CASE calls[i].kind = "active" -> RideOf(calls[i].who)
                [] calls[i].kind = "trip"   -> calls[i].about \cap Onboard
                [] calls[i].kind = "sheet"  -> Onboard)
  /\ UNCHANGED <<ride, tab, desk, link, mail, turns, misled>>

\* The passenger is on board: handed to both clients, and to the one who asked.
Pickup(i) ==
  LET p == calls[i].who
      n == ride[p].n + 1
  IN  /\ calls[i].stage = "sent" /\ calls[i].kind = "pickup"
      /\ ~ride[p].on /\ n <= MaxRides
      /\ ride' = [ride EXCEPT ![p] = [n |-> n, on |-> TRUE]]
      /\ Reply(i, {<<p, n>>})
      /\ Publish("started", <<p, n>>)
      /\ UNCHANGED <<tab, desk, link, turns>>

ServeDropoff(i) ==
  /\ calls[i].stage = "sent" /\ calls[i].kind = "dropoff"
  /\ \E t \in calls[i].about :
       /\ IsActive(t)
       /\ Reply(i, {t})
       /\ Publish("dropoff_requested", t)
  /\ UNCHANGED <<ride, tab, desk, link, turns>>

Complete(i) ==
  /\ calls[i].stage = "sent" /\ calls[i].kind = "complete"
  /\ \E t \in calls[i].about :
       /\ IsActive(t)
       /\ ride' = [ride EXCEPT ![t[1]].on = FALSE]
       /\ Reply(i, {})
       /\ Publish("completed", t)
  /\ UNCHANGED <<tab, desk, link, turns>>

\* The handler refuses: too far, too early, not active, already in a trip.
Refuse(i) ==
  /\ calls[i].stage = "sent" /\ calls[i].kind \in Writes
  /\ calls' = IF calls[i].origin = "gone" THEN Done(i) ELSE [calls EXCEPT ![i].stage = "failed"]
  /\ UNCHANGED <<ride, tab, desk, link, mail, turns, misled>>

Serve(i) == Read(i) \/ Pickup(i) \/ ServeDropoff(i) \/ Complete(i) \/ Refuse(i)

\* AdminTripsService.cancel tells no one.
CancelRide(p) ==
  /\ ride[p].on /\ Turn(p)
  /\ ride' = [ride EXCEPT ![p].on = FALSE]
  /\ misled' = misled \cup {p} \X {"store", "page"}
  /\ UNCHANGED <<tab, desk, link, mail, calls>>

-----------------------------------------------------------------------------
(* What reaches the clients.                                               *)
\* handleStarted, handleDropoffRequested, handleCompleted for a passenger.
PassengerHears(p) ==
  /\ mail[p] # << >>
  /\ LET e == Head(mail[p])
         t == tab[p]
     IN  CASE e.kind = "started" -> Stored(p, [t EXCEPT !.active = {e.trip}], {}, calls)
           [] e.kind = "dropoff_requested" -> Stored(p, [t EXCEPT !.awaiting = @ \cup {e.trip}], {}, calls)
           [] e.kind = "completed" ->
                Stored(p, [t EXCEPT !.active = @ \ {e.trip}, !.awaiting = @ \ {e.trip}], {e.trip}, calls)
  /\ mail' = [mail EXCEPT ![p] = Tail(@)]
  /\ misled' = misled \ Left(p)
  /\ UNCHANGED <<ride, desk, link, turns>>

\* The same events for the driver; each refreshes the sheet.
DriverHears ==
  /\ mail[Driver] # << >>
  /\ LET e == Head(mail[Driver])
         pending == CASE e.kind = "started" -> desk.pending
                      [] e.kind = "dropoff_requested" -> desk.pending \cup {e.trip}
                      [] e.kind = "completed" -> desk.pending \ {e.trip}
     IN  /\ IF e.kind = "started" THEN UNCHANGED desk
            ELSE Noticed([desk EXCEPT !.pending = pending])
         /\ Send(IF e.kind = "dropoff_requested" /\ pending = desk.pending THEN << >> ELSE Refresh)
  /\ mail' = [mail EXCEPT ![Driver] = Tail(@)]
  /\ UNCHANGED <<ride, tab, link, turns, misled>>

\* setFromApi, even when the page that asked is gone.  An answer that is no
\* longer true misleads; a true one corrects, if no older event follows it.
TakeActive(i) ==
  LET k == calls[i]
      p == k.who
  IN  /\ k.kind = "active" /\ k.stage = "answered"
      /\ Stored(p, [tab[p] EXCEPT !.active = k.rides], {}, Done(i))
      /\ misled' = IF k.rides # RideOf(p) THEN (misled \ Left(p)) \cup {<<p, "store">>}
                   ELSE misled \ (Left(p) \cup (IF mail[p] = << >> THEN {<<p, "store">>} ELSE {}))
      /\ UNCHANGED <<ride, desk, link, mail, turns>>

\* load of /trip/[id].
TakeTrip(i) ==
  LET k == calls[i] IN
  /\ k.kind = "trip" /\ k.stage = "answered"
  /\ tab' = [tab EXCEPT ![k.who].shown = IF k.rides = {} THEN "over" ELSE "active"]
  /\ calls' = Done(i)
  /\ misled' = IF k.rides = k.about \cap Onboard THEN misled \ {<<k.who, "page">>}
               ELSE misled \cup {<<k.who, "page">>}
  /\ UNCHANGED <<ride, desk, link, mail, turns>>

TakeSheet(i) ==
  LET k == calls[i] IN
  /\ k.kind = "sheet" /\ k.stage = "answered"
  /\ desk' = [desk EXCEPT !.sheet = k.rides, !.completing = @ \ k.about]
  /\ calls' = Done(i)
  /\ UNCHANGED <<ride, tab, link, mail, turns, misled>>

\* The pickup succeeded: the page of the trip, wherever the passenger is by now.
TakePickup(i) ==
  LET k == calls[i]
      p == k.who
  IN  /\ k.kind = "pickup" /\ k.stage = "answered"
      /\ IF <<tab[p].page, tab[p].viewed>> = <<"trip", k.rides>>
         THEN calls' = Done(i) /\ UNCHANGED tab
         ELSE Visit(p, tab[p], "trip", k.rides, Done(i))
      /\ misled' = misled \ Left(p)
      /\ UNCHANGED <<ride, desk, link, mail, turns>>

TakeDropoff(i) ==
  LET k == calls[i] IN
  /\ k.kind = "dropoff" /\ k.stage = "answered"
  /\ tab' = [tab EXCEPT ![k.who].submitting = @ /\ k.origin # "page"]
  /\ calls' = Done(i)
  /\ UNCHANGED <<ride, desk, link, mail, turns, misled>>

\* dismissPendingDropoff; the sheet then loads again, its row guarded meanwhile.
TakeComplete(i) ==
  LET k == calls[i] IN
  /\ k.kind = "complete" /\ k.stage = "answered"
  /\ Noticed([desk EXCEPT !.pending = @ \ k.about])
  /\ calls' = Done(i) \o (IF k.origin = "page" THEN Ask(Driver, "sheet", k.about) ELSE << >>)
  /\ UNCHANGED <<ride, tab, link, mail, turns, misled>>

\* A call failed: an error is shown, /trip/[id] shows nothing else.
TakeFailure(i) ==
  LET k == calls[i] IN
  /\ k.stage = "failed"
  /\ tab' = CASE k.kind = "trip" -> [tab EXCEPT ![k.who].shown = "error"]
              [] k.kind \in {"pickup", "dropoff"} ->
                   [tab EXCEPT ![k.who].submitting = @ /\ k.origin # "page"]
              [] OTHER -> tab
  /\ desk' = [desk EXCEPT !.completing = IF k.who = Driver /\ k.origin = "page"
                                             THEN @ \ k.about ELSE @]
  /\ calls' = Done(i)
  /\ UNCHANGED <<ride, link, mail, turns, misled>>

Deliver(i) ==
  \/ TakeActive(i) \/ TakeTrip(i) \/ TakeSheet(i) \/ TakePickup(i)
  \/ TakeDropoff(i) \/ TakeComplete(i) \/ TakeFailure(i)

\* A request or its answer is lost.
Lose(i) ==
  /\ calls[i].stage # "failed" /\ calls[i].origin # "gone" /\ Turn(calls[i].who)
  /\ calls' = [calls EXCEPT ![i].stage = "failed"]
  /\ UNCHANGED <<ride, tab, desk, link, mail, misled>>

\* The socket breaks with what it carried; it comes back without asking for the trips.
Drop(c) ==
  /\ link[c] /\ Turn(c)
  /\ link' = [link EXCEPT ![c] = FALSE]
  /\ mail' = [mail EXCEPT ![c] = << >>]
  /\ misled' = IF mail[c] = << >> THEN misled ELSE misled \cup {c} \X {"store", "page"}
  /\ UNCHANGED <<ride, tab, desk, calls>>

Connect(c) ==
  /\ ~link[c]
  /\ link' = [link EXCEPT ![c] = TRUE]
  /\ UNCHANGED <<ride, tab, desk, mail, calls, turns, misled>>

-----------------------------------------------------------------------------
ClientInit ==
  /\ ride = [p \in Passengers |-> [n |-> 0, on |-> FALSE]]
  /\ tab = [p \in Passengers |-> [FreshTab EXCEPT !.page = "scan"]]
  /\ desk = [ on_map |-> TRUE, pending |-> {}, handled |-> {}, dialog |-> NoDialog,
              sheet |-> {}, completing |-> {} ]
  /\ link = [c \in Clients |-> TRUE]
  /\ mail = [c \in Clients |-> << >>]
  /\ calls = << >>
  /\ turns = [c \in Clients |-> 0]
  /\ misled = {}

PassengerActs(p) ==
  \/ \E page \in Pages, T \in {{}} \cup { {t} : t \in {p} \X (1..ride[p].n) } : Open(p, page, T)
  \/ Reload(p) \/ Scan(p) \/ GetOut(p) \/ CancelRide(p)

DriverActs ==
  \/ GoToMap \/ LeaveMap \/ (\E t \in Rides : AskConfirmation(t))
  \/ (\E fix \in BOOLEAN : Accept(fix)) \/ Reject \/ CloseDialog

Hears == DriverHears \/ \E p \in Passengers : PassengerHears(p)

ClientNext ==
  \/ \E p \in Passengers : PassengerActs(p)
  \/ DriverActs \/ Poll \/ Hears
  \/ \E i \in DOMAIN calls : Serve(i) \/ Deliver(i) \/ Lose(i)
  \/ \E c \in Clients : Drop(c) \/ Connect(c)

ClientSpec == ClientInit /\ [][ClientNext]_client_vars

\* The interval fires, the oldest call is answered and its answer delivered,
\* events that were sent arrive.
Fairness ==
  /\ WF_client_vars(Poll) /\ WF_client_vars(DriverHears)
  /\ \A p \in Passengers : WF_client_vars(PassengerHears(p))
  /\ WF_client_vars(calls # << >> /\ Serve(1)) /\ WF_client_vars(calls # << >> /\ Deliver(1))
FairSpec == ClientSpec /\ Fairness

-----------------------------------------------------------------------------
ClientTypeOK ==
  /\ ride \in [Passengers -> [n : 0..MaxRides, on : BOOLEAN]]
  /\ tab \in [Passengers -> Tab]
  /\ desk \in Desk
  /\ mail \in [Clients -> Seq(ClientEvent)]
  /\ calls \in Seq(Call)
  /\ link \in [Clients -> BOOLEAN] /\ turns \in [Clients -> 0..MaxTurns]
  /\ misled \subseteq Clients \X {"store", "page"}
  /\ \A p \in Passengers : /\ Cardinality(tab[p].active) <= 1
                           /\ tab[p].page = "trip" <=> tab[p].viewed # {}

Quiet(c) == mail[c] = << >> /\ InFlight(c) = {}

\* Once nothing is on its way to a passenger, his store holds the trip he is in
\* and the page of a trip shows whether it goes on: only a lost event, a cancel
\* nobody announced or an answer overtaken by the truth leaves them wrong
\* (stores/trip.ts, load of pages/trip/[id].vue).
PassengerSeesTheTruth ==
  \A p \in Passengers : Quiet(p) =>
    /\ <<p, "store">> \notin misled => tab[p].active = RideOf(p)
    /\ <<p, "page">> \notin misled /\ tab[p].page = "trip" /\ tab[p].shown # "error" =>
         (tab[p].shown = "active") <=> (tab[p].viewed = RideOf(p))

\* A passenger who is told to wait for the driver is on the driver's screen, until
\* the trip ends: declining or closing a dialog does not lose his request
\* (handleDropoffRequested on both sides, reject in pages/map.vue).
AwaitingIsPending ==
  \A p \in Passengers : \A t \in tab[p].awaiting \cap Onboard :
    <<Driver, "store">> \notin misled /\ Quiet(Driver) => t \in desk.pending

\* Whatever was missed, the sheet of a driver who stays on /map ends up listing
\* the passengers on board (the polling of DriverActiveTripsSheet).
SheetCatchesUp == <>[](desk.on_map => desk.sheet = Onboard)

\* /scan sends away only a passenger who has an active trip (pages/scan.vue, lines
\* 24-25, and its watcher): nothing on its way to him excuses the detour.
ScanIsOpen ==
  [][\A p \in Passengers : Quiet(p) /\ Open(p, "scan", {}) =>
       tab'[p].page = "scan" \/ RideOf(p) # {}]_client_vars
=============================================================================
