--------------------------------- MODULE Fares ---------------------------------
(***************************************************************************)
(* Everybody who sees a tariff: the passenger's map, which asks what the   *)
(* journey from where he is, by GPS or by hand, would cost 250 ms after    *)
(* each change and aborts what it had asked; the admins' settings page,    *)
(* which saves one tariff at a time and loads them all again; and the end  *)
(* of a trip, whose recorded points are measured by Mapbox in chunks, or   *)
(* as the crow flies.  The tariffs themselves are Pricing's.               *)
(***************************************************************************)
EXTENDS Pricing, SequencesExt

CONSTANTS
  Places,     \* where a passenger may be
  Towns,      \* where he may go
  None,
  Lengths,    \* what Directions, or the fallback, may answer for a journey
  Routes,     \* the legs between the recorded points of a trip
  ChunkSize,  \* points in one call of Map Matching
  Balances,   \* the wallet of the passenger
  MaxCalls,   \* bound: calls of either page under way
  MaxTurns    \* bound: what people do

VARIABLES
  map,      \* the passenger's map
  kept,     \* localStorage: a position set by hand, the last destination
  asks,     \* estimates under way
  desk,     \* the settings page
  calls,    \* loads and saves under way
  route,    \* the route of the last trip that was priced
  turns,
  unsure    \* history: the page missed something

page == <<map, asks, kept>>
admin == <<desk, calls, unsure>>
all == <<vars, page, admin, route, turns>>

Journeys == Places \X Towns
NoFare == [of |-> None, fare |-> 0]
Shown == [of : Journeys, fare : Int] \cup {NoFare}
Unknown == -1
Storage == [manual : Places \cup {None}, town : Towns \cup {None}]
\* gps: watching; fix, manual: of the geo store; town: lastDestination;
\* timer: of the debounce; credit: walletBalance.
Map ==
  [ gps : BOOLEAN, fix : Places \cup {None}, manual : Places \cup {None}, town : Towns \cup {None},
    shown : Shown, timer : BOOLEAN, error : BOOLEAN, spins : BOOLEAN,
    credit : Balances \cup {Unknown}, waiting : BOOLEAN ]
\* live: not aborted.
Estimate == [of : Journeys, live : BOOLEAN, answer : Shown, failed : BOOLEAN]
\* cards: a load has answered.
Desk == [open : BOOLEAN, cards : BOOLEAN, seen : [Keys -> Int]]
Call == [ kind : {"load", "save"}, key : Keys \cup {None}, value : Int,
          answer : {"none", "ok", "failed"}, all : [Keys -> Int] ]

Turn == turns < MaxTurns /\ turns' = turns + 1

-----------------------------------------------------------------------------
(* A trip is measured (MapboxService.computeDistanceMeters).               *)
Total(legs) == FoldSeq(+, 0, legs)
\* Mutant: the chunks overlap by two points.
ChunksOverlap(n) ==
  { lo..Min({lo + ChunkSize, n}) : lo \in { i \in 1..n : (i - 1) % (ChunkSize - 1) = 0 } }
\* Leg i is between the points i and i + 1.
Chunks(n) ==
  { lo..Min({lo + ChunkSize - 1, n}) : lo \in { i \in 1..n : (i - 1) % ChunkSize = 0 } }
\* The legs of one chunk of the points.
Within(c, legs) == { i \in DOMAIN legs : i \in c /\ i + 1 \in c }
Matched(legs) ==
  FoldSet(LAMBDA c, sum : sum + FoldSet(LAMBDA i, part : part + legs[i], 0, Within(c, legs)),
          0, Chunks(Len(legs) + 1))
\* A chunk of one point is refused, and with it the whole route.
Measures(legs) ==
  {Total(legs)} \cup IF \A c \in Chunks(Len(legs) + 1) : Cardinality(c) > 1 THEN {Matched(legs)} ELSE {}

\* Distances are all that is measured, of a trip and of a journey.
ASSUME FaresAssumption ==
  /\ None \notin Places \cup Towns \cup Journeys
  /\ Lengths \in [Journeys -> SUBSET Distances]
  /\ \A legs \in Routes : Measures(legs) \subseteq Distances
  /\ Balances \subseteq Int
  /\ {MaxCalls, MaxTurns} \subseteq Nat

PriceRoute(legs) ==
  /\ Turn
  /\ \E m \in Measures(legs) : Price(m)
  /\ route' = legs
  /\ UNCHANGED <<page, admin>>

-----------------------------------------------------------------------------
(* The passenger's map.                                                    *)
Effective == IF map.manual # None THEN map.manual ELSE map.fix
Journey == IF Effective = None \/ map.town = None THEN None ELSE <<Effective, map.town>>

\* setFix, of watchPosition; nobody watches effective while a position set by hand stands.
Fix(p) ==
  /\ Turn /\ map.gps
  /\ map' = [map EXCEPT !.fix = p, !.timer = @ \/ map.manual = None]
  /\ UNCHANGED <<vars, asks, kept, admin, route>>

\* The page is hidden, or shown again; the last fix stays.
Visible ==
  /\ Turn
  /\ map' = [map EXCEPT !.gps = ~@]
  /\ UNCHANGED <<vars, asks, kept, admin, route>>

\* setManual, clearManual; persist.
KeptPlace(p) == [kept EXCEPT !.manual = p]
KeptTown(town) == [kept EXCEPT !.town = town]

\* onMapPick, clearManualPosition.
Place(p) ==
  /\ Turn /\ p # map.manual
  /\ map' = [map EXCEPT !.manual = p, !.timer = TRUE]
  /\ kept' = KeptPlace(p)
  /\ UNCHANGED <<vars, asks, admin, route>>

\* A favourite, or one of the list. Mutant: a change that is not watched.
ChosenSilently(town) == [map EXCEPT !.town = town]
Chosen(town) == [map EXCEPT !.town = town, !.timer = TRUE]
Choose(town) ==
  /\ Turn /\ town # map.town
  /\ map' = Chosen(town)
  /\ kept' = KeptTown(town)
  /\ UNCHANGED <<vars, asks, admin, route>>

Aborted == [ i \in DOMAIN asks |-> [asks[i] EXCEPT !.live = FALSE] ]
\* refreshEstimate.
Fire ==
  /\ map.timer
  /\ IF Journey = None
     THEN /\ map' = [map EXCEPT !.timer = FALSE, !.shown = NoFare, !.error = FALSE,
                                !.spins = FALSE]
          /\ asks' = Aborted
     ELSE /\ Len(asks) < MaxCalls
          /\ map' = [map EXCEPT !.timer = FALSE, !.error = FALSE, !.spins = TRUE]
          /\ asks' = Append(Aborted, [of |-> Journey, live |-> TRUE, answer |-> NoFare, failed |-> FALSE])
  /\ UNCHANGED <<vars, kept, admin, route, turns>>

\* TripsService.estimate, under the tariffs of the moment, or an error.
ServeEstimate(i) ==
  /\ asks[i].answer = NoFare /\ ~asks[i].failed
  /\ \/ \E m \in Lengths[asks[i].of] :
          asks' = [asks EXCEPT ![i].answer = [of |-> asks[i].of, fare |-> Fare(m)]]
     \/ asks' = [asks EXCEPT ![i].failed = TRUE]
  /\ UNCHANGED <<vars, map, kept, admin, route, turns>>

\* The answer, the error, or the abort: whichever it was, the spinner stops.
HeededAlways(ask) == ask.answer # NoFare   \* mutant
Heeded(ask) == ask.live
TakeEstimate(i) ==
  /\ ~asks[i].live \/ asks[i].failed \/ asks[i].answer # NoFare
  /\ asks' = RemoveAt(asks, i)
  /\ map' = IF Heeded(asks[i])
            THEN [map EXCEPT !.shown = asks[i].answer, !.error = asks[i].failed, !.spins = FALSE]
            ELSE [map EXCEPT !.spins = FALSE]
  /\ UNCHANGED <<vars, kept, admin, route, turns>>

\* The page is left and mounted again, or loaded again: then the stores are empty but for
\* what localStorage kept, and what is under way is never answered.
Mounted(memory) ==
  [memory EXCEPT !.gps = TRUE, !.shown = NoFare, !.timer = TRUE, !.error = FALSE,
                 !.spins = FALSE, !.credit = Unknown]
Blank == [ gps |-> TRUE, fix |-> None, manual |-> None, town |-> None, shown |-> NoFare, timer |-> TRUE,
           error |-> FALSE, spins |-> FALSE, credit |-> Unknown, waiting |-> FALSE ]
Remount ==
  /\ Turn
  /\ map' = Mounted(map)
  /\ asks' = << >>
  /\ UNCHANGED <<vars, kept, admin, route>>
Reload ==
  /\ Turn
  /\ map' = [Blank EXCEPT !.manual = kept.manual, !.town = kept.town]
  /\ asks' = << >>
  /\ UNCHANGED <<vars, kept, admin, route>>

\* loadWalletBalance.
Credit(balance) ==
  /\ Turn
  /\ map' = [map EXCEPT !.credit = balance]
  /\ UNCHANGED <<vars, asks, kept, admin, route>>

\* insufficientCredit.
ShortOfHalf == map.shown # NoFare /\ map.credit # Unknown /\ 2 * map.credit < map.shown.fare   \* mutant
Short == map.shown # NoFare /\ map.credit # Unknown /\ map.credit < map.shown.fare
\* toggleWaiting.
Wait ==
  /\ Turn
  /\ Journey # None /\ ~map.waiting /\ ~Short
  /\ map' = [map EXCEPT !.waiting = TRUE]
  /\ UNCHANGED <<vars, asks, kept, admin, route>>
StopWaiting ==
  /\ Turn
  /\ map.waiting
  /\ map' = [map EXCEPT !.waiting = FALSE]
  /\ UNCHANGED <<vars, asks, kept, admin, route>>

-----------------------------------------------------------------------------
(* The settings page.                                                      *)
Load == [kind |-> "load", key |-> None, value |-> 0, answer |-> "none", all |-> Default]
OpenDesk ==
  /\ Turn /\ ~desk.open /\ calls = << >>
  /\ desk' = [desk EXCEPT !.open = TRUE]
  /\ calls' = <<Load>>
  /\ UNCHANGED <<vars, page, route, unsure>>

\* saving: until the load that follows a save is answered too.
Saving(k) == \E i \in DOMAIN calls : calls[i].key = k
\* save; the field keeps v within the bounds.
Save(k, v) ==
  /\ Turn /\ desk.open /\ desk.cards
  /\ v \in 0..Largest /\ v # desk.seen[k] /\ ~Saving(k) /\ Len(calls) < MaxCalls
  /\ calls' = Append(calls, [Load EXCEPT !.kind = "save", !.key = k, !.value = v])
  /\ UNCHANGED <<vars, page, desk, route, unsure>>

\* The page is about to take tariffs that are older.
Overtaken == \E i \in DOMAIN calls : calls[i].kind = "load" /\ calls[i].answer = "ok"
ServeSave(i) ==
  /\ calls[i].kind = "save" /\ calls[i].answer = "none"
  /\ Update(calls[i].key, calls[i].value)
  /\ calls' = [calls EXCEPT ![i].answer = "ok"]
  /\ unsure' = (unsure \/ Overtaken)
  /\ UNCHANGED <<page, desk, route, turns>>
ServeLoad(i) ==
  /\ calls[i].kind = "load" /\ calls[i].answer = "none"
  /\ calls' = [calls EXCEPT ![i].answer = "ok", ![i].all = setting]
  /\ UNCHANGED <<vars, page, desk, route, turns, unsure>>
Lose(i) ==
  /\ Turn /\ calls[i].answer # "failed"
  /\ calls' = [calls EXCEPT ![i].answer = "failed", ![i].all = Default]
  /\ unsure' = TRUE
  /\ UNCHANGED <<vars, page, desk, route>>

NothingAfterSave(call) == << >>   \* mutant
AfterSave(call) == IF call.answer = "ok" THEN <<[Load EXCEPT !.key = call.key]>> ELSE << >>
TakeSave(i) ==
  /\ calls[i].kind = "save" /\ calls[i].answer # "none"
  /\ calls' = RemoveAt(calls, i) \o AfterSave(calls[i])
  /\ UNCHANGED <<vars, page, desk, route, turns, unsure>>

\* load: what was typed for another tariff and not saved yet is gone.
TakeLoad(i) ==
  /\ calls[i].kind = "load" /\ calls[i].answer # "none"
  /\ calls' = RemoveAt(calls, i)
  /\ desk' = IF calls[i].answer = "ok" THEN [desk EXCEPT !.cards = TRUE, !.seen = calls[i].all] ELSE desk
  /\ unsure' = (unsure /\ ~(calls[i].answer = "ok" /\ calls[i].all = setting
                            /\ \A j \in DOMAIN calls \ {i} : calls[j].kind = "load" => calls[j].answer = "none"))
  /\ UNCHANGED <<vars, page, route, turns>>

\* Another admin, another page; a restart.
Elsewhere ==
  /\ Turn
  /\ (\E k \in Keys, v \in Values : Update(k, v)) \/ ForgetOverrides
  /\ unsure' = TRUE
  /\ UNCHANGED <<page, desk, calls, route>>

-----------------------------------------------------------------------------
Closed == [open |-> FALSE, cards |-> FALSE, seen |-> Default]
FaresInit ==
  /\ Init
  /\ map = Blank /\ kept = [manual |-> None, town |-> None]
  /\ asks = << >> /\ calls = << >> /\ route = << >> /\ turns = 0 /\ unsure = FALSE
  /\ desk = Closed

FaresNext ==
  \/ \E p \in Places : Fix(p)
  \/ \E p \in Places \cup {None} : Place(p)
  \/ \E town \in Towns \cup {None} : Choose(town)
  \/ Visible \/ Fire \/ Remount \/ Reload \/ Wait \/ StopWaiting \/ OpenDesk \/ Elsewhere
  \/ \E balance \in Balances \cup {Unknown} : Credit(balance)
  \/ \E i \in DOMAIN asks : ServeEstimate(i) \/ TakeEstimate(i)
  \/ \E k \in Keys, v \in Values : Save(k, v)
  \/ \E i \in DOMAIN calls : ServeSave(i) \/ ServeLoad(i) \/ Lose(i) \/ TakeSave(i) \/ TakeLoad(i)
  \/ \E legs \in Routes : PriceRoute(legs)

FaresSpec == FaresInit /\ [][FaresNext]_all

-----------------------------------------------------------------------------
(* Properties.                                                             *)
FaresTypeOK ==
  /\ TypeOK
  /\ map \in Map /\ kept \in Storage /\ desk \in Desk
  /\ asks \in Seq(Estimate) /\ calls \in Seq(Call)
  /\ route \in Routes \cup {<< >>} /\ turns \in 0..MaxTurns /\ unsure \in BOOLEAN

\* When nothing is awaited, the fare on the map is that of the journey that is chosen,
\* however the answers to earlier choices came, and nothing spins (refreshEstimate).
Awaited == map.timer \/ \E i \in DOMAIN asks : asks[i].live
FareIsOfJourney ==
  ~Awaited => /\ ~map.spins
              /\ map.shown.of = Journey \/ (map.error /\ map.shown = NoFare)

\* A passenger who starts waiting has seen a fare he can pay, unless the fare is still
\* awaited, could not be had, or his wallet is unknown (insufficientCredit).
NobodyWaitsShort ==
  [][map'.waiting /\ ~map.waiting =>
       \/ Awaited \/ map.error \/ map.credit = Unknown
       \/ map.shown.of = Journey /\ map.shown.fare <= map.credit]_all

\* The settings page shows the tariffs in force once its calls are answered, unless they
\* changed elsewhere, an answer was lost, or two loads crossed (load, save).
DeskCatchesUp == desk.open /\ calls = << >> /\ ~unsure => desk.cards /\ desk.seen = setting

\* A route is never measured longer than its legs, and shorter by at most one leg for
\* every ChunkSize points (computeDistanceMeters, chunk).
RouteIsMeasured ==
  LET longest == FoldSeq(LAMBDA leg, m : IF leg > m THEN leg ELSE m, 0, route)
  IN  quote.distance <= Total(route) /\ Total(route) - quote.distance <= longest * (Len(route) \div ChunkSize)
=============================================================================
