------------------------------- MODULE Presence -------------------------------
(***************************************************************************)
(* Who is on the map: RealtimeGateway and LocationsService on the server,  *)
(* and in the web client the socket plugin, the presence, drivers and      *)
(* passengers stores and the toggles of /map.                              *)
(*                                                                         *)
(* A message is in flight from its emission to the end of its handler,     *)
(* which awaits several statements: the messages of a socket are           *)
(* dispatched in order but their handlers overlap.  The rows driver_status *)
(* and passenger_waits are read again for every broadcast.  A dead         *)
(* connection is noticed by the client and by the server each in its time. *)
(***************************************************************************)
EXTENDS Naturals, FiniteSets, SequencesExt

CONSTANTS
  Users,
  Drivers,        \* users in driver mode to begin with
  Switchers,      \* users who change mode
  Manual,         \* users who set their position by hand: no GPS
  Positions,      \* [dir, spot]: the way someone goes, and a neighbourhood
  Nowhere,        \* no position yet
  MaxFlight,      \* bound: messages in transit or being handled
  MaxBuffer,      \* bound: messages buffered by a socket that is down
  Throttle,       \* BROADCAST_THROTTLE_MS, in ticks of the clock
  MaxEvents       \* bound: navigations, connections lost, failures... of a user

VARIABLES
  client,     \* the tab of each user
  link,       \* its socket: up, dead (nobody noticed), down, or out (no token)
  zombie,     \* users with a dead socket the server still believes in
  buffer,     \* messages emitted while the socket is down
  row,        \* driver_status and passenger_waits
  recent,     \* lastBroadcast: ticks before the next broadcast of a user
  riding,     \* users with an active trip as passengers
  flight,     \* the messages in transit or being handled, oldest first
  events,     \* how many of the bounded events happened to each user
  shaken,     \* history: users whose presence messages overlapped or were lost
  blurred     \* history: the stores that may show someone who left

server == <<row, recent, riding>>
socket == <<link, zombie, buffer>>
history == <<events, shaken, blurred>>
presence_vars == <<client, socket, server, flight, history>>

-----------------------------------------------------------------------------
Roles == {"driver", "passenger"}
Other(r) == IF r = "driver" THEN "passenger" ELSE "driver"
RoleOf(u) == IF client[u].is_driver THEN "driver" ELSE "passenger"

\* driverOnline or passengerWaiting; the two stores by the role they hold.
Tab == [ is_driver : BOOLEAN, on_map : BOOLEAN, fix : Positions \cup {Nowhere},
         on : [Roles -> BOOLEAN], store : [Roles -> SUBSET Users] ]

Spots == { p.spot : p \in Positions }
Directions == { p.dir : p \in Positions }
Seen == [ dir : Directions, spot : Spots ]
ASSUME PresenceAssumption ==
  /\ Drivers \subseteq Users /\ Switchers \subseteq Users /\ Manual \subseteq Users
  /\ Positions \subseteq Seen /\ Nowhere \notin Seen
  /\ {MaxFlight, MaxBuffer, Throttle, MaxEvents} \subseteq Nat

\* Whoever is online or waits has a position.
Row == { w \in [ on : BOOLEAN, at : Seen \cup {Nowhere} ] : w.on => w.at # Nowhere }

Kinds == {"join", "leave", "position"}
Message == [ kind : Kinds, role : Roles, at : Positions \cup {Nowhere} ]
Msg(kind, r, p) == [ kind |-> kind, role |-> r, at |-> p ]

\* What a handler still has to do, in order.
Routines == { "write", "record", "broadcast", "snapshot", "removed" }
Job == [ does : Routines, role : Roles ]
Do(routine, r) == [ does |-> routine, role |-> r ]

Agenda(m) ==
  CASE m.kind = "join"     -> << Do("write", m.role), Do("broadcast", m.role), Do("snapshot", m.role) >>
    [] m.kind = "leave"    -> << Do("write", m.role), Do("removed", m.role) >>
    [] m.kind = "position" -> << Do("write", m.role),
                                 Do(IF m.role = "driver" THEN "broadcast" ELSE "record", m.role) >>

\* Mistake: the rows are cleared and nobody is told.
SilentCleanup == << Do("write", "driver"), Do("write", "passenger") >>

\* handleDisconnect.
Cleanup == << Do("write", "driver"), Do("write", "passenger"),
              Do("removed", "driver"), Do("removed", "passenger") >>

Handler == [ who : Users, kind : Kinds \cup {"disconnect"}, agenda : Seq(Job),
             stage : {"sent", "own", "near", "emit"}, at : Seen \cup {Nowhere}, found : SUBSET Users ]
Handling(u, kind, p, stage, agenda) ==
  [ who |-> u, kind |-> kind, agenda |-> agenda, stage |-> stage, at |-> p, found |-> {} ]

\* The handlers at work, and the messages not yet dispatched.
Busy == { i \in DOMAIN flight : flight[i].stage # "sent" }
OnItsWay(u) == \E i \in DOMAIN flight : flight[i].who = u
InTransit(u) == \E i \in DOMAIN flight \ Busy : flight[i].who = u

Event(u) == events[u] < MaxEvents /\ events' = [events EXCEPT ![u] = @ + 1]
Shake(S) == shaken' = shaken \cup S
Stores == Users \X Roles
Blur(S) == blurred' = blurred \cup S

-----------------------------------------------------------------------------
(* The sockets.                                                            *)
Sent(u, msgs) ==
  [i \in DOMAIN msgs |-> Handling(u, msgs[i].kind, msgs[i].at, "sent", Agenda(msgs[i]))]

\* socket.emit: sent, buffered while the socket is down, lost on a dead one.
Emit(u, msgs) ==
  /\ flight' = IF link[u] = "up" THEN flight \o Sent(u, msgs) ELSE flight
  /\ buffer' = IF link[u] = "down" THEN [buffer EXCEPT ![u] = @ \o msgs] ELSE buffer
  /\ Len(flight') <= MaxFlight /\ Len(buffer'[u]) <= MaxBuffer

ClearStores(tab) == [tab EXCEPT !.store = [r \in Roles |-> {}]]

\* The increasing enumeration of a set of indices.
InOrder(I) == { o \in [1 .. Cardinality(I) -> I] : \A j, k \in DOMAIN o : j < k => o[j] < o[k] }
Lost(u, n) == { i \in DOMAIN flight : i > n /\ flight[i].who = u /\ flight[i].stage = "sent" }

\* The connection breaks: what had arrived by then, the messages of u among the
\* n oldest, is still dispatched.
Break(u) ==
  /\ link[u] = "up" /\ u \notin zombie
  /\ Event(u)
  /\ link' = [link EXCEPT ![u] = "dead"]
  /\ zombie' = zombie \cup {u}
  /\ \E n \in 0 .. Len(flight) : \E o \in InOrder(DOMAIN flight \ Lost(u, n)) :
       flight' = [k \in DOMAIN o |-> flight[o[k]]]
  /\ UNCHANGED <<client, buffer, server, shaken, blurred>>

\* The client's side of the socket times out: 'disconnect'.
Notice(u) ==
  /\ link[u] = "dead"
  /\ link' = [link EXCEPT ![u] = "down"]
  /\ client' = [client EXCEPT ![u] = ClearStores(@)]
  /\ UNCHANGED <<zombie, buffer, server, flight, history>>

\* What the 'connect' listener tells the server again.
Resync(u) ==
  IF client[u].fix # Nowhere /\ client[u].on[RoleOf(u)]
    THEN << Msg("join", RoleOf(u), client[u].fix) >> ELSE <<>>

\* The socket reconnects: the buffer is sent, then the listener runs.
Reconnect(u) ==
  /\ link[u] = "down" /\ ~ InTransit(u)
  /\ link' = [link EXCEPT ![u] = "up"]
  /\ flight' = flight \o Sent(u, buffer[u] \o Resync(u))
  /\ Len(flight') <= MaxFlight
  /\ buffer' = [buffer EXCEPT ![u] = <<>>]
  /\ Shake({ v \in {u} : client[u].on[RoleOf(u)] /\ client[u].fix = Nowhere })
  /\ UNCHANGED <<client, zombie, server, events, blurred>>

\* logout(): the token watcher resets the intent, and disconnects a socket that
\* believes it is connected; one that is down is refused when it comes back.
Logout(u) ==
  /\ link[u] # "out"
  /\ Event(u)
  /\ client' = [client EXCEPT ![u] = [ClearStores(@) EXCEPT !.on = [r \in Roles |-> FALSE]]]
  /\ link' = [link EXCEPT ![u] = "out"]
  /\ zombie' = IF link[u] = "up" THEN zombie \cup {u} ELSE zombie
  /\ Shake({ v \in {u} : link[u] = "down" })
  /\ UNCHANGED <<buffer, server, flight, blurred>>

Login(u) ==
  /\ link[u] = "out"
  /\ Event(u)
  /\ link' = [link EXCEPT ![u] = "down"]
  /\ UNCHANGED <<client, zombie, buffer, server, flight, shaken, blurred>>

-----------------------------------------------------------------------------
(* The client.                                                             *)
MapOpen(u) == link[u] # "out" /\ client[u].on_map
With(u, tab, msgs) ==
  /\ client' = [client EXCEPT ![u] = tab]
  /\ Emit(u, msgs)
  /\ UNCHANGED <<link, zombie, server, shaken, blurred>>

\* toggleDriverOnline and togglePassengerWait.  The position that the watchers of the
\* page send with a toggle is NewFix with the fix the tab has.
ToggleOn(u) ==
  LET r == RoleOf(u) IN
    /\ MapOpen(u) /\ client[u].fix # Nowhere
    /\ ~ client[u].on[r]
    /\ With(u, [client[u] EXCEPT !.on[r] = TRUE], << Msg("join", r, client[u].fix) >>)
    /\ UNCHANGED events

ToggleOff(u) ==
  LET r == RoleOf(u) IN
    /\ MapOpen(u) /\ client[u].fix # Nowhere
    /\ client[u].on[r]
    /\ With(u, [client[u] EXCEPT !.on[r] = FALSE, !.store[Other(r)] = {}],
            << Msg("leave", r, Nowhere) >>)
    /\ UNCHANGED events

Moves(u, p) == client[u].fix # Nowhere /\ p # client[u].fix
BoundMoves(u, p) == IF Moves(u, p) THEN Event(u) ELSE UNCHANGED events

\* A new fix: the position is sent, and the role's event if the direction turned.
NewFix(u, p) ==
  LET r == RoleOf(u)
      turned == client[u].fix # Nowhere /\ p.dir # client[u].fix.dir
  IN /\ MapOpen(u)
     /\ u \in Manual => p # client[u].fix
     /\ BoundMoves(u, p)
     /\ With(u, [client[u] EXCEPT !.fix = p],
             (IF client[u].on[r] \/ (r = "passenger" /\ u \in riding)
                THEN << Msg("position", r, p) >> ELSE <<>>)
             \o (IF client[u].on[r] /\ turned THEN << Msg("join", r, p) >> ELSE <<>>))

\* A new destination: its watcher, and that of a direction it turns.
Destination(u, p) ==
  LET r == RoleOf(u) IN
    /\ MapOpen(u) /\ client[u].fix # Nowhere /\ p.spot = client[u].fix.spot
    /\ client[u].on[r]
    /\ BoundMoves(u, p)
    /\ With(u, [client[u] EXCEPT !.fix = p],
            [i \in 1 .. (IF Moves(u, p) THEN 2 ELSE 1) |-> Msg("join", r, p)])

\* A manual position is erased and the GPS has none.
ForgetPosition(u) ==
  /\ MapOpen(u) /\ client[u].fix # Nowhere
  /\ Event(u)
  /\ client' = [client EXCEPT ![u].fix = Nowhere]
  /\ UNCHANGED <<socket, server, flight, shaken, blurred>>

Navigate(u) ==
  /\ link[u] # "out"
  /\ Event(u)
  /\ client' = [client EXCEPT ![u].on_map = ~ @]
  /\ UNCHANGED <<socket, server, flight, shaken, blurred>>

\* Mistake: the stale toggle is cleared without a word to the server.
SwitchSilently(u) ==
  LET r == RoleOf(u) IN
    /\ u \in Switchers /\ ~ client[u].on_map /\ link[u] # "out"
    /\ Event(u)
    /\ client' = [client EXCEPT ![u].is_driver = ~ @, ![u].on[r] = FALSE]
    /\ UNCHANGED <<socket, server, flight, shaken, blurred>>

\* The mode changes on /profile: the isDriver watcher of the plugin.
SwitchMode(u) ==
  LET r == RoleOf(u)
      tab == [client[u] EXCEPT !.is_driver = ~ @]
      connected == link[u] \in {"up", "dead"}
  IN /\ u \in Switchers /\ ~ client[u].on_map /\ link[u] # "out"
     /\ Event(u)
     /\ client' = [client EXCEPT ![u] =
                     IF client[u].on[r] THEN ClearStores([tab EXCEPT !.on[r] = FALSE]) ELSE tab]
     /\ Emit(u, IF client[u].on[r] /\ connected THEN << Msg("leave", r, Nowhere) >> ELSE <<>>)
     /\ Shake({ v \in {u} : client[u].on[r] /\ ~ connected })
     /\ UNCHANGED <<link, zombie, server, blurred>>

-----------------------------------------------------------------------------
(* The server.                                                             *)
Overlapping(u, kind) ==
  kind # "position" /\ \E i \in Busy : flight[i].who = u /\ flight[i].kind # "position"

\* A message is dispatched.  Two handlers at a time may blur what anyone sees.
Receive(i) ==
  LET h == flight[i] IN
    /\ h.stage = "sent"
    /\ \A j \in 1 .. i - 1 : ~ (flight[j].who = h.who /\ flight[j].stage = "sent")
    /\ flight' = [flight EXCEPT ![i].stage = "own"]
    /\ Shake({ u \in {h.who} : Overlapping(u, h.kind) })
    /\ Blur(IF Busy = {} THEN {} ELSE Stores)
    /\ UNCHANGED <<client, socket, server, events>>

\* The server's side of the old socket times out or closes: handleDisconnect,
\* even if the user is connected again.
Disconnect(u) ==
  /\ u \in zombie /\ (link[u] # "up" => ~ InTransit(u))
  /\ Len(flight) < MaxFlight
  /\ flight' = Append(flight, Handling(u, "disconnect", Nowhere, "own", Cleanup))
  /\ zombie' = zombie \ {u}
  /\ Shake({ v \in {u} : link[u] = "up" \/ Overlapping(u, "disconnect") })
  /\ Blur(IF Busy = {} THEN {} ELSE Stores)
  /\ UNCHANGED <<client, link, buffer, server, events>>

\* The handler goes on with the rest of its agenda.
NextJob(i, rest) ==
  flight' = IF rest = <<>> THEN RemoveAt(flight, i)
            ELSE [flight EXCEPT ![i].agenda = rest, ![i].stage = "own",
                                ![i].at = Nowhere, ![i].found = {}]

\* driverOnline and passengerWait insert or replace, driverOffline and
\* cancelPassengerWait update; a position does not touch is_online, and that of
\* a passenger does not touch the direction.
Written(was, kind, r, p) ==
  IF kind = "join" THEN [ on |-> TRUE, at |-> p ]
  ELSE IF was.at = Nowhere THEN was
  ELSE IF kind = "position"
    THEN [was EXCEPT !.at = IF r = "driver" THEN p ELSE [@ EXCEPT !.spot = p.spot]]
  ELSE [was EXCEPT !.on = FALSE]

\* The stores that show u in the role r.
Viewers(u, r) == { v \in Users : u \in client[v].store[r] } \X {r}

Write(i) ==
  LET h == flight[i]
      r == Head(h.agenda).role
      new == Written(row[r][h.who], h.kind, r, h.at)
  IN /\ h.stage = "own" /\ Head(h.agenda).does = "write"
     /\ row' = [row EXCEPT ![r][h.who] = new]
     /\ Blur(IF new.at # row[r][h.who].at /\ row[r][h.who].at # Nowhere
               THEN Viewers(h.who, r) \cup {<<h.who, Other(r)>>} ELSE {})
     /\ NextJob(i, Tail(h.agenda))
     /\ UNCHANGED <<client, socket, recent, riding, events, shaken>>

\* recordPassengerPointIfActive: a passenger on a trip is not broadcast.
Record(i) ==
  LET h == flight[i] IN
    /\ h.stage = "own" /\ Head(h.agenda).does = "record"
    /\ NextJob(i, IF h.who \in riding THEN <<>> ELSE << Do("broadcast", "passenger") >>)
    /\ UNCHANGED <<client, socket, server, history>>

\* Mistake: a refusal starts the two seconds again.
RenewOnRefusal(u) == [recent EXCEPT ![u] = Throttle]

\* shouldBroadcast.
Renew(u) == IF recent[u] = 0 THEN [recent EXCEPT ![u] = Throttle] ELSE recent

\* The first read of a routine, its own row, may end it; a position asks the
\* throttle before.
ReadOwn(i) ==
  LET h == flight[i]
      job == Head(h.agenda)
      mine == row[job.role][h.who]
      throttled == h.kind = "position" /\ recent[h.who] > 0
      absent == \/ mine.at = Nowhere
                \/ ~ mine.on /\ (job.does = "broadcast" \/ job = Do("snapshot", "driver"))
  IN /\ h.stage = "own" /\ job.does \in {"broadcast", "snapshot", "removed"}
     /\ recent' = IF h.kind = "position" THEN Renew(h.who) ELSE recent
     /\ IF throttled \/ absent
          THEN NextJob(i, Tail(h.agenda))
          ELSE flight' = [flight EXCEPT ![i].stage = "near", ![i].at = mine.at]
     /\ UNCHANGED <<client, socket, row, riding, history>>

\* findNearbyWaitingPassengers and findNearbyOnlineDrivers.
FindNearby(r, p) == { v \in Users : row[r][v].on /\ row[r][v].at = p }

\* The second read: who is there, going the same way.
ReadNear(i) ==
  LET h == flight[i]
      job == Head(h.agenda)
      found == FindNearby(Other(job.role), h.at)
  IN /\ h.stage = "near"
     /\ IF found = {} /\ job.does # "snapshot"
          THEN NextJob(i, Tail(h.agenda))
          ELSE flight' = [flight EXCEPT ![i].stage = "emit", ![i].found = found]
     /\ UNCHANGED <<client, socket, server, history>>

\* What a connected client makes of drivers:update, driver:removed and
\* drivers:snapshot, or of those of the passengers.
Told(v, h, job) ==
  LET known == client[v].store[job.role] IN
    IF link[v] # "up" THEN client[v]
    ELSE IF job.does = "snapshot"
      THEN IF v = h.who THEN [client[v] EXCEPT !.store[Other(job.role)] = h.found] ELSE client[v]
    ELSE IF v \notin h.found THEN client[v]
    ELSE [client[v] EXCEPT !.store[job.role] =
            IF job.does = "broadcast" THEN known \cup {h.who} ELSE known \ {h.who}]

\* RealtimeBus.emitToUsers.
Tell(i) ==
  LET h == flight[i]
      job == Head(h.agenda)
      accurate == job.does = "snapshot" /\ link[h.who] = "up" /\ Busy = {i}
                  /\ h.at = row[job.role][h.who].at
                  /\ h.found = FindNearby(Other(job.role), h.at)
  IN /\ h.stage = "emit"
     /\ client' = [v \in Users |-> Told(v, h, job)]
     /\ blurred' = blurred \ (IF accurate THEN {<<h.who, Other(job.role)>>} ELSE {})
     /\ NextJob(i, Tail(h.agenda))
     /\ UNCHANGED <<socket, server, events, shaken>>

Handle(i) ==
  /\ i \in DOMAIN flight
  /\ Receive(i) \/ Write(i) \/ Record(i) \/ ReadOwn(i) \/ ReadNear(i) \/ Tell(i)

TimePasses ==
  /\ \E u \in Users : recent[u] > 0
  /\ recent' = [u \in Users |-> IF recent[u] > 0 THEN recent[u] - 1 ELSE 0]
  /\ UNCHANGED <<client, socket, row, riding, flight, history>>

-----------------------------------------------------------------------------
\* A statement fails: the handler throws.
Fail(i) ==
  /\ i \in Busy
  /\ Event(flight[i].who)
  /\ flight' = RemoveAt(flight, i)
  /\ Shake({flight[i].who}) /\ Blur(Stores)
  /\ UNCHANGED <<client, socket, server>>

\* The server dies: no handleDisconnect, and the rows stay as they are.
Restart ==
  /\ \E u \in Users : Event(u)
  /\ flight' = <<>>
  /\ recent' = [u \in Users |-> 0]
  /\ link' = [u \in Users |-> IF link[u] = "out" THEN "out" ELSE "down"]
  /\ zombie' = {}
  /\ client' = [u \in Users |-> ClearStores(client[u])]
  /\ Shake(zombie \cup { u \in Users : OnItsWay(u) \/ link[u] = "out" })
  /\ Blur(Stores)
  /\ UNCHANGED <<buffer, row, riding>>

\* A trip starts: TripsService.pickup cancels the wait and tells the passenger,
\* whose map page drops the toggle and opens the trip.  The drivers around are
\* not told.
Pickup(u) ==
  LET here == link[u] = "up" /\ client[u].on_map IN
    /\ u \notin riding
    /\ Event(u)
    /\ riding' = riding \cup {u}
    /\ row' = [row EXCEPT !["passenger"][u].on = FALSE]
    /\ client' = IF here THEN [client EXCEPT ![u].on["passenger"] = FALSE, ![u].on_map = FALSE]
                 ELSE client
    /\ Shake(IF here /\ ~ OnItsWay(u) THEN {} ELSE {u})
    /\ Blur(IF Busy = {} THEN Viewers(u, "passenger") ELSE Stores)
    /\ UNCHANGED <<socket, recent, flight>>

DropOff(u) ==
  /\ u \in riding
  /\ riding' = riding \ {u}
  /\ UNCHANGED <<client, socket, row, recent, flight, history>>

-----------------------------------------------------------------------------
NewTab(u) == [ is_driver |-> u \in Drivers, on_map |-> TRUE, fix |-> Nowhere,
                on |-> [r \in Roles |-> FALSE], store |-> [r \in Roles |-> {}] ]
NoRow == [ on |-> FALSE, at |-> Nowhere ]

Quiet ==
  /\ zombie = {} /\ buffer = [u \in Users |-> <<>>] /\ flight = <<>>
  /\ recent = [u \in Users |-> 0] /\ riding = {}
  /\ shaken = {} /\ blurred = {}

PresenceInit ==
  /\ client = [u \in Users |-> NewTab(u)]
  /\ link = [u \in Users |-> "up"]
  /\ row = [r \in Roles |-> [u \in Users |-> NoRow]]
  /\ events = [u \in Users |-> 0]
  /\ Quiet

Play ==
  \/ \E u \in Users :
       \/ ToggleOn(u) \/ ToggleOff(u) \/ Navigate(u) \/ SwitchMode(u) \/ ForgetPosition(u)
       \/ \E p \in Positions : NewFix(u, p) \/ Destination(u, p)
       \/ Break(u) \/ Notice(u) \/ Reconnect(u) \/ Logout(u) \/ Login(u)
       \/ Disconnect(u) \/ Pickup(u) \/ DropOff(u)
  \/ \E i \in 1 .. MaxFlight : Handle(i)
  \/ TimePasses

PresenceNext ==
  \/ Play
  \/ \E i \in 1 .. MaxFlight : Fail(i)
  \/ Restart

PresenceSpec == PresenceInit /\ [][PresenceNext]_presence_vars

\* The server handles what reaches it, its clock runs, and the GPS of a client
\* on /map keeps giving positions.
Fairness ==
  /\ \A i \in 1 .. MaxFlight : WF_presence_vars(Handle(i))
  /\ \A u \in Users : WF_presence_vars(\E p \in Positions : NewFix(u, p))
  /\ WF_presence_vars(TimePasses)
FairPresence == PresenceSpec /\ Fairness

-----------------------------------------------------------------------------
PresenceTypeOK ==
  /\ client \in [Users -> Tab]
  /\ link \in [Users -> {"up", "dead", "down", "out"}]
  /\ zombie \subseteq Users
  /\ buffer \in [Users -> Seq(Message)]
  /\ row \in [Roles -> [Users -> Row]]
  /\ recent \in [Users -> 0 .. Throttle]
  /\ riding \subseteq Users
  /\ flight \in Seq(Handler)
  /\ events \in [Users -> 0 .. MaxEvents] /\ shaken \subseteq Users /\ blurred \subseteq Stores

\* Nothing of the user is on its way.
Settled(u) == link[u] = "up" /\ u \notin zombie /\ ~ OnItsWay(u)

\* Once everything a connected user sent is handled, the server has the user
\* online, or waiting, exactly when the toggle says so, whatever connections
\* and servers died in between: except for a user whose own presence events
\* overlapped, failed, or met one of the cases Shake names.
ToggleMatchesRow ==
  \A u \in Users \ shaken : Settled(u) => \A r \in Roles : row[r][u].on = client[u].on[r]

\* A driver or a passenger who left is no longer on the map of a user who is on
\* the same way, unless handlers overlapped or someone moved since that user's
\* last snapshot.
LeaversDisappear ==
  Busy = {} => \A v \in Users, r \in Roles :
    link[v] = "up" /\ row[Other(r)][v].on /\ <<v, r>> \notin blurred => \A u \in client[v].store[r] : row[r][u].on

\* A waiting passenger sees, again and again, a driver who stays online around
\* with the map open, whatever snapshot or throttle came first.
Facing(d, p) ==
  /\ link[d] = "up" /\ client[d].on_map /\ client[d].is_driver /\ client[d].on["driver"]
  /\ row["driver"][d].on /\ client[d].fix = row["passenger"][p].at
  /\ link[p] = "up" /\ row["passenger"][p].on
WaitingSeesDrivers ==
  \A d \in Users, p \in Users : d # p => []<>(Facing(d, p) => d \in client[p].store["driver"])

-----------------------------------------------------------------------------
(* What the repository says of presence and the code does not keep.        *)

\* socket.client.ts:77-88: a new session tells the server the intent again, so
\* a connected user with the toggle on is online.
IntentReachesServer ==
  \A u \in Users : Settled(u) /\ client[u].on[RoleOf(u)] => row[RoleOf(u)][u].on
=============================================================================
