------------------------------ MODULE WalletDesk ------------------------------
(***************************************************************************)
(* Deposits and payouts on two screens: /wallet of the user who makes them *)
(* and /admin/wallet-requests of an admin, with the badge of his layout.   *)
(*                                                                         *)
(* Both are fed by socket events and by HTTP answers in any order.  An     *)
(* approval or a rejection tells its clients inside its transaction, before*)
(* the commit.  Module WalletRequests has the handlers in detail and says  *)
(* when they refuse; here a balance is the set of deposits and payouts it  *)
(* counts, and a handler may always refuse.                                *)
(***************************************************************************)
EXTENDS Naturals, FiniteSets, SequencesExt

CONSTANTS
  Requests,
  MaxCalls,     \* bound: calls in flight
  MaxTurns      \* bound: what the users and their environment do

ASSUME WalletDeskAssumption ==
  IsFiniteSet(Requests) /\ {MaxCalls, MaxTurns} \subseteq Nat

VARIABLES
  status,    \* wallet_requests, as committed
  credited,  \* the requests whose money moved
  deciding,  \* the transactions that told the clients and did not commit: request -> decision
  counting,  \* the queries of broadcastPendingCount in flight, those read last
  page,      \* /wallet: list (requests) and balance (what it counts)
  desk,      \* the admin: filter, rows and dialog (review) of the page, badge of the layout
  up,        \* the clients whose socket is up
  mail,      \* the events on their way to a client
  calls,     \* the HTTP calls in flight, those read last
  turns,     \* how much the users and their environment did
  misled     \* history: the views that missed an event, or whose last load was old

server == <<status, credited, deciding, counting>>
vars == <<server, page, desk, up, mail, calls, turns, misled>>

-----------------------------------------------------------------------------
Statuses == {"pending", "approved", "rejected", "cancelled"}
Decisions == {"approved", "rejected"}
Absent == "absent"
Clients == {"user", "admin"}
ViewsOf == [c \in Clients |-> IF c = "user" THEN {"list", "balance"} ELSE {"rows", "badge"}]

Pending == { r \in Requests : status[r] = "pending" }
Filters == {"any", "pending", "approved"}
Matches(s, filter) == s # Absent /\ filter \in {"any", s}
\* The rows of a filter, all on one page.
Listed(filter) == [r \in Requests |-> IF Matches(status[r], filter) THEN status[r] ELSE Absent]
NoRows == [r \in Requests |-> Absent]

\* A call names requests, or the filter it was made under.  A load shows on a
\* view; an answer is old once its client learnt something newer.
Loads == {"balance", "list", "rows", "badge"}
Acts == {"create", "cancel"} \cup Decisions
Call == [ who : Clients, kind : Loads \cup Acts, about : SUBSET Requests, filter : Filters,
          stage : {"sent", "checked", "answered", "failed"},
          rows : [Requests -> Statuses \cup {Absent}], n : 0..Cardinality(Requests), old : BOOLEAN ]
Asked(c, kind, R, filter) ==
  << [ who |-> c, kind |-> kind, about |-> R, filter |-> filter,
       stage |-> "sent", rows |-> NoRows, n |-> 0, old |-> FALSE ] >>
Ask(c, kind) == Asked(c, kind, {}, "any")
AskRows(filter) == Asked("admin", "rows", {}, filter)
Busy(kinds, r) == \E i \in DOMAIN calls : calls[i].kind \in kinds /\ r \in calls[i].about

Turn == turns < MaxTurns /\ turns' = turns + 1
Send(cs) == calls' = cs /\ Len(cs) <= MaxCalls
\* A page that opens again forgets the loads of the one before.
Surviving(c) == { i \in DOMAIN calls : calls[i].who # c \/ calls[i].kind \in Acts }
InOrder(I) == { o \in [1..Cardinality(I) -> I] : \A j, k \in DOMAIN o : j < k => o[j] < o[k] }
Reopen(c, asks) == \E o \in InOrder(Surviving(c)) : Send([k \in DOMAIN o |-> calls[o[k]]] \o asks)

\* The clients C learn or miss the events E: the loads already on their way to them
\* are old, and so are the answers of decisions an event contradicts.
Contradicts(e, k) == k.kind \in Decisions /\ e.kind = "updated" /\ k.about = {e.r} /\ k.kind # e.to
Overtaken(cs, C, E) ==
  [i \in DOMAIN cs |-> [cs[i] EXCEPT !.old = @ \/
     /\ cs[i].who \in C /\ cs[i].stage = "answered"
     /\ cs[i].kind \in Loads \/ \E e \in E : Contradicts(e, cs[i])]]
Passed(cs, C) == Overtaken(cs, C, {})

\* emitToUser, emitToRole, when the calls become cs: what a socket that is down
\* would have heard is lost.
Emit(events, cs, wrong) ==
  LET deaf == { c \in Clients \ up : events[c] # << >> }
      missed == UNION { Range(events[c]) : c \in deaf }
  IN
  /\ mail' = [c \in Clients |-> IF c \in up THEN mail[c] \o events[c] ELSE mail[c]]
  /\ misled' = misled \cup wrong \cup UNION { ViewsOf[c] : c \in deaf }
  /\ calls' = Overtaken(cs, deaf, missed)
Event == [ kind : {"updated"}, r : Requests, to : Statuses ]
         \cup [ kind : {"new"}, r : Requests ] \cup [ kind : {"count"}, n : Nat ]
Both(r, s) == [c \in Clients |-> << [kind |-> "updated", r |-> r, to |-> s] >>]
ToAdmin(event) == [c \in Clients |-> IF c = "admin" THEN << event >> ELSE << >>]
Told(c, r) == \E i \in DOMAIN mail[c] : mail[c][i].kind = "updated" /\ mail[c][i].r = r

-----------------------------------------------------------------------------
(* The users.                                                              *)
\* /wallet is opened: onMounted loads the wallet and the requests.
OpenWallet ==
  /\ Turn
  /\ page' = [list |-> NoRows, balance |-> {}]
  /\ Reopen("user", Ask("user", "balance") \o Ask("user", "list"))
  /\ UNCHANGED <<server, desk, up, mail, misled>>

\* submit of a dialog.
Submit(r) ==
  /\ status[r] = Absent /\ ~Busy({"create"}, r) /\ Turn
  /\ Send(calls \o Asked("user", "create", {r}, "any"))
  /\ UNCHANGED <<server, page, desk, up, mail, misled>>

\* onCancelRequest, on a row shown as pending.
CancelRow(r) ==
  /\ page.list[r] = "pending" /\ ~Busy({"cancel"}, r) /\ Turn
  /\ Send(calls \o Asked("user", "cancel", {r}, "any"))
  /\ UNCHANGED <<server, page, desk, up, mail, misled>>

\* The admin opens the page: its rows and the badge load.
OpenDesk ==
  /\ Turn
  /\ desk' = [desk EXCEPT !.rows = NoRows, !.filter = "pending", !.review = {}]
  /\ Reopen("admin", AskRows("pending") \o Ask("admin", "badge"))
  /\ UNCHANGED <<server, page, up, mail, misled>>

\* The watcher of the filters; the old rows stay until the new ones come.
SetFilter(f) ==
  /\ f # desk.filter /\ Turn
  /\ desk' = [desk EXCEPT !.filter = f]
  /\ Send(calls \o AskRows(f))
  /\ misled' = misled \cup {"rows"}
  /\ UNCHANGED <<server, page, up, mail>>

\* startReview: the dialog keeps the row as it was when it opened.
StartReview(r) ==
  /\ desk.rows[r] = "pending" /\ desk.review # {r}
  /\ desk' = [desk EXCEPT !.review = {r}]
  /\ UNCHANGED <<server, page, up, mail, calls, turns, misled>>

\* doApprove, reject: the buttons of the dialog wait for the answer.
Decide(r, decision) ==
  /\ r \in desk.review /\ ~Busy(Decisions, r) /\ Turn
  /\ Send(calls \o Asked("admin", decision, {r}, "any"))
  /\ UNCHANGED <<server, page, desk, up, mail, misled>>

-----------------------------------------------------------------------------
(* The server.                                                             *)
\* broadcastPendingCount: asked for now, read and sent later.
\* Mutant: counted before the write.
RecountFirst ==
  counting' = Append(counting, [read |-> TRUE, n |-> Cardinality(Pending), old |-> FALSE])
Recount == counting' = Append(counting, [read |-> FALSE, n |-> 0, old |-> FALSE])
Answered(i) == [calls EXCEPT ![i].stage = "answered"]

\* createDeposit, createPayout.
Create(i) ==
  /\ calls[i].kind = "create" /\ calls[i].stage = "sent"
  /\ \E r \in calls[i].about :
       /\ status' = [status EXCEPT ![r] = "pending"]
       /\ Emit(ToAdmin([kind |-> "new", r |-> r]), Answered(i), {})
  /\ Recount
  /\ UNCHANGED <<credited, deciding, page, desk, up, turns>>

\* cancelMine reads the row without a lock, and saves it when nobody locks it.
CancelReads(i) ==
  /\ calls[i].kind = "cancel" /\ calls[i].stage = "sent" /\ calls[i].about \subseteq Pending
  /\ calls' = [calls EXCEPT ![i].stage = "checked"]
  /\ UNCHANGED <<server, page, desk, up, mail, turns, misled>>
CancelSaves(i) ==
  /\ calls[i].stage = "checked"
  /\ \E r \in calls[i].about \ DOMAIN deciding :
       /\ status' = [status EXCEPT ![r] = "cancelled"]
       /\ Emit(Both(r, "cancelled"), Answered(i), {})
  /\ Recount
  /\ UNCHANGED <<credited, deciding, page, desk, up, turns>>

\* approve, reject: everything but the commit; notifyUpdate is part of it.
Notify(i) ==
  LET k == calls[i] IN
  /\ k.kind \in Decisions /\ k.stage = "sent"
  /\ \E r \in (k.about \cap Pending) \ DOMAIN deciding :
       /\ deciding' = [x \in DOMAIN deciding \cup {r} |-> IF x = r THEN k.kind ELSE deciding[x]]
       /\ Emit(Both(r, k.kind), calls, {})
  /\ Recount
  /\ UNCHANGED <<status, credited, page, desk, up, turns>>

Settled(r, stage) ==
  [i \in DOMAIN calls |-> IF calls[i].kind \in Decisions /\ r \in calls[i].about
                          THEN [calls[i] EXCEPT !.stage = stage] ELSE calls[i]]
Undecided(r) == [x \in DOMAIN deciding \ {r} |-> deciding[x]]

Commit(r) ==
  /\ status' = [status EXCEPT ![r] = deciding[r]]
  /\ credited' = credited \cup { x \in {r} : deciding[r] = "approved" }
  /\ deciding' = Undecided(r)
  /\ calls' = Settled(r, "answered")
  /\ UNCHANGED <<counting, page, desk, up, mail, turns, misled>>

\* The commit fails: the clients were told of a decision nobody took.
Rollback(r) ==
  /\ Turn
  /\ deciding' = Undecided(r)
  /\ calls' = Passed(Settled(r, "failed"), Clients)
  /\ misled' = misled \cup {"list", "rows"}
  /\ UNCHANGED <<status, credited, counting, page, desk, up, mail>>

\* The handler refuses, or what it read cannot be shown.
Refuse(i) ==
  /\ calls[i].stage = "sent" /\ calls[i].kind \in Acts
  /\ calls[i].about \cap DOMAIN deciding = {}
  /\ calls' = [calls EXCEPT ![i].stage = "failed"]
  /\ UNCHANGED <<server, page, desk, up, mail, turns, misled>>

\* getBalance, listMine, list and pendingCount.  What is read of a decision its
\* client has heard of and that is not committed is old already.
Read(i) ==
  LET k == calls[i]
      early == \E r \in DOMAIN deciding : ~Told(k.who, r)
      answer == [k EXCEPT !.stage = "answered", !.old = early,
                   !.n = IF k.kind = "badge" THEN Cardinality(Pending) ELSE 0,
                   !.about = IF k.kind = "balance" THEN credited ELSE {},
                   !.rows = IF k.kind \in {"list", "rows"} THEN Listed(k.filter) ELSE NoRows]
  IN  /\ k.stage = "sent" /\ k.kind \in Loads
      /\ calls' = Append(RemoveAt(calls, i), answer)
      /\ UNCHANGED <<server, page, desk, up, mail, turns, misled>>

\* The query of broadcastPendingCount, on a connection of its own.
Count(i) ==
  /\ ~counting[i].read
  /\ counting' = Append(RemoveAt(counting, i), [read |-> TRUE, n |-> Cardinality(Pending), old |-> FALSE])
  /\ UNCHANGED <<status, credited, deciding, page, desk, up, mail, calls, turns, misled>>

\* Its answer, which may overtake those of queries before it.
Broadcast(i) ==
  LET sent == counting[i]
      rest == RemoveAt(counting, i)
  IN  /\ sent.read
      /\ Emit(ToAdmin([kind |-> "count", n |-> sent.n]), calls, IF sent.old THEN {"badge"} ELSE {})
      /\ counting' = [j \in DOMAIN rest |-> [rest[j] EXCEPT !.old = @ \/ (rest[j].read /\ j < i)]]
      /\ UNCHANGED <<status, credited, deciding, page, desk, up, turns>>

-----------------------------------------------------------------------------
(* The clients.                                                            *)
\* upsert.
InList(r, s) == page' = [page EXCEPT !.list[r] = s]
\* applyUpdated: out of the rows when the filter does not want it, else in its place.
RowsAfter(r, s) ==
  [desk.rows EXCEPT ![r] = IF @ = Absent \/ ~Matches(s, desk.filter) THEN Absent ELSE s]

First(c) == Head(mail[c])
Hears(c) == mail[c] # << >> /\ mail' = [mail EXCEPT ![c] = Tail(@)]
\* Mutant: the wallet is not loaded again.
UserHearsOnly ==
  /\ Hears("user")
  /\ InList(First("user").r, First("user").to)
  /\ calls' = Overtaken(calls, {"user"}, {First("user")})
  /\ UNCHANGED <<server, desk, up, turns, misled>>
\* onUpdated, and onWalletRequestUpdated: an approval reloads the wallet.
UserHears ==
  /\ Hears("user")
  /\ InList(First("user").r, First("user").to)
  /\ LET cs == Overtaken(calls, {"user"}, {First("user")}) IN
     IF First("user").to = "approved" THEN Send(cs \o Ask("user", "balance")) ELSE Send(cs)
  /\ UNCHANGED <<server, desk, up, turns, misled>>

\* onLiveUpdated of the page.
AdminHearsUpdated ==
  /\ Hears("admin") /\ First("admin").kind = "updated"
  /\ desk' = [desk EXCEPT !.rows = RowsAfter(First("admin").r, First("admin").to)]
  /\ calls' = Overtaken(calls, {"admin"}, {First("admin")})
  /\ UNCHANGED <<server, page, up, turns, misled>>
\* Mutant: the badge alone hears of a new request.
AdminBumpsOnly ==
  /\ Hears("admin") /\ First("admin").kind = "new"
  /\ desk' = [desk EXCEPT !.badge = @ + 1]
  /\ calls' = Passed(calls, {"admin"})
  /\ UNCHANGED <<server, page, up, turns, misled>>
\* onLiveNew of the page and onNew of the badge.
AdminHearsNew ==
  /\ Hears("admin") /\ First("admin").kind = "new"
  /\ desk' = [desk EXCEPT !.badge = @ + 1]
  /\ Send(Passed(calls, {"admin"}) \o AskRows(desk.filter))
  /\ UNCHANGED <<server, page, up, turns, misled>>
\* onPendingCount.
AdminHearsCount ==
  /\ Hears("admin") /\ First("admin").kind = "count"
  /\ desk' = [desk EXCEPT !.badge = First("admin").n]
  /\ calls' = Passed(calls, {"admin"})
  /\ UNCHANGED <<server, page, up, turns, misled>>

\* A view shows the answer of a load; older answers of the same kind are overtaken.
TakeLoad(i) ==
  LET k == calls[i]
      rest == RemoveAt(calls, i)
      wrong == k.old \/ (k.kind = "rows" /\ k.filter # desk.filter)
  IN  /\ k.stage = "answered" /\ k.kind \in Loads
      /\ page' = [page EXCEPT !.list = IF k.kind = "list" THEN k.rows ELSE @,
                              !.balance = IF k.kind = "balance" THEN k.about ELSE @]
      /\ desk' = [desk EXCEPT !.rows = IF k.kind = "rows" THEN k.rows ELSE @,
                              !.badge = IF k.kind = "badge" THEN k.n ELSE @]
      /\ misled' = IF wrong THEN misled \cup {k.kind}
                   ELSE IF mail[k.who] = << >> THEN misled \ {k.kind} ELSE misled
      /\ calls' = [j \in DOMAIN rest |->
                     [rest[j] EXCEPT !.old = @ \/ (rest[j].kind = k.kind /\ rest[j].stage = "answered" /\ j < i)]]
      /\ UNCHANGED <<server, up, mail, turns>>

\* The answer of cancel is upserted, that of a decision applied; a created
\* request is in the list of its dialog, not in the page's.
TakeAct(i) ==
  LET k == calls[i] IN
  /\ k.stage = "answered" /\ k.kind \in Acts
  /\ \E r \in k.about :
       /\ IF k.kind = "cancel" THEN InList(r, "cancelled") ELSE page' = page
       /\ desk' = IF k.kind \in Decisions THEN [desk EXCEPT !.rows = RowsAfter(r, k.kind), !.review = {}] ELSE desk
  /\ misled' = IF k.old THEN misled \cup {"rows"} ELSE misled
  /\ calls' = Passed(RemoveAt(calls, i), {k.who})
  /\ UNCHANGED <<server, up, mail, turns>>

\* A toast.  A load that fails leaves its view as it was.
TakeFailure(i) ==
  /\ calls[i].stage = "failed"
  /\ calls' = RemoveAt(calls, i)
  /\ misled' = misled \cup ({calls[i].kind} \cap Loads)
  /\ UNCHANGED <<server, page, desk, up, mail, turns>>

\* A load is lost.
Lose(i) ==
  /\ calls[i].kind \in Loads /\ calls[i].stage = "sent" /\ Turn
  /\ calls' = [calls EXCEPT ![i].stage = "failed"]
  /\ UNCHANGED <<server, page, desk, up, mail, misled>>

\* A socket breaks, with the events on it, and comes back; nobody reloads.
Break(c) ==
  /\ c \in up /\ Turn
  /\ up' = up \ {c}
  /\ mail' = [mail EXCEPT ![c] = << >>]
  /\ misled' = IF mail[c] = << >> THEN misled ELSE misled \cup ViewsOf[c]
  /\ calls' = IF mail[c] = << >> THEN calls ELSE Overtaken(calls, {c}, Range(mail[c]))
  /\ UNCHANGED <<server, page, desk>>
Reconnect(c) ==
  /\ c \notin up
  /\ up' = up \cup {c}
  /\ UNCHANGED <<server, page, desk, mail, calls, turns, misled>>

-----------------------------------------------------------------------------
Init ==
  /\ status = NoRows /\ credited = {} /\ deciding = << >> /\ counting = << >>
  /\ page = [list |-> NoRows, balance |-> {}]
  /\ desk = [filter |-> "pending", rows |-> NoRows, review |-> {}, badge |-> 0]
  /\ up = Clients
  /\ mail = [c \in Clients |-> << >>]
  /\ calls = << >>
  /\ turns = 0
  /\ misled = {}

People ==
  \/ OpenWallet \/ OpenDesk
  \/ \E r \in Requests : Submit(r) \/ CancelRow(r) \/ StartReview(r) \/ \E d \in Decisions : Decide(r, d)
  \/ \E f \in Filters : SetFilter(f)
Server ==
  \/ \E i \in DOMAIN calls :
       Create(i) \/ CancelReads(i) \/ CancelSaves(i) \/ Notify(i) \/ Refuse(i) \/ Read(i)
  \/ \E r \in DOMAIN deciding : Commit(r)
  \/ \E i \in DOMAIN counting : Count(i) \/ Broadcast(i)
Screens ==
  \/ UserHears \/ AdminHearsUpdated \/ AdminHearsNew \/ AdminHearsCount
  \/ \E i \in DOMAIN calls : TakeLoad(i) \/ TakeAct(i) \/ TakeFailure(i)
Trouble ==
  \/ \E r \in DOMAIN deciding : Rollback(r)
  \/ \E i \in DOMAIN calls : Lose(i)
  \/ \E c \in Clients : Break(c) \/ Reconnect(c)

Next == People \/ Server \/ Screens \/ Trouble
Spec == Init /\ [][Next]_vars

-----------------------------------------------------------------------------
(* Properties.                                                             *)
TypeOK ==
  /\ status \in [Requests -> Statuses \cup {Absent}]
  /\ credited \subseteq Requests
  /\ DOMAIN deciding \subseteq Requests /\ \A r \in DOMAIN deciding : deciding[r] \in Decisions
  /\ counting \in Seq([read : BOOLEAN, n : 0..Cardinality(Requests), old : BOOLEAN])
  /\ page \in [list : [Requests -> Statuses \cup {Absent}], balance : SUBSET Requests]
  /\ desk \in [ filter : Filters, rows : [Requests -> Statuses \cup {Absent}],
                review : SUBSET Requests, badge : Nat ]
  /\ up \subseteq Clients
  /\ mail \in [Clients -> Seq(Event)] /\ calls \in Seq(Call)
  /\ turns \in 0..MaxTurns /\ misled \subseteq Loads

Quiet ==
  calls = << >> /\ counting = << >> /\ DOMAIN deciding = {} /\ \A c \in Clients : mail[c] = << >>
Agrees(rows) == \A r \in Requests : rows[r] \in {Absent, status[r]}

\* Once everything in flight has arrived, in whatever order, the user's page
\* shows each of his requests as it stands, also one he cancelled while it was
\* being approved, and his balance counts what was credited: unless an event was
\* lost or a load read too early, and then only until the next good load.
UserSeesHisRequests ==
  Quiet => /\ "list" \notin misled => Agrees(page.list)
           /\ "balance" \notin misled => page.balance = credited

\* The admin's rows never offer a request that is already decided, and under
\* the filters that should show them no pending request is missing: with
\* answers under another filter, loads that overtake each other, his own
\* decisions heard twice and users who cancel meanwhile.
DeskShowsPending ==
  Quiet /\ "rows" \notin misled =>
    /\ Agrees(desk.rows)
    /\ desk.filter \in {"any", "pending"} => \A r \in Pending : desk.rows[r] # Absent

\* The badge bumps on a new request and is overwritten by counts read at other
\* moments: it may show too many, never too few, so no request goes unnoticed.
BadgeNeverHidesRequest ==
  Quiet /\ "badge" \notin misled => desk.badge >= Cardinality(Pending)

\* wallet.vue says of an approval that it changes the balance and "refresh
\* both".  The event is sent before the commit, so the refresh may read the old
\* balance, and nothing refreshes it again.
BalanceFollowsApproval ==
  Quiet => \A r \in Requests : page.list[r] = "approved" => r \in page.balance
=============================================================================
