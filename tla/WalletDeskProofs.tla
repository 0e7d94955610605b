--------------------------- MODULE WalletDeskProofs ---------------------------
(***************************************************************************)
(* Proofs about WalletDesk: once everything has arrived the user's list    *)
(* and balance, the admin's rows and his badge agree with the tables, for  *)
(* any number of requests, calls under way and events on their way.        *)
(***************************************************************************)
EXTENDS WalletDesk, FiniteSetTheorems, TLAPS

(* The inductive invariant.                                                *)
\* What a request is, or is about to be.
Target(r) == IF r \in DOMAIN deciding THEN deciding[r] ELSE status[r]
Open(r) == status[r] = "pending" /\ r \notin DOMAIN deciding
\* Every event on its way to c about r says s, or is followed by one that does.
Says(e, r) == e.kind = "updated" /\ e.r = r
LastWord(c, r, s) ==
  \A i \in DOMAIN mail[c] : Says(mail[c][i], r) =>
    \E j \in DOMAIN mail[c] : j >= i /\ Says(mail[c][j], r) /\ mail[c][j].to = s

\* Calls, and the requests they are about.
CallOK(k) ==
  /\ k.kind \in Loads => k.kind \in ViewsOf[k.who] /\ k.stage # "checked"
  /\ k.kind \in {"create", "cancel"} => k.who = "user"
  /\ k.kind \in Decisions => k.who = "admin"
  /\ k.kind \in Acts => \E r \in Requests :
       /\ k.about = {r}
       /\ k.kind = "create" => k.stage # "checked" /\ (k.stage = "sent" => status[r] = Absent)
       /\ k.kind = "cancel" => /\ k.stage = "checked" => status[r] # Absent
                               /\ k.stage = "answered" => status[r] = "cancelled"
       /\ k.kind \in Decisions => /\ k.stage # "checked"
                                  /\ k.stage = "answered" => status[r] \notin {Absent, "pending"}
                                  /\ r \in DOMAIN deciding => k.kind = deciding[r] /\ k.stage = "sent"
Alike(k, m) == k.about = m.about /\ ((k.kind = "create" /\ m.kind = "create") \/ (k.kind \in Decisions /\ m.kind \in Decisions))
Alone == \A i, j \in DOMAIN calls : Alike(calls[i], calls[j]) => i = j
Deciding ==
  \A r \in DOMAIN deciding :
    /\ status[r] = "pending"
    /\ \E i \in DOMAIN calls : calls[i].kind \in Decisions /\ calls[i].about = {r}
    /\ \A c \in Clients : LastWord(c, r, deciding[r])

\* Events tell of requests that exist; the user only hears of updates.
MailOK ==
  /\ \A c \in Clients : c \notin up => mail[c] = << >>
  /\ \A c \in Clients : \A i \in DOMAIN mail[c] : mail[c][i].kind = "updated" => status[mail[c][i].r] # Absent
  /\ \A i \in DOMAIN mail["user"] : mail["user"][i].kind = "updated"

\* What a view shows of r is right, or an event will correct it.
Right(c, r, s) == Told(c, r) \/ s \in {Absent, Target(r)}
Approval == \E i \in DOMAIN mail["user"] : mail["user"][i].kind = "updated" /\ mail["user"][i].to = "approved"
Counts(B) == B = credited /\ \A r \in DOMAIN deciding : deciding[r] # "approved"
News == \E i \in DOMAIN mail["admin"] : mail["admin"][i].kind = "new"
Wants(filter) == filter \in {"any", "pending"}
Covers(rows) == \A r \in Requests : Open(r) => rows[r] # Absent
Enough(n) == n >= Cardinality(Pending)
\* The badge will be counted again, and well.
Good(e) == e.read /\ ~e.old /\ Enough(e.n)
Recounts == \E i \in DOMAIN counting : ~counting[i].read \/ Good(counting[i])
Number(i) == mail["admin"][i].kind = "count"

\* A load that is not old brings what is so, or what an event on its way will correct;
\* so does the answer of a decision.
Brings(k) ==
  k.stage = "answered" /\ ~k.old =>
    /\ k.kind = "list" => \A r \in Requests : Right("user", r, k.rows[r])
    /\ k.kind = "balance" => Approval \/ Counts(k.about)
    /\ k.kind = "rows" => /\ \A r \in Requests : Right("admin", r, k.rows[r])
                          /\ Wants(k.filter) => News \/ Covers(k.rows)
    /\ k.kind = "badge" => Recounts \/ (\E i \in DOMAIN mail["admin"] : Number(i)) \/ Enough(k.n)
    /\ k.kind \in Decisions => \A r \in k.about :
         status[r] = k.kind \/ \E i \in DOMAIN mail["admin"] : Contradicts(mail["admin"][i], k)

\* The views, unless they were misled.
ListOK ==
  "list" \notin misled => \A r \in Requests : LastWord("user", r, Target(r)) /\ Right("user", r, page.list[r])
BalanceOK ==
  "balance" \notin misled =>
    \/ Approval
    \/ \E i \in DOMAIN calls : calls[i].kind = "balance"
    \/ Counts(page.balance)
RowsOK ==
  "rows" \notin misled =>
    /\ \A r \in Requests : /\ LastWord("admin", r, Target(r)) /\ Right("admin", r, desk.rows[r])
                           /\ Told("admin", r) => ~Open(r)
    /\ Wants(desk.filter) => News \/ (\E i \in DOMAIN calls : calls[i].kind = "rows") \/ Covers(desk.rows)
CountOK ==
  \A i \in DOMAIN counting : counting[i].read /\ ~counting[i].old =>
    \/ Enough(counting[i].n)
    \/ \E j \in DOMAIN counting : ~counting[j].read \/ (j > i /\ Good(counting[j]))
BadgeOK ==
  "badge" \notin misled =>
    \/ Recounts
    \/ \E i \in DOMAIN mail["admin"] :
         /\ Number(i) /\ Enough(mail["admin"][i].n)
         /\ \A j \in DOMAIN mail["admin"] : Number(j) => j <= i
    \/ (\A i \in DOMAIN mail["admin"] : ~Number(i)) /\ Enough(desk.badge)

CallsOK == \A i \in DOMAIN calls : CallOK(calls[i])
AllBring == \A i \in DOMAIN calls : Brings(calls[i])

IInv ==
  /\ TypeOK /\ MailOK /\ Alone /\ Deciding /\ CallsOK /\ AllBring
  /\ ListOK /\ BalanceOK /\ RowsOK /\ CountOK /\ BadgeOK

LEMMA OneReplaced ==
  ASSUME NEW S, NEW s \in Seq(S), NEW i \in DOMAIN s, NEW e \in S, NEW t, t = [s EXCEPT ![i] = e]
  PROVE  /\ t \in Seq(S) /\ Len(t) = Len(s) /\ DOMAIN t = DOMAIN s
         /\ t[i] = e /\ \A k \in DOMAIN s \ {i} : t[k] = s[k]
OBVIOUS

\* One element appended.
LEMMA OneAppended ==
  ASSUME NEW S, NEW s \in Seq(S), NEW e \in S, NEW t, t = Append(s, e)
  PROVE  /\ t \in Seq(S) /\ Len(t) = Len(s) + 1 /\ DOMAIN t = DOMAIN s \cup {Len(s) + 1}
         /\ t[Len(s) + 1] = e /\ \A k \in DOMAIN s : t[k] = s[k]
OBVIOUS

\* Where element k was before element i was removed.
Was(i, k) == IF k < i THEN k ELSE k + 1
\* One element removed: the others keep their order.
LEMMA OneRemoved ==
  ASSUME NEW S, NEW s \in Seq(S), NEW i \in DOMAIN s, NEW t, t = RemoveAt(s, i)
  PROVE  /\ t \in Seq(S) /\ Len(t) = Len(s) - 1
         /\ \A k \in DOMAIN t : t[k] = s[Was(i, k)] /\ Was(i, k) \in DOMAIN s
         /\ \A j \in DOMAIN s \ {i} : \E k \in DOMAIN t : t[k] = s[j]
<1> DEFINE u == SubSeq(s, 1, i - 1)
           v == SubSeq(s, i + 1, Len(s))
<1>1. i \in 1..Len(s) /\ Len(s) \in Nat
  OBVIOUS
<1>2. u \in Seq(S) /\ Len(u) = i - 1 /\ \A k \in 1..(i - 1) : u[k] = s[k]
  BY <1>1
<1>3. v \in Seq(S) /\ Len(v) = Len(s) - i /\ \A k \in 1..(Len(s) - i) : v[k] = s[i + k]
  BY <1>1
<1>4. t = u \o v
  BY DEF RemoveAt
<1> HIDE DEF u, v
<1>5. t \in Seq(S) /\ Len(t) = Len(s) - 1
  BY <1>1, <1>2, <1>3, <1>4
<1>6. ASSUME NEW k \in DOMAIN t
      PROVE  /\ t[k] = s[IF k < i THEN k ELSE k + 1]
             /\ (IF k < i THEN k ELSE k + 1) \in DOMAIN s
  <2>1. k \in 1..(Len(s) - 1)
    BY <1>5
  <2>2. CASE k < i
    BY <2>1, <2>2, <1>1, <1>2, <1>3, <1>4
  <2>3. CASE ~(k < i)
    <3> DEFINE m == k - (i - 1)
    <3>1. t[k] = v[m]
      BY <2>1, <2>3, <1>1, <1>2, <1>3, <1>4
    <3>2. m \in 1..(Len(s) - i) /\ i + m = k + 1 /\ k + 1 \in 1..Len(s)
      BY <2>1, <2>3, <1>1
    <3> HIDE DEF m
    <3>3. v[m] = s[k + 1]
      BY <3>2, <1>3
    <3> QED BY <3>1, <3>2, <3>3, <2>3
  <2> QED BY <2>2, <2>3
<1>7. ASSUME NEW j \in DOMAIN s \ {i}
      PROVE  \E k \in DOMAIN t : t[k] = s[j]
  <2> DEFINE k == IF j < i THEN j ELSE j - 1
  <2>1. k \in DOMAIN t /\ (IF k < i THEN k ELSE k + 1) = j
    BY <1>1, <1>5
  <2> HIDE DEF k
  <2> QED BY <2>1, <1>6
<1> QED BY <1>5, <1>6, <1>7 DEF Was


\* One element behind a sequence, and two.
LEMMA OneBehind ==
  ASSUME NEW S, NEW s \in Seq(S), NEW e \in S, NEW t, t = s \o << e >>
  PROVE  /\ t \in Seq(S) /\ Len(t) = Len(s) + 1 /\ DOMAIN t = DOMAIN s \cup {Len(s) + 1}
         /\ t[Len(s) + 1] = e /\ \A k \in DOMAIN s : t[k] = s[k]
OBVIOUS

LEMMA TwoBehind ==
  ASSUME NEW S, NEW s \in Seq(S), NEW d \in S, NEW e \in S, NEW t, t = s \o (<< d >> \o << e >>)
  PROVE  /\ t \in Seq(S) /\ Len(t) = Len(s) + 2 /\ DOMAIN t = DOMAIN s \cup {Len(s) + 1, Len(s) + 2}
         /\ t[Len(s) + 1] = d /\ t[Len(s) + 2] = e /\ \A k \in DOMAIN s : t[k] = s[k]
OBVIOUS

\* Without its head.
LEMMA TailOf ==
  ASSUME NEW S, NEW s \in Seq(S), s # << >>, NEW t, t = Tail(s)
  PROVE  /\ t \in Seq(S) /\ Len(s) >= 1 /\ Len(t) = Len(s) - 1 /\ Head(s) = s[1]
         /\ \A k \in DOMAIN t : t[k] = s[k + 1] /\ k + 1 \in DOMAIN s
         /\ \A k \in DOMAIN s \ {1} : k - 1 \in DOMAIN t /\ t[k - 1] = s[k]
OBVIOUS

-----------------------------------------------------------------------------
(* What a step makes of the calls.                                         *)
\* m is what k was: at most it has become old.
Stays(k, m) ==
  /\ m.who = k.who /\ m.kind = k.kind /\ m.about = k.about /\ m.filter = k.filter
  /\ m.stage = k.stage /\ m.rows = k.rows /\ m.n = k.n
  /\ k.old => m.old
\* The calls ds are the calls cs.
Stay(cs, ds) == ds \in Seq(Call) /\ DOMAIN ds = DOMAIN cs /\ \A i \in DOMAIN cs : Stays(cs[i], ds[i])

LEMMA AreOvertaken ==
  ASSUME NEW cs \in Seq(Call), NEW C, NEW E, NEW ds, ds = Overtaken(cs, C, E)
  PROVE  /\ Stay(cs, ds)
         /\ \A i \in DOMAIN cs :
              cs[i].who \in C /\ cs[i].stage = "answered" /\ (cs[i].kind \in Loads \/ \E e \in E : Contradicts(e, cs[i]))
              => ds[i].old
<1>1. \A i \in DOMAIN cs : cs[i] \in Call
  OBVIOUS
<1>2. DOMAIN ds = DOMAIN cs
  BY DEF Overtaken
<1>3. ASSUME NEW i \in DOMAIN cs
      PROVE  /\ ds[i] \in Call /\ Stays(cs[i], ds[i])
             /\ cs[i].who \in C /\ cs[i].stage = "answered" /\ (cs[i].kind \in Loads \/ \E e \in E : Contradicts(e, cs[i]))
                => ds[i].old
  <2> DEFINE late == /\ cs[i].who \in C /\ cs[i].stage = "answered"
                     /\ cs[i].kind \in Loads \/ \E e \in E : Contradicts(e, cs[i])
  <2>1. (cs[i].old \/ late) \in BOOLEAN
    BY Zenon
  <2>2. ds[i] = [cs[i] EXCEPT !.old = cs[i].old \/ late]
    BY DEF Overtaken
  <2> HIDE DEF late
  <2>3. PICK b \in BOOLEAN : b = (cs[i].old \/ late)
    BY <2>1
  <2>4. ds[i] = [cs[i] EXCEPT !.old = b]
    BY <2>2, <2>3
  <2>5. ds[i] \in Call /\ ds[i].old = b
    BY <1>1, <2>4 DEF Call
  <2>6. Stays(cs[i], ds[i])
    BY <1>1, <2>3, <2>4 DEF Stays, Call
  <2>7. late => ds[i].old
    BY <2>3, <2>5
  <2> QED BY <2>5, <2>6, <2>7 DEF late
<1>4. ds \in Seq(Call)
  <2>1. ds = [i \in DOMAIN cs |-> ds[i]]
    BY DEF Overtaken
  <2>2. DOMAIN cs = 1..Len(cs) /\ Len(cs) \in Nat
    OBVIOUS
  <2>3. \A i \in DOMAIN cs : ds[i] \in Call
    BY <1>3
  <2>4. ds \in [1..Len(cs) -> Call]
    BY <2>1, <2>2, <2>3
  <2> QED BY <2>2, <2>4
<1> QED BY <1>2, <1>3, <1>4 DEF Stay

\* A call at another stage.
LEMMA OneStage ==
  ASSUME NEW cs \in Seq(Call), NEW i \in DOMAIN cs, NEW stage \in {"checked", "answered", "failed"},
         NEW ds, ds = [cs EXCEPT ![i].stage = stage]
  PROVE  /\ ds \in Seq(Call) /\ DOMAIN ds = DOMAIN cs /\ \A j \in DOMAIN cs \ {i} : ds[j] = cs[j]
         /\ ds[i] = [cs[i] EXCEPT !.stage = stage] /\ ds[i] \in Call
<1>1. cs[i] \in Call
  OBVIOUS
<1> DEFINE c == [cs[i] EXCEPT !.stage = stage]
<1>2. c \in Call
  BY <1>1 DEF Call
<1>3. ds = [cs EXCEPT ![i] = c]
  OBVIOUS
<1> HIDE DEF c
<1>4. /\ ds \in Seq(Call) /\ DOMAIN ds = DOMAIN cs /\ ds[i] = c /\ \A j \in DOMAIN cs \ {i} : ds[j] = cs[j]
  BY <1>2, <1>3, OneReplaced
<1> QED BY <1>2, <1>4 DEF c

\* A new call.
Asking(c, kind, R, filter) ==
  [ who |-> c, kind |-> kind, about |-> R, filter |-> filter,
    stage |-> "sent", rows |-> NoRows, n |-> 0, old |-> FALSE ]
LEMMA AskedType ==
  ASSUME NEW c \in Clients, NEW kind \in Loads \cup Acts, NEW R \in SUBSET Requests, NEW filter \in Filters
  PROVE  Asked(c, kind, R, filter) = << Asking(c, kind, R, filter) >> /\ Asking(c, kind, R, filter) \in Call
<1>1. Cardinality(Requests) \in Nat
  BY WalletDeskAssumption, FS_CardinalityType
<1>2. NoRows \in [Requests -> Statuses \cup {Absent}] /\ 0 \in 0..Cardinality(Requests)
  BY <1>1 DEF NoRows
<1> QED BY <1>2 DEF Asked, Asking, Call

\* A call is added to those of cs.
Adds(cs, new) ==
  /\ calls' \in Seq(Call) /\ DOMAIN calls' = DOMAIN cs \cup {Len(cs) + 1}
  /\ calls'[Len(cs) + 1] = new /\ \A i \in DOMAIN cs : calls'[i] = cs[i]
LEMMA SendsOne ==
  ASSUME NEW cs \in Seq(Call), NEW c \in Clients, NEW kind \in Loads \cup Acts, NEW R \in SUBSET Requests,
         NEW filter \in Filters, Send(cs \o Asked(c, kind, R, filter))
  PROVE  Adds(cs, Asking(c, kind, R, filter))
<1> DEFINE new == Asking(c, kind, R, filter)
<1>1. calls' = cs \o << new >> /\ new \in Call
  BY AskedType DEF Send
<1> HIDE DEF new
<1>2. Adds(cs, new)
  BY <1>1, OneBehind DEF Adds
<1> QED BY <1>2 DEF new

-----------------------------------------------------------------------------
(* What a step makes of the mail.                                          *)
Update(r, s) == [kind |-> "updated", r |-> r, to |-> s]

\* Each client hears of its event, or misses it and is misled.
Hearing(c, e, cs) ==
  \/ c \in up /\ mail'[c] = Append(mail[c], e)
  \/ /\ c \notin up /\ mail'[c] = mail[c] /\ ViewsOf[c] \subseteq misled'
     /\ \A i \in DOMAIN cs :
          cs[i].who = c /\ cs[i].stage = "answered" /\ (cs[i].kind \in Loads \/ Contradicts(e, cs[i])) => calls'[i].old

LEMMA Emitted ==
  ASSUME TypeOK, NEW cs \in Seq(Call), NEW events, NEW wrong, Emit(events, cs, wrong), DOMAIN events = Clients
  PROVE  /\ Stay(cs, calls') /\ misled \cup wrong \subseteq misled'
         /\ mail' \in [Clients -> Seq(Event)] \/ \E c \in Clients : events[c] \notin Seq(Event)
         /\ \A c \in Clients : events[c] = << >> => mail'[c] = mail[c]
         /\ \A c \in Clients, e \in Event : events[c] = << e >> => Hearing(c, e, cs)
<1> DEFINE deaf == { c \in Clients \ up : events[c] # << >> }
           missed == UNION { Range(events[c]) : c \in deaf }
<1>0. mail \in [Clients -> Seq(Event)]
  BY DEF TypeOK
<1>1. /\ mail' = [c \in Clients |-> IF c \in up THEN mail[c] \o events[c] ELSE mail[c]]
      /\ misled' = misled \cup wrong \cup UNION { ViewsOf[c] : c \in deaf }
      /\ calls' = Overtaken(cs, deaf, missed)
  BY DEF Emit
<1>2. deaf \subseteq Clients /\ \A c \in Clients : c \in deaf <=> c \notin up /\ events[c] # << >>
  OBVIOUS
<1>3. \A c \in deaf : \A e \in Event : events[c] = << e >> => e \in missed
  BY DEF Range
<1> HIDE DEF deaf, missed
<1>4. /\ Stay(cs, calls')
      /\ \A i \in DOMAIN cs :
           cs[i].who \in deaf /\ cs[i].stage = "answered" /\ (cs[i].kind \in Loads \/ \E e \in missed : Contradicts(e, cs[i]))
           => calls'[i].old
  BY <1>1, AreOvertaken
<1>5. \A c \in Clients : events[c] \in Seq(Event) => mail'[c] \in Seq(Event)
  BY <1>0, <1>1
<1>6. \A c \in Clients : events[c] = << >> => mail'[c] = mail[c]
  <2> TAKE c \in Clients
  <2>1. mail[c] \in Seq(Event)
    BY <1>0
  <2> QED BY <1>1, <2>1
<1>7. ASSUME NEW c \in Clients, NEW e \in Event, events[c] = << e >>
      PROVE  Hearing(c, e, cs)
  <2>1. CASE c \in up
    <3>1. mail[c] \in Seq(Event)
      BY <1>0
    <3>2. mail'[c] = mail[c] \o << e >>
      BY <1>1, <1>7, <2>1
    <3>3. mail'[c] = Append(mail[c], e)
      BY <3>1, <3>2
    <3> QED BY <2>1, <3>3 DEF Hearing
  <2>2. CASE c \notin up
    <3>1. c \in deaf /\ e \in missed
      <4>1. << e >> # << >>
        OBVIOUS
      <4>2. c \in deaf
        BY <1>2, <1>7, <2>2, <4>1
      <4> QED BY <1>3, <1>7, <4>2
    <3>2. mail'[c] = mail[c] /\ ViewsOf[c] \subseteq misled'
      BY <1>1, <2>2, <3>1
    <3> QED BY <1>4, <2>2, <3>1, <3>2 DEF Hearing
  <2> QED BY <2>1, <2>2
<1>8. (\A c \in Clients : events[c] \in Seq(Event)) => mail' \in [Clients -> Seq(Event)]
  BY <1>1, <1>5
<1>9. misled \cup wrong \subseteq misled'
  BY <1>1
<1> QED BY <1>4, <1>6, <1>7, <1>8, <1>9

\* Both are told that r is s.
LEMMA BothHear ==
  ASSUME TypeOK, NEW cs \in Seq(Call), NEW r \in Requests, NEW s \in Statuses, Emit(Both(r, s), cs, {})
  PROVE  /\ Stay(cs, calls') /\ misled \subseteq misled' /\ mail' \in [Clients -> Seq(Event)]
         /\ Update(r, s) \in Event /\ \A c \in Clients : Hearing(c, Update(r, s), cs)
<1>1. Update(r, s) \in Event
  BY DEF Update, Event
<1>2. Both(r, s) = [c \in Clients |-> << Update(r, s) >>]
  BY DEF Both, Update
<1> HIDE DEF Update
<1>3. << Update(r, s) >> \in Seq(Event)
  BY <1>1
<1>4. /\ DOMAIN Both(r, s) = Clients /\ \A c \in Clients : Both(r, s)[c] = << Update(r, s) >>
  BY <1>2
<1> QED BY <1>1, <1>3, <1>4, Emitted

\* The admin is told of something.
LEMMA AdminHears ==
  ASSUME TypeOK, NEW cs \in Seq(Call), NEW e \in Event, NEW wrong, Emit(ToAdmin(e), cs, wrong)
  PROVE  /\ Stay(cs, calls') /\ misled \cup wrong \subseteq misled' /\ mail' \in [Clients -> Seq(Event)]
         /\ mail'["user"] = mail["user"] /\ Hearing("admin", e, cs)
<1>1. << e >> \in Seq(Event) /\ << >> \in Seq(Event)
  OBVIOUS
<1>2. /\ DOMAIN ToAdmin(e) = Clients /\ ToAdmin(e)["user"] = << >> /\ ToAdmin(e)["admin"] = << e >>
      /\ Clients = {"user", "admin"}
  BY DEF ToAdmin, Clients
<1>3. \A c \in Clients : ToAdmin(e)[c] \in Seq(Event)
  BY <1>1, <1>2
<1> QED BY <1>2, <1>3, Emitted
-----------------------------------------------------------------------------
(* Calls that are still there.                                             *)
\* m is a call there was; call i is still there.
Came(m) == \E i \in DOMAIN calls : Stays(calls[i], m)
Goes(i) == \E j \in DOMAIN calls' : Stays(calls[i], calls'[j])

LEMMA StaysOK ==
  ASSUME NEW k, NEW m, Stays(k, m)
  PROVE  /\ CallOK(k) => CallOK(m)
         /\ Brings(k) => Brings(m)
<1>1. CallOK(k) => CallOK(m)
  BY DEF Stays, CallOK
<1>2. Brings(k) => Brings(m)
  BY DEF Stays, Brings, Contradicts
<1> QED BY <1>1, <1>2

\* With the tables and the mail as they are, a call is as good as before.
LEMMA WorldStands ==
  ASSUME UNCHANGED <<status, deciding>>, NEW k, CallOK(k)
  PROVE  CallOK(k)'
BY DEF CallOK

LEMMA NothingComes ==
  ASSUME UNCHANGED <<status, credited, deciding, counting, mail>>, NEW k, Brings(k)
  PROVE  Brings(k)'
BY DEF Brings, Right, Told, Target, Approval, Counts, News, Wants, Covers, Open, Recounts, Good, Enough, Pending,
       Number, Contradicts

\* Calls that did nothing, or that are new and harmless.
LEMMA CallsStand ==
  ASSUME CallsOK, AllBring, UNCHANGED <<status, credited, deciding, counting, mail>>,
         \A j \in DOMAIN calls' : Came(calls'[j]) \/ (CallOK(calls'[j]) /\ Brings(calls'[j]))
  PROVE  CallsOK' /\ AllBring'
<1>1. ASSUME NEW j \in DOMAIN calls'
      PROVE  CallOK(calls[j])' /\ Brings(calls[j])'
  <2> PICK m : m = calls'[j]
    OBVIOUS
  <2>1. CallOK(m) /\ Brings(m)
    BY StaysOK DEF Came, CallsOK, AllBring
  <2>2. CallOK(m)' /\ Brings(m)'
    BY <2>1, WorldStands, NothingComes
  <2> QED BY <2>2
<1> QED BY <1>1 DEF CallsOK, AllBring

\* A call that was just made.
LEMMA SentBrings ==
  ASSUME NEW k, k.stage \in {"sent", "checked", "failed"}
  PROVE  Brings(k)
BY DEF Brings

-----------------------------------------------------------------------------
(* The shapes of a step of the calls.                                      *)
LEMMA StayItself ==
  ASSUME NEW cs \in Seq(Call)
  PROVE  Stay(cs, cs)
BY DEF Stay, Stays

\* Two calls alike come from two calls alike.
Same(k, m) == m.kind = k.kind /\ m.about = k.about
LEMMA StillAlone ==
  ASSUME Alone, NEW f,
         \A j \in DOMAIN calls' : calls'[j].kind \notin {"create"} \cup Decisions
                                  \/ (f[j] \in DOMAIN calls /\ Same(calls[f[j]], calls'[j])),
         \A i, j \in DOMAIN calls' : f[i] = f[j] => i = j
  PROVE  Alone'
<1>1. \A i, j \in DOMAIN calls' : Alike(calls'[i], calls'[j]) => i = j
  BY DEF Alone, Alike, Same
<1> QED BY <1>1 DEF Alone, Alike

LEMMA AloneInPlace ==
  ASSUME Alone, \A j \in DOMAIN calls' : j \in DOMAIN calls /\ Same(calls[j], calls'[j])
  PROVE  Alone'
<1>1. \A i, j \in DOMAIN calls' : Alike(calls'[i], calls'[j]) => i = j
  BY DEF Alone, Alike, Same
<1> QED BY <1>1 DEF Alone, Alike

LEMMA AllStay ==
  ASSUME Alone, Stay(calls, calls')
  PROVE  /\ calls' \in Seq(Call) /\ Alone'
         /\ \A j \in DOMAIN calls' : Came(calls'[j])
         /\ \A i \in DOMAIN calls : Goes(i)
<1>1. Alone'
  <2>1. \A j \in DOMAIN calls' : j \in DOMAIN calls /\ Same(calls[j], calls'[j])
    BY DEF Stay, Stays, Same
  <2> QED BY <2>1, AloneInPlace
<1>2. \A j \in DOMAIN calls' : Came(calls'[j])
  BY DEF Stay, Came
<1>3. \A i \in DOMAIN calls : Goes(i)
  BY DEF Stay, Goes
<1> QED BY <1>1, <1>2, <1>3 DEF Stay

\* Call i at another stage.
Restaged(i, stage) ==
  /\ calls' \in Seq(Call) /\ DOMAIN calls' = DOMAIN calls
  /\ \A j \in DOMAIN calls \ {i} : Stays(calls[j], calls'[j])
  /\ Stays([calls[i] EXCEPT !.stage = stage], calls'[i])
LEMMA Restaging ==
  ASSUME calls \in Seq(Call), Alone, NEW i \in DOMAIN calls, NEW stage \in {"checked", "answered", "failed"},
         NEW cs, cs = [calls EXCEPT ![i].stage = stage], Stay(cs, calls')
  PROVE  /\ Restaged(i, stage) /\ Alone'
         /\ \A j \in DOMAIN calls \ {i} : Goes(j) /\ Came(calls'[j])
<1>1. /\ cs \in Seq(Call) /\ DOMAIN cs = DOMAIN calls /\ \A j \in DOMAIN calls \ {i} : cs[j] = calls[j]
      /\ cs[i] = [calls[i] EXCEPT !.stage = stage]
  BY OneStage
<1>2. Restaged(i, stage)
  BY <1>1 DEF Stay, Restaged
<1>3. Alone'
  <2>0. calls[i] \in Call
    OBVIOUS
  <2>1. Same(calls[i], calls'[i])
    BY <1>2, <2>0 DEF Restaged, Stays, Same, Call
  <2>2. \A j \in DOMAIN calls' : j \in DOMAIN calls /\ Same(calls[j], calls'[j])
    BY <1>2, <2>1 DEF Restaged, Stays, Same
  <2> QED BY <2>2, AloneInPlace
<1>4. \A j \in DOMAIN calls \ {i} : Goes(j) /\ Came(calls'[j])
  BY <1>2 DEF Restaged, Goes, Came
<1> QED BY <1>2, <1>3, <1>4

\* Without call i.
LEMMA Removing ==
  ASSUME calls \in Seq(Call), Alone, NEW i \in DOMAIN calls, NEW cs, cs = RemoveAt(calls, i), Stay(cs, calls')
  PROVE  /\ calls' \in Seq(Call) /\ Alone'
         /\ \A j \in DOMAIN calls' : Came(calls'[j])
         /\ \A j \in DOMAIN calls \ {i} : Goes(j)
<1>1. /\ cs \in Seq(Call) /\ Len(cs) = Len(calls) - 1
      /\ \A k \in DOMAIN cs : cs[k] = calls[Was(i, k)] /\ Was(i, k) \in DOMAIN calls
      /\ \A j \in DOMAIN calls \ {i} : \E k \in DOMAIN cs : cs[k] = calls[j]
  BY OneRemoved
<1>2. calls' \in Seq(Call) /\ DOMAIN calls' = DOMAIN cs /\ \A k \in DOMAIN cs : Stays(cs[k], calls'[k])
  BY DEF Stay
<1>3. Alone'
  <2> DEFINE f == [j \in DOMAIN calls' |-> Was(i, j)]
  <2>1. \A j \in DOMAIN calls' : f[j] = Was(i, j) /\ Was(i, j) \in DOMAIN calls /\ Same(calls[Was(i, j)], calls'[j])
    BY <1>1, <1>2 DEF Stays, Same
  <2>2. \A j, k \in DOMAIN calls' : Was(i, j) = Was(i, k) => j = k
    BY <1>1, <1>2 DEF Was
  <2> HIDE DEF f
  <2> QED BY <2>1, <2>2, StillAlone
<1>4. \A j \in DOMAIN calls' : Came(calls'[j])
  BY <1>1, <1>2 DEF Came
<1>5. \A j \in DOMAIN calls \ {i} : Goes(j)
  BY <1>1, <1>2 DEF Goes
<1> QED BY <1>2, <1>3, <1>4, <1>5

\* A call is added to those that stay, which are like no other.
LEMMA Adding ==
  ASSUME Alone, NEW cs \in Seq(Call), Stay(calls, cs), NEW new, Adds(cs, new),
         \A i \in DOMAIN calls : ~Alike(new, calls[i])
  PROVE  /\ calls' \in Seq(Call) /\ Alone'
         /\ \A j \in DOMAIN calls' : Came(calls'[j]) \/ calls'[j] = new
         /\ \A i \in DOMAIN calls : Goes(i)
         /\ \E j \in DOMAIN calls' : calls'[j] = new
<1> DEFINE last == Len(cs) + 1
<1>1. /\ DOMAIN cs = DOMAIN calls /\ last \notin DOMAIN calls
      /\ DOMAIN calls' = DOMAIN calls \cup {last} /\ calls'[last] = new
      /\ \A i \in DOMAIN calls : Stays(calls[i], calls'[i])
  BY DEF Stay, Adds
<1> HIDE DEF last
<1>2. Alone'
  <2>1. \A i \in DOMAIN calls : Same(calls[i], calls'[i])
    BY <1>1 DEF Stays, Same
  <2>2. \A i \in DOMAIN calls : ~Alike(new, calls'[i]) /\ ~Alike(calls'[i], new)
    BY <2>1 DEF Alike, Same
  <2>3. \A i, j \in DOMAIN calls : Alike(calls'[i], calls'[j]) => i = j
    BY <2>1 DEF Alone, Alike, Same
  <2>4. \A i, j \in DOMAIN calls' : Alike(calls'[i], calls'[j]) => i = j
    BY <1>1, <2>2, <2>3
  <2> QED BY <2>4 DEF Alone, Alike
<1>3. \A j \in DOMAIN calls' : Came(calls'[j]) \/ calls'[j] = new
  BY <1>1 DEF Came
<1>4. \A i \in DOMAIN calls : Goes(i)
  BY <1>1 DEF Goes
<1> QED BY <1>1, <1>2, <1>3, <1>4 DEF Adds

\* A load is like no other call.
LEMMA LoadsUnlike ==
  ASSUME NEW k, k.kind \in Loads
  PROVE  \A m : ~Alike(k, m) /\ ~Alike(m, k)
BY DEF Alike, Loads, Decisions

\* The members of a finite set of numbers in order: each comes once.
LEMMA AllInOrder ==
  ASSUME NEW I \in SUBSET Nat, IsFiniteSet(I), NEW o \in InOrder(I)
  PROVE  /\ o \in Seq(I)
         /\ \A k, m \in DOMAIN o : o[k] = o[m] => k = m
         /\ \A i \in I : \E k \in DOMAIN o : o[k] = i
<1> DEFINE n == Cardinality(I)
<1>1. n \in Nat
  BY FS_CardinalityType
<1>2. o \in [1..n -> I] /\ \A j, k \in 1..n : j < k => o[j] < o[k]
  BY DEF InOrder
<1> HIDE DEF n
<1>3. \A k, m \in 1..n : o[k] = o[m] => k = m
  <2>1. \A k \in 1..n : o[k] \in Nat
    BY <1>2
  <2> QED BY <1>1, <1>2, <2>1
<1> DEFINE R == { o[k] : k \in 1..n }
<1>4. R \subseteq I
  BY <1>2
<1>5. ExistsBijection(1..n, R)
  <2>1. o \in Bijection(1..n, R)
    BY <1>2, <1>3 DEF Bijection, Injection, Surjection, IsInjective
  <2> QED BY <2>1 DEF ExistsBijection
<1>6. Cardinality(R) = n
  BY <1>1, <1>4, <1>5, FS_Subset, FS_CountingElements
<1>7. R = I
  BY <1>4, <1>6, FS_Subset DEF n
<1>8. \A i \in I : \E k \in 1..n : o[k] = i
  BY <1>7
<1>9. o \in Seq(I) /\ DOMAIN o = 1..n
  BY <1>1, <1>2
<1> QED BY <1>3, <1>8, <1>9

\* A page opens: two loads, and of the calls before it those that survive.
LEMMA Reopening ==
  ASSUME calls \in Seq(Call), Alone, NEW c, NEW a \in Call, NEW b \in Call, a.kind \in Loads, b.kind \in Loads,
         Reopen(c, << a >> \o << b >>)
  PROVE  /\ calls' \in Seq(Call) /\ Alone'
         /\ \A j \in DOMAIN calls' : Came(calls'[j]) \/ calls'[j] \in {a, b}
         /\ \A i \in Surviving(c) : Goes(i)
         /\ \E j \in DOMAIN calls' : calls'[j] = a
         /\ \E j \in DOMAIN calls' : calls'[j] = b
<1> DEFINE I == Surviving(c)
<1>1. I \subseteq DOMAIN calls /\ DOMAIN calls = 1..Len(calls) /\ Len(calls) \in Nat
  BY DEF Surviving
<1>2. IsFiniteSet(I) /\ I \subseteq Nat
  <2>1. IsFiniteSet(1..Len(calls))
    BY <1>1, FS_Interval
  <2>2. IsFiniteSet(I)
    BY <1>1, <2>1, FS_Subset
  <2> QED BY <1>1, <2>2
<1> HIDE DEF I
<1>3. PICK o \in InOrder(I) : calls' = [k \in DOMAIN o |-> calls[o[k]]] \o (<< a >> \o << b >>)
  BY DEF Reopen, Send, I
<1>4. /\ o \in Seq(I) /\ \A k, m \in DOMAIN o : o[k] = o[m] => k = m
      /\ \A i \in I : \E k \in DOMAIN o : o[k] = i
  BY <1>2, AllInOrder
<1> DEFINE cs == [k \in DOMAIN o |-> calls[o[k]]]
<1>5. cs \in Seq(Call) /\ DOMAIN cs = DOMAIN o /\ \A k \in DOMAIN o : cs[k] = calls[o[k]] /\ o[k] \in I
  <2>1. DOMAIN o = 1..Len(o) /\ Len(o) \in Nat /\ \A k \in DOMAIN o : o[k] \in I
    BY <1>4
  <2>2. \A k \in DOMAIN o : calls[o[k]] \in Call
    BY <1>1, <2>1
  <2> QED BY <2>1, <2>2
<1>6. calls' = cs \o (<< a >> \o << b >>)
  BY <1>3
<1> HIDE DEF cs
<1>7. /\ calls' \in Seq(Call) /\ DOMAIN calls' = DOMAIN cs \cup {Len(cs) + 1, Len(cs) + 2}
      /\ calls'[Len(cs) + 1] = a /\ calls'[Len(cs) + 2] = b /\ \A k \in DOMAIN cs : calls'[k] = cs[k]
  BY <1>5, <1>6, TwoBehind
<1>8. \A k \in DOMAIN o : calls'[k] = calls[o[k]] /\ o[k] \in DOMAIN calls /\ k \in DOMAIN calls'
  BY <1>1, <1>5, <1>7
<1>9. \A j \in DOMAIN calls' : j \in DOMAIN o \/ calls'[j] \in {a, b}
  BY <1>5, <1>7
<1>10. Alone'
  <2>1. \A i, j \in DOMAIN calls' : Alike(calls'[i], calls'[j]) => i \in DOMAIN o /\ j \in DOMAIN o
    BY <1>9, LoadsUnlike
  <2>2. \A i, j \in DOMAIN o : Alike(calls'[i], calls'[j]) => i = j
    BY <1>4, <1>8 DEF Alone
  <2>3. \A i, j \in DOMAIN calls' : Alike(calls'[i], calls'[j]) => i = j
    BY <2>1, <2>2
  <2> QED BY <2>3 DEF Alone, Alike
<1>11. \A j \in DOMAIN calls' : Came(calls'[j]) \/ calls'[j] \in {a, b}
  <2>1. \A k \in DOMAIN o : Came(calls'[k])
    BY <1>8 DEF Came, Stays
  <2> QED BY <1>9, <2>1
<1>12. \A i \in I : Goes(i)
  BY <1>4, <1>8 DEF Goes, Stays
<1> QED BY <1>7, <1>10, <1>11, <1>12 DEF I

\* The decisions of r end.
LEMMA SettledType ==
  ASSUME calls \in Seq(Call), NEW r, NEW stage \in {"answered", "failed"}, NEW cs, cs = Settled(r, stage)
  PROVE  /\ cs \in Seq(Call) /\ DOMAIN cs = DOMAIN calls
         /\ \A i \in DOMAIN calls :
              /\ cs[i] = IF calls[i].kind \in Decisions /\ r \in calls[i].about
                         THEN [calls[i] EXCEPT !.stage = stage] ELSE calls[i]
              /\ Same(calls[i], cs[i])
<1> DEFINE F(i) == IF calls[i].kind \in Decisions /\ r \in calls[i].about
                   THEN [calls[i] EXCEPT !.stage = stage] ELSE calls[i]
<1>1. cs = [i \in DOMAIN calls |-> F(i)]
  BY DEF Settled
<1>2. \A i \in DOMAIN calls : calls[i] \in Call
  OBVIOUS
<1>3. \A i \in DOMAIN calls : F(i) \in Call /\ Same(calls[i], F(i))
  BY <1>2 DEF Call, Same
<1>4. cs \in Seq(Call)
  <2> HIDE DEF F
  <2>1. DOMAIN calls = 1..Len(calls) /\ Len(calls) \in Nat
    OBVIOUS
  <2> QED BY <1>1, <1>3, <2>1
<1>5. DOMAIN cs = DOMAIN calls /\ \A i \in DOMAIN calls : cs[i] = F(i)
  BY <1>1
<1> QED BY <1>3, <1>4, <1>5

LEMMA Settling ==
  ASSUME calls \in Seq(Call), Alone, NEW r, NEW stage \in {"answered", "failed"},
         NEW cs, cs = Settled(r, stage), Stay(cs, calls')
  PROVE  /\ calls' \in Seq(Call) /\ Alone' /\ DOMAIN calls' = DOMAIN calls
         /\ \A i \in DOMAIN calls :
              IF calls[i].kind \in Decisions /\ r \in calls[i].about
              THEN Stays([calls[i] EXCEPT !.stage = stage], calls'[i])
              ELSE Stays(calls[i], calls'[i])
<1>1. /\ cs \in Seq(Call) /\ DOMAIN cs = DOMAIN calls
      /\ \A i \in DOMAIN calls :
           /\ cs[i] = IF calls[i].kind \in Decisions /\ r \in calls[i].about
                      THEN [calls[i] EXCEPT !.stage = stage] ELSE calls[i]
           /\ Same(calls[i], cs[i])
  BY SettledType
<1>2. calls' \in Seq(Call) /\ DOMAIN calls' = DOMAIN calls /\ \A i \in DOMAIN calls : Stays(cs[i], calls'[i])
  BY <1>1 DEF Stay
<1>3. \A i \in DOMAIN calls : Same(calls[i], calls'[i])
  BY <1>1, <1>2 DEF Same, Stays
<1>4. Alone'
  BY <1>2, <1>3, AloneInPlace
<1> QED BY <1>1, <1>2, <1>4

\* Call i is answered, after the others.
LEMMA Answering ==
  ASSUME calls \in Seq(Call), Alone, NEW i \in DOMAIN calls, NEW a \in Call, a.kind \in Loads,
         calls' = Append(RemoveAt(calls, i), a)
  PROVE  /\ calls' \in Seq(Call) /\ Alone'
         /\ \A j \in DOMAIN calls' : Came(calls'[j]) \/ calls'[j] = a
         /\ \A j \in DOMAIN calls \ {i} : Goes(j)
         /\ \E j \in DOMAIN calls' : calls'[j] = a
<1> DEFINE cs == RemoveAt(calls, i)
           last == Len(cs) + 1
<1>1. /\ cs \in Seq(Call) /\ Len(cs) = Len(calls) - 1
      /\ \A k \in DOMAIN cs : cs[k] = calls[Was(i, k)] /\ Was(i, k) \in DOMAIN calls
      /\ \A j \in DOMAIN calls \ {i} : \E k \in DOMAIN cs : cs[k] = calls[j]
  BY OneRemoved
<1>2. calls' = Append(cs, a)
  OBVIOUS
<1>3. \A j, k \in DOMAIN cs : Was(i, j) = Was(i, k) => j = k
  BY <1>1 DEF Was
<1> HIDE DEF cs
<1>4. /\ calls' \in Seq(Call) /\ DOMAIN calls' = DOMAIN cs \cup {last} /\ last \notin DOMAIN cs
      /\ calls'[last] = a /\ \A k \in DOMAIN cs : calls'[k] = cs[k]
  BY <1>1, <1>2, OneAppended
<1> HIDE DEF last
<1>5. Alone'
  <2>1. \A j, k \in DOMAIN calls' : Alike(calls'[j], calls'[k]) => j \in DOMAIN cs /\ k \in DOMAIN cs
    BY <1>4, LoadsUnlike
  <2>2. \A j, k \in DOMAIN cs : Alike(calls'[j], calls'[k]) => j = k
    BY <1>1, <1>3, <1>4 DEF Alone
  <2>3. \A j, k \in DOMAIN calls' : Alike(calls'[j], calls'[k]) => j = k
    BY <2>1, <2>2
  <2> QED BY <2>3 DEF Alone, Alike
<1>6. \A k \in DOMAIN cs : Stays(calls[Was(i, k)], calls'[k])
  <2> TAKE k \in DOMAIN cs
  <2>1. calls'[k] = calls[Was(i, k)]
    BY <1>1, <1>4
  <2> QED BY <2>1 DEF Stays
<1>7. \A j \in DOMAIN calls' : Came(calls'[j]) \/ calls'[j] = a
  <2>1. \A k \in DOMAIN cs : Came(calls'[k])
    BY <1>1, <1>6 DEF Came
  <2> QED BY <1>4, <2>1
<1>8. \A j \in DOMAIN calls \ {i} : Goes(j)
  <2> TAKE j \in DOMAIN calls \ {i}
  <2>1. PICK k \in DOMAIN cs : cs[k] = calls[j]
    BY <1>1
  <2>2. k \in DOMAIN calls' /\ calls'[k] = calls[j]
    BY <1>4, <2>1
  <2> QED BY <2>2 DEF Goes, Stays
<1> QED BY <1>4, <1>5, <1>7, <1>8
-----------------------------------------------------------------------------
(* Steps that leave the tables and the mail alone.                         *)
World == <<status, credited, deciding, counting, mail>>

LEMMA Quietly ==
  ASSUME IInv, UNCHANGED World, up \subseteq up',
         \A j \in DOMAIN calls' : Came(calls'[j]) \/ (CallOK(calls'[j]) /\ Brings(calls'[j])),
         \A i \in DOMAIN calls, r \in DOMAIN deciding :
           calls[i].kind \in Decisions /\ calls[i].stage = "sent" /\ calls[i].about = {r} => Goes(i)
  PROVE  MailOK' /\ Deciding' /\ CallsOK' /\ AllBring' /\ CountOK'
<1>1. MailOK'
  BY DEF IInv, MailOK, World
<1>2. Deciding'
  <2> SUFFICES ASSUME NEW r \in DOMAIN deciding
               PROVE  /\ status[r] = "pending" /\ \A c \in Clients : LastWord(c, r, deciding[r])
                      /\ \E j \in DOMAIN calls' : calls'[j].kind \in Decisions /\ calls'[j].about = {r}
    BY DEF Deciding, World, LastWord
  <2>1. PICK i \in DOMAIN calls : calls[i].kind \in Decisions /\ calls[i].about = {r}
    BY DEF IInv, Deciding
  <2>2. CallOK(calls[i])
    BY DEF IInv, CallsOK
  <2>3. calls[i].stage = "sent"
    BY <2>1, <2>2 DEF CallOK, Acts
  <2>4. Goes(i)
    BY <2>1, <2>3
  <2>5. \E j \in DOMAIN calls' : calls'[j].kind \in Decisions /\ calls'[j].about = {r}
    BY <2>1, <2>4 DEF Goes, Stays
  <2> QED BY <2>5 DEF IInv, Deciding
<1>3. CallsOK' /\ AllBring'
  BY CallsStand DEF IInv, World
<1>4. CountOK'
  BY DEF IInv, World, CountOK, Enough, Good, Pending
<1> QED BY <1>1, <1>2, <1>3, <1>4

LEMMA ListStands ==
  ASSUME ListOK, UNCHANGED World, page'.list = page.list, "list" \in misled => "list" \in misled'
  PROVE  ListOK'
BY DEF ListOK, World, LastWord, Right, Told, Target

\* There is a call of a kind still.
Keeps(kind) ==
  \A i \in DOMAIN calls : calls[i].kind = kind => \E j \in DOMAIN calls' : calls'[j].kind = kind
LEMMA GoesKeeps ==
  ASSUME NEW kind, \A i \in DOMAIN calls : calls[i].kind = kind => Goes(i)
  PROVE  Keeps(kind)
BY DEF Keeps, Goes, Stays

LEMMA BalanceStands ==
  ASSUME BalanceOK, UNCHANGED World, page'.balance = page.balance, "balance" \in misled => "balance" \in misled',
         Keeps("balance")
  PROVE  BalanceOK'
BY DEF BalanceOK, World, Approval, Counts, Keeps

LEMMA RowsStand ==
  ASSUME RowsOK, UNCHANGED World, desk'.rows = desk.rows, desk'.filter = desk.filter,
         "rows" \in misled => "rows" \in misled', Keeps("rows")
  PROVE  RowsOK'
<1> SUFFICES ASSUME "rows" \notin misled'
             PROVE  /\ \A r \in Requests : LastWord("admin", r, Target(r))' /\ Right("admin", r, desk.rows[r])'
                                           /\ (Told("admin", r) => ~Open(r))'
                    /\ Wants(desk.filter)' => \/ News' \/ Covers(desk.rows)'
                                              \/ \E j \in DOMAIN calls' : calls'[j].kind = "rows"
  BY DEF RowsOK
<1>1. \A r \in Requests : LastWord("admin", r, Target(r))' /\ Right("admin", r, desk.rows[r])'
                          /\ (Told("admin", r) => ~Open(r))'
  BY DEF RowsOK, World, LastWord, Right, Told, Target, Open
<1>2. Wants(desk.filter)' => News' \/ Covers(desk.rows)' \/ \E j \in DOMAIN calls' : calls'[j].kind = "rows"
  BY DEF RowsOK, World, News, Covers, Open, Keeps, Wants
<1> QED BY <1>1, <1>2

\* What is to be shown of the rows when the tables and the mail stand.
LEMMA RowsAgain ==
  ASSUME UNCHANGED World, "rows" \notin misled',
         \A r \in Requests : /\ LastWord("admin", r, Target(r)) /\ Right("admin", r, desk'.rows[r])
                             /\ Told("admin", r) => ~Open(r),
         Wants(desk'.filter) => News \/ Covers(desk'.rows) \/ \E j \in DOMAIN calls' : calls'[j].kind = "rows"
  PROVE  RowsOK'
<1>1. \A r \in Requests : LastWord("admin", r, Target(r))' /\ Right("admin", r, desk.rows[r])'
                          /\ (Told("admin", r) => ~Open(r))'
  BY DEF World, LastWord, Right, Told, Target, Open
<1>2. Wants(desk.filter)' => News' \/ Covers(desk.rows)' \/ \E j \in DOMAIN calls' : calls'[j].kind = "rows"
  BY DEF World, News, Covers, Open, Wants
<1> QED BY <1>1, <1>2 DEF RowsOK

LEMMA BadgeStands ==
  ASSUME BadgeOK, UNCHANGED World, desk'.badge = desk.badge, "badge" \in misled => "badge" \in misled'
  PROVE  BadgeOK'
BY DEF BadgeOK, World, Recounts, Good, Number, Enough, Pending

LEMMA BadgeAgain ==
  ASSUME UNCHANGED World,
         \/ Recounts
         \/ \E i \in DOMAIN mail["admin"] :
              /\ Number(i) /\ Enough(mail["admin"][i].n)
              /\ \A j \in DOMAIN mail["admin"] : Number(j) => j <= i
         \/ (\A i \in DOMAIN mail["admin"] : ~Number(i)) /\ Enough(desk'.badge)
  PROVE  BadgeOK'
<1>1. Recounts' = Recounts
  BY DEF World, Recounts, Good, Enough, Pending
<1>2. mail' = mail /\ (\A n : Enough(n)' = Enough(n)) /\ \A i : Number(i)' = Number(i)
  BY DEF World, Enough, Pending, Number
<1>3. Enough(desk.badge)' = Enough(desk'.badge)
  BY DEF World, Enough, Pending
<1> QED BY <1>1, <1>2, <1>3 DEF BadgeOK

\* The views stand too.
Still ==
  /\ page' = page /\ desk'.rows = desk.rows /\ desk'.filter = desk.filter /\ desk'.badge = desk.badge
  /\ misled \subseteq misled'
LEMMA QuietStep ==
  ASSUME IInv, TypeOK', Alone', UNCHANGED World, up \subseteq up', Still,
         \A j \in DOMAIN calls' : Came(calls'[j]) \/ (CallOK(calls'[j]) /\ Brings(calls'[j])),
         \A i \in DOMAIN calls :
           calls[i].kind \in {"balance", "rows"}
           \/ (calls[i].kind \in Decisions /\ calls[i].stage = "sent" /\ \E r \in DOMAIN deciding : calls[i].about = {r})
           => Goes(i)
  PROVE  IInv'
<1>1. MailOK' /\ Deciding' /\ CallsOK' /\ AllBring' /\ CountOK'
  BY Quietly
<1>2. Keeps("balance") /\ Keeps("rows")
  BY GoesKeeps
<1>3. ListOK' /\ BalanceOK' /\ RowsOK' /\ BadgeOK'
  BY <1>2, ListStands, BalanceStands, RowsStand, BadgeStands DEF IInv, Still
<1> QED BY <1>1, <1>3 DEF IInv
-----------------------------------------------------------------------------
(* What people do.                                                         *)
LEMMA Types ==
  ASSUME TypeOK
  PROVE  /\ calls \in Seq(Call) /\ mail \in [Clients -> Seq(Event)] /\ up \subseteq Clients
         /\ NoRows \in [Requests -> Statuses \cup {Absent}]
         /\ \A i \in DOMAIN calls : calls[i] \in Call
         /\ Cardinality(Requests) \in Nat
BY WalletDeskAssumption, FS_CardinalityType DEF TypeOK, NoRows

LEMMA Turns ==
  ASSUME TypeOK, Turn \/ turns' = turns
  PROVE  turns' \in 0..MaxTurns
BY WalletDeskAssumption DEF TypeOK, Turn

LEMMA TypesStand ==
  ASSUME TypeOK, UNCHANGED <<server, up, mail>>, calls' \in Seq(Call), Turn \/ turns' = turns,
         page' = page \/ page' \in [list : [Requests -> Statuses \cup {Absent}], balance : SUBSET Requests],
         desk' = desk \/ desk' \in [ filter : Filters, rows : [Requests -> Statuses \cup {Absent}],
                                   review : SUBSET Requests, badge : Nat ],
         misled' \subseteq misled \cup Loads
  PROVE  TypeOK'
BY Turns DEF TypeOK, server

\* A call is added and nothing else happens.
LEMMA OneMore ==
  ASSUME IInv, TypeOK', UNCHANGED World, up' = up, Still,
         NEW c \in Clients, NEW kind \in Loads \cup Acts, NEW R \in SUBSET Requests, NEW filter \in Filters,
         Send(calls \o Asked(c, kind, R, filter)),
         CallOK(Asking(c, kind, R, filter)),
         \A i \in DOMAIN calls : ~Alike(Asking(c, kind, R, filter), calls[i])
  PROVE  IInv'
<1> DEFINE new == Asking(c, kind, R, filter)
<1>1. calls \in Seq(Call) /\ Stay(calls, calls) /\ Alone
  BY Types, StayItself DEF IInv
<1>2. Adds(calls, new)
  BY <1>1, SendsOne
<1>3. CallOK(new) /\ Brings(new) /\ \A i \in DOMAIN calls : ~Alike(new, calls[i])
  <2>1. new.stage = "sent"
    BY DEF Asking
  <2> HIDE DEF new
  <2>2. Brings(new)
    BY <2>1, SentBrings
  <2>3. CallOK(new) /\ \A i \in DOMAIN calls : ~Alike(new, calls[i])
    BY DEF new
  <2> QED BY <2>2, <2>3
<1> HIDE DEF new
<1>4. /\ Alone' /\ \A j \in DOMAIN calls' : Came(calls'[j]) \/ calls'[j] = new
      /\ \A i \in DOMAIN calls : Goes(i)
  BY <1>1, <1>2, <1>3, Adding
<1>5. \A j \in DOMAIN calls' : Came(calls'[j]) \/ (CallOK(calls'[j]) /\ Brings(calls'[j]))
  BY <1>3, <1>4
<1> QED BY <1>4, <1>5, QuietStep

LEMMA SentTypes ==
  ASSUME TypeOK, NEW c \in Clients, NEW kind \in Loads \cup Acts, NEW R \in SUBSET Requests, NEW filter \in Filters,
         Send(calls \o Asked(c, kind, R, filter))
  PROVE  calls' \in Seq(Call)
BY Types, SendsOne DEF Adds

LEMMA Submits ==
  ASSUME IInv, NEW r \in Requests, Submit(r)
  PROVE  IInv'
<1> DEFINE new == Asking("user", "create", {r}, "any")
<1>0. "user" \in Clients /\ "create" \in Loads \cup Acts /\ {r} \in SUBSET Requests /\ "any" \in Filters
  BY DEF Clients, Acts, Filters
<1>1. Send(calls \o Asked("user", "create", {r}, "any"))
  BY DEF Submit
<1>2. TypeOK'
  <2>1. calls' \in Seq(Call)
    BY <1>0, <1>1, SentTypes DEF IInv
  <2> QED BY <2>1, TypesStand DEF Submit, IInv
<1>3. UNCHANGED World /\ up' = up /\ Still
  BY DEF Submit, World, Still, server
<1>4. CallOK(new)
  BY DEF Submit, CallOK, Asking, Loads, Decisions, Acts
<1>5. \A i \in DOMAIN calls : ~Alike(new, calls[i])
  BY DEF Submit, Busy, Alike, Asking, Decisions
<1> QED BY <1>0, <1>1, <1>2, <1>3, <1>4, <1>5, OneMore

LEMMA Cancels ==
  ASSUME IInv, NEW r \in Requests, CancelRow(r)
  PROVE  IInv'
<1> DEFINE new == Asking("user", "cancel", {r}, "any")
<1>0. "user" \in Clients /\ "cancel" \in Loads \cup Acts /\ {r} \in SUBSET Requests /\ "any" \in Filters
  BY DEF Clients, Acts, Filters
<1>1. Send(calls \o Asked("user", "cancel", {r}, "any"))
  BY DEF CancelRow
<1>2. TypeOK'
  <2>1. calls' \in Seq(Call)
    BY <1>0, <1>1, SentTypes DEF IInv
  <2> QED BY <2>1, TypesStand DEF CancelRow, IInv
<1>3. UNCHANGED World /\ up' = up /\ Still
  BY DEF CancelRow, World, Still, server
<1>4. CallOK(new)
  BY DEF CallOK, Asking, Loads, Decisions, Acts
<1>5. \A i \in DOMAIN calls : ~Alike(new, calls[i])
  BY DEF Alike, Asking, Decisions
<1> QED BY <1>0, <1>1, <1>2, <1>3, <1>4, <1>5, OneMore

LEMMA Decides ==
  ASSUME IInv, NEW r \in Requests, NEW d \in Decisions, Decide(r, d)
  PROVE  IInv'
<1> DEFINE new == Asking("admin", d, {r}, "any")
<1>0. "admin" \in Clients /\ d \in Loads \cup Acts /\ {r} \in SUBSET Requests /\ "any" \in Filters
  BY DEF Clients, Acts, Filters
<1>1. Send(calls \o Asked("admin", d, {r}, "any"))
  BY DEF Decide
<1>2. TypeOK'
  <2>1. calls' \in Seq(Call)
    BY <1>0, <1>1, SentTypes DEF IInv
  <2> QED BY <2>1, TypesStand DEF Decide, IInv
<1>3. UNCHANGED World /\ up' = up /\ Still
  BY DEF Decide, World, Still, server
<1>4. \A i \in DOMAIN calls : ~(calls[i].kind \in Decisions /\ r \in calls[i].about)
  BY DEF Decide, Busy
<1>5. r \notin DOMAIN deciding
  BY <1>4 DEF IInv, Deciding
<1>6. CallOK(new)
  BY <1>5 DEF CallOK, Asking, Loads, Decisions, Acts
<1>7. \A i \in DOMAIN calls : ~Alike(new, calls[i])
  BY <1>4 DEF Alike, Asking, Decisions
<1> QED BY <1>0, <1>1, <1>2, <1>3, <1>6, <1>7, OneMore

LEMMA Reviews ==
  ASSUME IInv, NEW r \in Requests, StartReview(r)
  PROVE  IInv'
<1>1. /\ calls' = calls /\ UNCHANGED World /\ up' = up /\ Still /\ turns' = turns /\ misled' = misled
      /\ desk' = [desk EXCEPT !.review = {r}]
  BY DEF StartReview, World, Still, server, IInv, TypeOK
<1>2. TypeOK'
  BY <1>1 DEF IInv, TypeOK, World, Still
<1>3. Stay(calls, calls')
  BY <1>1, Types, StayItself DEF IInv
<1>4. Alone' /\ (\A j \in DOMAIN calls' : Came(calls'[j])) /\ \A i \in DOMAIN calls : Goes(i)
  BY <1>3, AllStay DEF IInv
<1> QED BY <1>1, <1>2, <1>4, QuietStep

\* A page opens.
LEMMA Opens ==
  ASSUME IInv, UNCHANGED World, up' = up, NEW c \in Clients, NEW a \in Call, NEW b \in Call,
         a.kind \in ViewsOf[c], b.kind \in ViewsOf[c], a.who = c, b.who = c, a.stage = "sent", b.stage = "sent",
         Reopen(c, << a >> \o << b >>)
  PROVE  /\ calls' \in Seq(Call) /\ Alone' /\ MailOK' /\ Deciding' /\ CallsOK' /\ AllBring' /\ CountOK'
         /\ \A i \in DOMAIN calls : calls[i].kind \in Loads \ ViewsOf[c] => Goes(i)
         /\ \E j \in DOMAIN calls' : calls'[j] = a
         /\ \E j \in DOMAIN calls' : calls'[j] = b
<1>1. a.kind \in Loads /\ b.kind \in Loads /\ calls \in Seq(Call) /\ Alone
  BY Types DEF ViewsOf, Loads, Clients, IInv
<1>2. /\ calls' \in Seq(Call) /\ Alone'
      /\ \A j \in DOMAIN calls' : Came(calls'[j]) \/ calls'[j] \in {a, b}
      /\ \A i \in Surviving(c) : Goes(i)
      /\ \E j \in DOMAIN calls' : calls'[j] = a
      /\ \E j \in DOMAIN calls' : calls'[j] = b
  BY <1>1, Reopening
<1>3. \A k \in {a, b} : CallOK(k) /\ Brings(k)
  <2> TAKE k \in {a, b}
  <2>1. k.stage = "sent" /\ k.kind \in ViewsOf[k.who] /\ k.kind \in Loads
    BY <1>1
  <2>2. CallOK(k)
    BY <2>1 DEF CallOK, Loads, Acts, Decisions
  <2> QED BY <2>1, <2>2, SentBrings
<1>4. \A i \in DOMAIN calls : CallOK(calls[i])
  BY DEF IInv, CallsOK
<1>5. \A i \in DOMAIN calls : calls[i].kind \in Acts => Goes(i)
  BY <1>2 DEF Surviving
<1>6. \A i \in DOMAIN calls : calls[i].kind \in Loads \ ViewsOf[c] => Goes(i)
  BY <1>2, <1>4 DEF Surviving, CallOK
<1>7. MailOK' /\ Deciding' /\ CallsOK' /\ AllBring' /\ CountOK'
  <2>1. \A j \in DOMAIN calls' : Came(calls'[j]) \/ (CallOK(calls'[j]) /\ Brings(calls'[j]))
    BY <1>2, <1>3
  <2> QED BY <1>5, <2>1, Quietly DEF Acts
<1> QED BY <1>2, <1>6, <1>7

LEMMA UserOpens ==
  ASSUME IInv, OpenWallet
  PROVE  IInv'
<1> DEFINE a == Asking("user", "balance", {}, "any")
           b == Asking("user", "list", {}, "any")
<1>1. /\ Ask("user", "balance") = << a >> /\ a \in Call
      /\ Ask("user", "list") = << b >> /\ b \in Call
  <2>1. "user" \in Clients /\ {"balance", "list"} \subseteq Loads \cup Acts /\ {} \in SUBSET Requests /\ "any" \in Filters
    BY DEF Clients, Loads, Filters
  <2> QED BY <2>1, AskedType DEF Ask
<1>2. /\ a.kind = "balance" /\ a.who = "user" /\ a.stage = "sent"
      /\ b.kind = "list" /\ b.who = "user" /\ b.stage = "sent"
  BY DEF Asking
<1> HIDE DEF a, b
<1>3. "user" \in Clients /\ ViewsOf["user"] = {"list", "balance"}
  BY DEF Clients, ViewsOf
<1>4. Reopen("user", << a >> \o << b >>) /\ UNCHANGED World /\ up' = up /\ desk' = desk /\ misled' = misled
      /\ page' = [list |-> NoRows, balance |-> {}]
  BY <1>1 DEF OpenWallet, World, server
<1>5. /\ calls' \in Seq(Call) /\ Alone' /\ MailOK' /\ Deciding' /\ CallsOK' /\ AllBring' /\ CountOK'
      /\ \A i \in DOMAIN calls : calls[i].kind \in Loads \ {"list", "balance"} => Goes(i)
      /\ \E j \in DOMAIN calls' : calls'[j] = a
  BY <1>1, <1>2, <1>3, <1>4, Opens
<1>6. TypeOK'
  <2>1. page' \in [list : [Requests -> Statuses \cup {Absent}], balance : SUBSET Requests]
    BY <1>4, Types DEF IInv
  <2> QED BY <1>4, <1>5, <2>1, TypesStand DEF IInv, OpenWallet
<1>7. ListOK'
  <2>1. page'.list = NoRows
    BY <1>4
  <2>2. \A r \in Requests : page'.list[r] = Absent
    BY <2>1 DEF NoRows
  <2> QED BY <1>4, <2>2 DEF IInv, ListOK, World, LastWord, Right, Told, Target
<1>8. BalanceOK'
  BY <1>2, <1>5 DEF BalanceOK
<1>9. RowsOK' /\ BadgeOK'
  <2>1. Keeps("rows")
    BY <1>5, GoesKeeps DEF Loads
  <2> QED BY <1>4, <2>1, RowsStand, BadgeStands DEF IInv
<1> QED BY <1>5, <1>6, <1>7, <1>8, <1>9 DEF IInv

LEMMA AdminOpens ==
  ASSUME IInv, OpenDesk
  PROVE  IInv'
<1> DEFINE a == Asking("admin", "rows", {}, "pending")
           b == Asking("admin", "badge", {}, "any")
<1>1. /\ AskRows("pending") = << a >> /\ a \in Call
      /\ Ask("admin", "badge") = << b >> /\ b \in Call
  <2>1. /\ "admin" \in Clients /\ {"rows", "badge"} \subseteq Loads \cup Acts /\ {} \in SUBSET Requests
        /\ {"any", "pending"} \subseteq Filters
    BY DEF Clients, Loads, Filters
  <2> QED BY <2>1, AskedType DEF Ask, AskRows
<1>2. /\ a.kind = "rows" /\ a.who = "admin" /\ a.stage = "sent"
      /\ b.kind = "badge" /\ b.who = "admin" /\ b.stage = "sent"
  BY DEF Asking
<1> HIDE DEF a, b
<1>3. "admin" \in Clients /\ ViewsOf["admin"] = {"rows", "badge"}
  BY DEF Clients, ViewsOf
<1>4. /\ Reopen("admin", << a >> \o << b >>) /\ UNCHANGED World /\ up' = up /\ page' = page /\ misled' = misled
      /\ desk' = [desk EXCEPT !.rows = NoRows, !.filter = "pending", !.review = {}]
  BY <1>1 DEF OpenDesk, World, server
<1>5. /\ calls' \in Seq(Call) /\ Alone' /\ MailOK' /\ Deciding' /\ CallsOK' /\ AllBring' /\ CountOK'
      /\ \A i \in DOMAIN calls : calls[i].kind \in Loads \ {"rows", "badge"} => Goes(i)
      /\ \E j \in DOMAIN calls' : calls'[j] = a
  BY <1>1, <1>2, <1>3, <1>4, Opens
<1>6. /\ desk' \in [ filter : Filters, rows : [Requests -> Statuses \cup {Absent}],
                     review : SUBSET Requests, badge : Nat ]
      /\ desk'.rows = NoRows /\ desk'.badge = desk.badge
  <2>1. "pending" \in Filters /\ NoRows \in [Requests -> Statuses \cup {Absent}]
    BY Types DEF Filters, IInv
  <2> QED BY <1>4, <2>1 DEF IInv, TypeOK
<1>7. TypeOK'
  BY <1>4, <1>5, <1>6, TypesStand DEF IInv, OpenDesk
<1>8. ListOK' /\ BalanceOK' /\ BadgeOK'
  <2>1. Keeps("balance")
    BY <1>5, GoesKeeps DEF Loads
  <2> QED BY <1>4, <1>6, <2>1, ListStands, BalanceStands, BadgeStands DEF IInv
<1>9. RowsOK'
  <2>1. \A r \in Requests : desk'.rows[r] = Absent
    BY <1>6 DEF NoRows
  <2>2. \E j \in DOMAIN calls' : calls'[j].kind = "rows"
    BY <1>2, <1>5
  <2> QED BY <1>4, <2>1, <2>2 DEF IInv, RowsOK, World, LastWord, Right, Told, Target, Open
<1> QED BY <1>5, <1>7, <1>8, <1>9 DEF IInv

LEMMA NewFilter ==
  ASSUME IInv, NEW f \in Filters, SetFilter(f)
  PROVE  IInv'
<1> DEFINE new == Asking("admin", "rows", {}, f)
<1>0. "admin" \in Clients /\ "rows" \in Loads \cup Acts /\ {} \in SUBSET Requests
  BY DEF Clients, Loads
<1>1. Send(calls \o Asked("admin", "rows", {}, f))
  BY DEF SetFilter, AskRows
<1>2. Adds(calls, new) /\ calls \in Seq(Call) /\ Alone /\ Stay(calls, calls)
  BY <1>0, <1>1, SendsOne, Types, StayItself DEF IInv
<1>3. new.kind = "rows" /\ new.stage = "sent" /\ new.who = "admin"
  BY DEF Asking
<1> HIDE DEF new
<1>4. /\ UNCHANGED World /\ up' = up /\ page' = page /\ misled' = misled \cup {"rows"}
      /\ desk' = [desk EXCEPT !.filter = f]
  BY DEF SetFilter, World, server
<1>5. /\ calls' \in Seq(Call) /\ Alone' /\ \A i \in DOMAIN calls : Goes(i)
      /\ \A j \in DOMAIN calls' : Came(calls'[j]) \/ calls'[j] = new
  BY <1>2, <1>3, Adding, LoadsUnlike DEF Loads
<1>6. CallOK(new) /\ Brings(new)
  BY <1>3, SentBrings DEF CallOK, ViewsOf, Clients, Acts, Decisions
<1>7. MailOK' /\ Deciding' /\ CallsOK' /\ AllBring' /\ CountOK'
  BY <1>4, <1>5, <1>6, Quietly
<1>8. desk' \in [ filter : Filters, rows : [Requests -> Statuses \cup {Absent}], review : SUBSET Requests, badge : Nat ]
      /\ desk'.badge = desk.badge
  BY <1>4 DEF IInv, TypeOK
<1>9. TypeOK'
  BY <1>0, <1>4, <1>5, <1>8, TypesStand DEF IInv, SetFilter, Loads
<1>10. ListOK' /\ BalanceOK' /\ BadgeOK'
  BY <1>4, <1>5, <1>8, GoesKeeps, ListStands, BalanceStands, BadgeStands DEF IInv
<1>11. RowsOK'
  BY <1>4 DEF RowsOK
<1> QED BY <1>5, <1>7, <1>9, <1>10, <1>11 DEF IInv
-----------------------------------------------------------------------------
(* Answers that change nothing but themselves.                             *)
\* A call is at another stage and nothing else happens.
LEMMA Restages ==
  ASSUME IInv, NEW i \in DOMAIN calls, NEW stage \in {"checked", "failed"},
         calls' = [calls EXCEPT ![i].stage = stage],
         UNCHANGED <<server, page, desk, up, mail, misled>>, Turn \/ turns' = turns,
         CallOK([calls[i] EXCEPT !.stage = stage]),
         \A r \in DOMAIN deciding : ~(calls[i].kind \in Decisions /\ calls[i].about = {r})
  PROVE  IInv'
<1> DEFINE cs == [calls EXCEPT ![i].stage = stage]
           k == [calls[i] EXCEPT !.stage = stage]
<1>1. calls \in Seq(Call) /\ Alone /\ calls[i] \in Call
  BY Types DEF IInv
<1>2. cs \in Seq(Call)
  BY <1>1, OneStage
<1>3. Stay(cs, calls')
  BY <1>2, StayItself
<1>4. /\ Restaged(i, stage) /\ Alone'
      /\ \A j \in DOMAIN calls \ {i} : Goes(j) /\ Came(calls'[j])
  BY <1>1, <1>3, Restaging
<1>5. k.stage = stage /\ k.kind = calls[i].kind
  BY <1>1 DEF Call
<1>6. CallOK(k)
  OBVIOUS
<1> HIDE DEF cs, k
<1>7. i \in DOMAIN calls' /\ Stays(k, calls'[i]) /\ DOMAIN calls' = DOMAIN calls /\ calls' \in Seq(Call)
  BY <1>4 DEF Restaged, k
<1>8. CallOK(calls'[i]) /\ Brings(calls'[i])
  BY <1>5, <1>6, <1>7, SentBrings, StaysOK
<1>9. \A j \in DOMAIN calls' : Came(calls'[j]) \/ (CallOK(calls'[j]) /\ Brings(calls'[j]))
  BY <1>4, <1>7, <1>8
<1>10. UNCHANGED World /\ up' = up /\ Still /\ TypeOK'
  BY <1>7, TypesStand DEF World, Still, server, IInv
<1>11. MailOK' /\ Deciding' /\ CallsOK' /\ AllBring' /\ CountOK'
  BY <1>4, <1>9, <1>10, Quietly
<1>12. Keeps("balance") /\ Keeps("rows")
  BY <1>4, <1>5, <1>7 DEF Keeps, Goes, Stays
<1>13. ListOK' /\ BalanceOK' /\ RowsOK' /\ BadgeOK'
  BY <1>10, <1>12, ListStands, BalanceStands, RowsStand, BadgeStands DEF IInv, Still
<1> QED BY <1>4, <1>10, <1>11, <1>13 DEF IInv

LEMMA Checks ==
  ASSUME IInv, NEW i \in DOMAIN calls, CancelReads(i)
  PROVE  IInv'
<1>1. calls[i] \in Call /\ CallOK(calls[i])
  BY Types DEF IInv, CallsOK
<1>2. CallOK([calls[i] EXCEPT !.stage = "checked"])
  <2>1. calls[i].kind = "cancel" /\ calls[i].about \subseteq Pending
    BY DEF CancelReads
  <2>2. \A r \in calls[i].about : status[r] # Absent
    BY <2>1 DEF Pending, Absent
  <2> QED BY <1>1, <2>1, <2>2 DEF CallOK, Call, Loads, Acts, Decisions
<1> QED BY <1>2, Restages DEF CancelReads, Decisions

LEMMA Refuses ==
  ASSUME IInv, NEW i \in DOMAIN calls, Refuse(i)
  PROVE  IInv'
<1>1. calls[i] \in Call /\ CallOK(calls[i])
  BY Types DEF IInv, CallsOK
<1>2. CallOK([calls[i] EXCEPT !.stage = "failed"])
  <2>1. calls[i].kind \in Acts /\ calls[i].about \cap DOMAIN deciding = {}
    BY DEF Refuse
  <2> QED BY <1>1, <2>1 DEF CallOK, Call, Loads, Acts, Decisions
<1> QED BY <1>2, Restages DEF Refuse, Acts, Decisions

LEMMA Loses ==
  ASSUME IInv, NEW i \in DOMAIN calls, Lose(i)
  PROVE  IInv'
<1>1. calls[i] \in Call /\ CallOK(calls[i])
  BY Types DEF IInv, CallsOK
<1>2. CallOK([calls[i] EXCEPT !.stage = "failed"])
  <2>1. calls[i].kind \in Loads
    BY DEF Lose
  <2> QED BY <1>1, <2>1 DEF CallOK, Call, Loads, Acts, Decisions
<1> QED BY <1>2, Restages DEF Lose, Loads, Decisions

\* A socket comes back.
LEMMA Reconnects ==
  ASSUME IInv, NEW c \in Clients, Reconnect(c)
  PROVE  IInv'
<1>1. calls' = calls /\ UNCHANGED World /\ up \subseteq up' /\ Still
  BY DEF Reconnect, World, Still, server
<1>2. TypeOK'
  BY DEF Reconnect, IInv, TypeOK, server
<1>3. Stay(calls, calls')
  BY <1>1, Types, StayItself DEF IInv
<1>4. Alone' /\ (\A j \in DOMAIN calls' : Came(calls'[j])) /\ \A i \in DOMAIN calls : Goes(i)
  BY <1>3, AllStay DEF IInv
<1> QED BY <1>1, <1>2, <1>4, QuietStep

\* What a load brings.
LEMMA ReadBrings ==
  ASSUME IInv, NEW a, a.stage = "answered", a.kind \in Loads, a.kind \in ViewsOf[a.who], a.who \in Clients,
         ~a.old => \A r \in DOMAIN deciding : Told(a.who, r),
         a.kind = "badge" => a.n = Cardinality(Pending),
         a.kind = "balance" => a.about = credited,
         a.kind \in {"list", "rows"} => a.rows = Listed(a.filter)
  PROVE  Brings(a)
<1>0. CASE a.old
  BY <1>0 DEF Brings
<1>1. CASE ~a.old
  <2>1. \A r \in DOMAIN deciding : Told(a.who, r)
    BY <1>1
  <2>2. /\ a.kind \in {"list", "balance"} => a.who = "user"
        /\ a.kind \in {"rows", "badge"} => a.who = "admin"
    BY DEF ViewsOf, Clients
  <2>3. \A r \in Requests : /\ Listed(a.filter)[r] \in {Absent, status[r]}
                            /\ Wants(a.filter) /\ Open(r) => Listed(a.filter)[r] # Absent
    BY DEF Listed, Matches, Wants, Open, Absent
  <2>4. ASSUME a.kind \in {"list", "rows"}, NEW r \in Requests
        PROVE  Right(a.who, r, a.rows[r])
    BY <2>1, <2>3, <2>4 DEF Right, Target
  <2>5. ASSUME a.kind = "rows", Wants(a.filter)
        PROVE  Covers(a.rows)
    BY <2>3, <2>5 DEF Covers
  <2>6. ASSUME a.kind = "balance", ~Counts(a.about)
        PROVE  Approval
    <3>1. PICK r \in DOMAIN deciding : deciding[r] = "approved"
      BY <2>6 DEF Counts
    <3>2. PICK i \in DOMAIN mail["user"] : mail["user"][i].kind = "updated" /\ mail["user"][i].r = r
      BY <2>1, <2>2, <2>6 DEF Told
    <3>3. LastWord("user", r, "approved")
      BY <3>1 DEF IInv, Deciding, Clients
    <3> QED BY <3>2, <3>3 DEF LastWord, Says, Approval
  <2>7. ASSUME a.kind = "badge"
        PROVE  Enough(a.n)
    <3>1. Cardinality(Pending) \in Nat
      <4>1. Pending \subseteq Requests
        BY DEF Pending
      <4> QED BY <4>1, FS_Subset, FS_CardinalityType, WalletDeskAssumption
    <3> QED BY <2>7, <3>1 DEF Enough
  <2> QED BY <2>2, <2>4, <2>5, <2>6, <2>7 DEF Brings, Loads, Decisions
<1> QED BY <1>0, <1>1

LEMMA Reads ==
  ASSUME IInv, NEW i \in DOMAIN calls, Read(i)
  PROVE  IInv'
<1> DEFINE k == calls[i]
           early == \E r \in DOMAIN deciding : ~Told(k.who, r)
<1>1. PICK b \in BOOLEAN : b = early
  <2>1. early \in BOOLEAN
    OBVIOUS
  <2> QED BY <2>1
<1> DEFINE a == [k EXCEPT !.stage = "answered", !.old = b,
                   !.n = IF k.kind = "badge" THEN Cardinality(Pending) ELSE 0,
                   !.about = IF k.kind = "balance" THEN credited ELSE {},
                   !.rows = IF k.kind \in {"list", "rows"} THEN Listed(k.filter) ELSE NoRows]
<1>2. /\ k.stage = "sent" /\ k.kind \in Loads /\ calls' = Append(RemoveAt(calls, i), a)
      /\ UNCHANGED <<server, page, desk, up, mail, turns, misled>>
  BY <1>1 DEF Read
<1>3. calls \in Seq(Call) /\ k \in Call /\ CallOK(k) /\ Alone
  BY Types DEF IInv, CallsOK
<1>4. /\ Listed(k.filter) \in [Requests -> Statuses \cup {Absent}] /\ NoRows \in [Requests -> Statuses \cup {Absent}]
      /\ Cardinality(Pending) \in 0..Cardinality(Requests) /\ 0 \in 0..Cardinality(Requests)
      /\ credited \in SUBSET Requests /\ {} \in SUBSET Requests
  <2>1. Pending \subseteq Requests
    BY DEF Pending
  <2>2. Cardinality(Pending) \in Nat /\ Cardinality(Pending) <= Cardinality(Requests)
    BY <2>1, FS_Subset, FS_CardinalityType, WalletDeskAssumption
  <2>3. Cardinality(Requests) \in Nat /\ NoRows \in [Requests -> Statuses \cup {Absent}]
    BY Types DEF IInv
  <2>4. Listed(k.filter) \in [Requests -> Statuses \cup {Absent}]
    BY DEF Listed, IInv, TypeOK
  <2> QED BY <2>2, <2>3, <2>4 DEF IInv, TypeOK
<1>5. /\ a \in Call /\ a.stage = "answered" /\ a.kind = k.kind /\ a.who = k.who /\ a.filter = k.filter /\ a.old = b
      /\ k.kind = "badge" => a.n = Cardinality(Pending)
      /\ k.kind = "balance" => a.about = credited
      /\ k.kind \in {"list", "rows"} => a.rows = Listed(k.filter)
  <2>1. k.kind \in {"list", "rows"} \/ ~(k.kind \in {"list", "rows"})
    OBVIOUS
  <2> HIDE DEF k
  <2> QED BY <1>1, <1>3, <1>4 DEF Call
<1> HIDE DEF a
<1>6. CallOK(a)
  BY <1>2, <1>3, <1>5 DEF CallOK, Loads, Acts, Decisions
<1>7. Brings(a)
  <2>1. a.kind \in ViewsOf[a.who] /\ a.who \in Clients /\ a.kind \in Loads
    BY <1>2, <1>3, <1>5 DEF CallOK, Call
  <2>2. ~a.old => \A r \in DOMAIN deciding : Told(a.who, r)
    BY <1>1, <1>5
  <2> HIDE DEF k, early
  <2> QED BY <1>5, <2>1, <2>2, ReadBrings
<1>8. /\ calls' \in Seq(Call) /\ Alone'
      /\ \A j \in DOMAIN calls' : Came(calls'[j]) \/ calls'[j] = a
      /\ \A j \in DOMAIN calls \ {i} : Goes(j)
      /\ \E j \in DOMAIN calls' : calls'[j] = a
  BY <1>2, <1>3, <1>5, Answering
<1>9. UNCHANGED World /\ up' = up /\ Still /\ TypeOK'
  BY <1>2, <1>8, TypesStand DEF World, Still, server, IInv
<1>10. MailOK' /\ Deciding' /\ CallsOK' /\ AllBring' /\ CountOK'
  <2>1. \A j \in DOMAIN calls' : Came(calls'[j]) \/ (CallOK(calls'[j]) /\ Brings(calls'[j]))
    BY <1>6, <1>7, <1>8
  <2>2. \A j \in DOMAIN calls : calls[j].kind \in Decisions => Goes(j)
    BY <1>2, <1>8 DEF Loads, Decisions
  <2> QED BY <1>9, <2>1, <2>2, Quietly
<1>11. Keeps("balance") /\ Keeps("rows")
  <2> HIDE DEF k
  <2>1. \A j \in DOMAIN calls : \E m \in DOMAIN calls' : calls'[m].kind = calls[j].kind
    BY <1>5, <1>8 DEF Goes, Stays, k
  <2> QED BY <2>1 DEF Keeps
<1>12. ListOK' /\ BalanceOK' /\ RowsOK' /\ BadgeOK'
  BY <1>9, <1>11, ListStands, BalanceStands, RowsStand, BadgeStands DEF IInv, Still
<1> QED BY <1>8, <1>9, <1>10, <1>12 DEF IInv
-----------------------------------------------------------------------------
(* Answers that are taken.                                                 *)
LEMMA Taken ==
  ASSUME IInv, UNCHANGED World, up' = up, NEW i \in DOMAIN calls, calls[i].stage \in {"answered", "failed"},
         Stay(RemoveAt(calls, i), calls')
  PROVE  /\ calls' \in Seq(Call) /\ Alone' /\ MailOK' /\ Deciding' /\ CallsOK' /\ AllBring' /\ CountOK'
         /\ \A kind : kind # calls[i].kind => Keeps(kind)
<1>1. calls \in Seq(Call) /\ Alone
  BY Types DEF IInv
<1>2. /\ calls' \in Seq(Call) /\ Alone' /\ \A j \in DOMAIN calls' : Came(calls'[j])
      /\ \A j \in DOMAIN calls \ {i} : Goes(j)
  BY <1>1, Removing
<1>3. MailOK' /\ Deciding' /\ CallsOK' /\ AllBring' /\ CountOK'
  <2>1. \A j \in DOMAIN calls : calls[j].stage = "sent" => Goes(j)
    BY <1>2
  <2> QED BY <1>2, <2>1, Quietly
<1>4. \A kind : kind # calls[i].kind => Keeps(kind)
  BY <1>2, GoesKeeps
<1> QED BY <1>2, <1>3, <1>4

LEMMA Fails ==
  ASSUME IInv, NEW i \in DOMAIN calls, TakeFailure(i)
  PROVE  IInv'
<1>1. /\ UNCHANGED World /\ up' = up /\ calls[i].stage = "failed" /\ calls' = RemoveAt(calls, i)
      /\ page' = page /\ desk' = desk /\ misled' = misled \cup ({calls[i].kind} \cap Loads)
  BY DEF TakeFailure, World, server
<1>2. Stay(RemoveAt(calls, i), calls')
  <2>1. RemoveAt(calls, i) \in Seq(Call)
    BY Types, OneRemoved DEF IInv
  <2> QED BY <1>1, <2>1, StayItself
<1>3. /\ calls' \in Seq(Call) /\ Alone' /\ MailOK' /\ Deciding' /\ CallsOK' /\ AllBring' /\ CountOK'
      /\ \A kind : kind # calls[i].kind => Keeps(kind)
  BY <1>1, <1>2, Taken
<1>4. TypeOK'
  BY <1>3, TypesStand DEF TakeFailure, IInv
<1>5. ListOK' /\ BadgeOK'
  BY <1>1, ListStands, BadgeStands DEF IInv
<1>6. BalanceOK'
  <2>1. CASE calls[i].kind = "balance"
    BY <1>1, <2>1 DEF BalanceOK, Loads
  <2>2. CASE calls[i].kind # "balance"
    BY <1>1, <1>3, <2>2, BalanceStands DEF IInv
  <2> QED BY <2>1, <2>2
<1>7. RowsOK'
  <2>1. CASE calls[i].kind = "rows"
    BY <1>1, <2>1 DEF RowsOK, Loads
  <2>2. CASE calls[i].kind # "rows"
    BY <1>1, <1>3, <2>2, RowsStand DEF IInv
  <2> QED BY <2>1, <2>2
<1> QED BY <1>3, <1>4, <1>5, <1>6, <1>7 DEF IInv

\* The answer of a cancellation or of a decision is shown.
LEMMA ShowsAct ==
  ASSUME IInv, NEW i \in DOMAIN calls, TakeAct(i)
  PROVE  IInv'
<1> DEFINE k == calls[i]
<1>1. calls \in Seq(Call) /\ k \in Call /\ CallOK(k) /\ Brings(k)
  BY Types DEF IInv, CallsOK, AllBring
<1>2. PICK r \in k.about :
        /\ IF k.kind = "cancel" THEN InList(r, "cancelled") ELSE page' = page
        /\ desk' = IF k.kind \in Decisions THEN [desk EXCEPT !.rows = RowsAfter(r, k.kind), !.review = {}] ELSE desk
  BY DEF TakeAct
<1>3. /\ UNCHANGED World /\ up' = up /\ k.stage = "answered" /\ k.kind \in Acts
      /\ misled' = IF k.old THEN misled \cup {"rows"} ELSE misled
      /\ calls' = Passed(RemoveAt(calls, i), {k.who})
  BY DEF TakeAct, World, server
<1> HIDE DEF k
<1>4. r \in Requests /\ k.about = {r}
  BY <1>1, <1>2, <1>3 DEF CallOK
<1>5. Stay(RemoveAt(calls, i), calls')
  <2>1. RemoveAt(calls, i) \in Seq(Call)
    BY <1>1, OneRemoved
  <2> QED BY <1>3, <2>1, AreOvertaken DEF Passed
<1>6. /\ calls' \in Seq(Call) /\ Alone' /\ MailOK' /\ Deciding' /\ CallsOK' /\ AllBring' /\ CountOK'
      /\ Keeps("balance") /\ Keeps("rows")
  <2>1. k.kind \notin {"balance", "rows"}
    BY <1>3 DEF Acts, Decisions
  <2> QED BY <1>3, <1>5, <2>1, Taken DEF k
<1>7. page' \in [list : [Requests -> Statuses \cup {Absent}], balance : SUBSET Requests] /\ page'.balance = page.balance
  <2>1. page \in [list : [Requests -> Statuses \cup {Absent}], balance : SUBSET Requests]
    BY DEF IInv, TypeOK
  <2>2. "cancelled" \in Statuses
    BY DEF Statuses
  <2> QED BY <1>2, <1>4, <2>1, <2>2 DEF InList
<1>8. /\ desk' \in [ filter : Filters, rows : [Requests -> Statuses \cup {Absent}],
                     review : SUBSET Requests, badge : Nat ]
      /\ desk'.badge = desk.badge /\ desk'.filter = desk.filter
      /\ desk'.rows = IF k.kind \in Decisions THEN RowsAfter(r, k.kind) ELSE desk.rows
  <2>1. desk \in [ filter : Filters, rows : [Requests -> Statuses \cup {Absent}],
                   review : SUBSET Requests, badge : Nat ]
    BY DEF IInv, TypeOK
  <2>2. k.kind \in Decisions => RowsAfter(r, k.kind) \in [Requests -> Statuses \cup {Absent}]
    BY <2>1 DEF RowsAfter, Decisions, Statuses
  <2> QED BY <1>2, <2>1, <2>2
<1>9. TypeOK'
  <2>1. misled' \subseteq misled \cup Loads
    BY <1>3 DEF Loads
  <2> QED BY <1>6, <1>7, <1>8, <2>1, TypesStand DEF IInv, TakeAct
<1>10. BalanceOK' /\ BadgeOK'
  BY <1>3, <1>6, <1>7, <1>8, BalanceStands, BadgeStands DEF IInv
<1>11. status[r] \notin {Absent, "pending"} \/ k.kind = "create"
  BY <1>1, <1>3, <1>4 DEF CallOK, Acts, Decisions, Absent
<1>12. k.kind # "create" => r \notin DOMAIN deciding
  BY <1>11 DEF IInv, Deciding
<1>13. ListOK'
  <2>1. CASE k.kind = "cancel"
    <3>1. status[r] = "cancelled"
      BY <1>1, <1>3, <1>4, <2>1 DEF CallOK, Acts
    <3>2. page'.list = [page.list EXCEPT ![r] = "cancelled"] /\ page.list \in [Requests -> Statuses \cup {Absent}]
      BY <1>2, <2>1 DEF InList, IInv, TypeOK
    <3>3. Target(r) = "cancelled"
      BY <1>12, <2>1, <3>1 DEF Target
    <3>4. \A x \in Requests : Right("user", x, page.list[x]) => Right("user", x, page'.list[x])
      BY <3>2, <3>3 DEF Right
    <3>5. "list" \in misled => "list" \in misled'
      BY <1>3
    <3>6. "list" \notin misled' => \A x \in Requests : LastWord("user", x, Target(x)) /\ Right("user", x, page'.list[x])
      BY <3>4, <3>5 DEF IInv, ListOK
    <3> QED BY <1>3, <3>6 DEF ListOK, World, LastWord, Right, Told, Target
  <2>2. CASE k.kind # "cancel"
    BY <1>2, <1>3, <2>2, ListStands DEF IInv
  <2> QED BY <2>1, <2>2
<1>14. RowsOK'
  <2>1. CASE k.kind \in Decisions
    <3>0. CASE "rows" \in misled'
      BY <3>0 DEF RowsOK
    <3> SUFFICES ASSUME "rows" \notin misled'
                 PROVE  RowsOK'
      BY <3>0
    <3>1. ~k.old /\ "rows" \notin misled
      BY <1>3
    <3>2. Right("admin", r, k.kind)
      <4>1. status[r] = k.kind \/ \E j \in DOMAIN mail["admin"] : Contradicts(mail["admin"][j], k)
        BY <1>1, <1>3, <1>4, <2>1, <3>1 DEF Brings
      <4>2. (\E j \in DOMAIN mail["admin"] : Contradicts(mail["admin"][j], k)) => Told("admin", r)
        BY <1>4 DEF Contradicts, Told
      <4>3. status[r] = k.kind => Target(r) = k.kind
        BY <1>12, <2>1 DEF Target, Decisions
      <4> QED BY <4>1, <4>2, <4>3 DEF Right
    <3>3. desk.rows \in [Requests -> Statuses \cup {Absent}]
      BY DEF IInv, TypeOK
    <3>4. \A x \in Requests : IF x = r THEN desk'.rows[x] \in {Absent, k.kind} ELSE desk'.rows[x] = desk.rows[x]
      BY <1>8, <2>1, <3>3 DEF RowsAfter
    <3>5. ~Open(r)
      BY <1>11, <2>1 DEF Open, Decisions
    <3>6. \A x \in Requests : Right("admin", x, desk'.rows[x])
      <4>1. Right("admin", r, Absent)
        BY DEF Right
      <4>2. \A x \in Requests : Right("admin", x, desk.rows[x])
        BY <3>1 DEF IInv, RowsOK
      <4> QED BY <3>2, <3>4, <4>1, <4>2
    <3>7. Covers(desk.rows) => Covers(desk'.rows)
      BY <3>4, <3>5 DEF Covers
    <3>8. Wants(desk'.filter) => News \/ Covers(desk'.rows) \/ \E j \in DOMAIN calls' : calls'[j].kind = "rows"
      BY <1>6, <1>8, <3>1, <3>7 DEF IInv, RowsOK, Keeps
    <3>9. \A x \in Requests : LastWord("admin", x, Target(x)) /\ (Told("admin", x) => ~Open(x))
      BY <3>1 DEF IInv, RowsOK
    <3> QED BY <1>3, <3>6, <3>8, <3>9, RowsAgain
  <2>2. CASE k.kind \notin Decisions
    BY <1>3, <1>6, <1>8, <2>2, RowsStand DEF IInv
  <2> QED BY <2>1, <2>2
<1> QED BY <1>6, <1>9, <1>10, <1>13, <1>14 DEF IInv

\* A view shows a load.
LEMMA ShowsLoad ==
  ASSUME IInv, NEW i \in DOMAIN calls, TakeLoad(i)
  PROVE  IInv'
<1> DEFINE k == calls[i]
           rest == RemoveAt(calls, i)
           wrong == k.old \/ (k.kind = "rows" /\ k.filter # desk.filter)
<1>1. /\ calls \in Seq(Call) /\ k \in Call /\ CallOK(k) /\ Brings(k)
      /\ rest \in Seq(Call)
  BY Types, OneRemoved DEF IInv, CallsOK, AllBring
<1>2. /\ UNCHANGED World /\ up' = up /\ k.stage = "answered" /\ k.kind \in Loads
      /\ page' = [page EXCEPT !.list = IF k.kind = "list" THEN k.rows ELSE @,
                              !.balance = IF k.kind = "balance" THEN k.about ELSE @]
      /\ desk' = [desk EXCEPT !.rows = IF k.kind = "rows" THEN k.rows ELSE @,
                              !.badge = IF k.kind = "badge" THEN k.n ELSE @]
      /\ misled' = IF wrong THEN misled \cup {k.kind}
                   ELSE IF mail[k.who] = << >> THEN misled \ {k.kind} ELSE misled
      /\ calls' = [j \in DOMAIN rest |->
                     [rest[j] EXCEPT !.old = @ \/ (rest[j].kind = k.kind /\ rest[j].stage = "answered" /\ j < i)]]
  BY DEF TakeLoad, World, server
<1>3. Stay(rest, calls')
  <2> HIDE DEF rest
  <2>1. \A j \in DOMAIN rest : rest[j] \in Call
    BY <1>1
  <2>2. ASSUME NEW j \in DOMAIN rest
        PROVE  calls'[j] \in Call /\ Stays(rest[j], calls'[j])
    <3> DEFINE late == rest[j].kind = k.kind /\ rest[j].stage = "answered" /\ j < i
    <3>1. calls'[j] = [rest[j] EXCEPT !.old = rest[j].old \/ late]
      BY <1>2
    <3> HIDE DEF late
    <3>2. (rest[j].old \/ late) \in BOOLEAN
      BY Zenon
    <3>3. PICK b \in BOOLEAN : b = (rest[j].old \/ late)
      BY <3>2
    <3>4. calls'[j] = [rest[j] EXCEPT !.old = b]
      BY <3>1, <3>3
    <3>5. calls'[j] \in Call
      BY <2>1, <3>4 DEF Call
    <3>6. Stays(rest[j], calls'[j])
      BY <2>1, <3>3, <3>4 DEF Stays, Call
    <3> QED BY <3>5, <3>6
  <2>3. calls' \in Seq(Call) /\ DOMAIN calls' = DOMAIN rest
    <3>1. calls' = [j \in DOMAIN rest |-> calls'[j]]
      BY <1>2
    <3>2. DOMAIN rest = 1..Len(rest) /\ Len(rest) \in Nat
      BY <1>1
    <3> QED BY <2>2, <3>1, <3>2
  <2> QED BY <2>2, <2>3 DEF Stay
<1> HIDE DEF rest
<1>4. /\ calls' \in Seq(Call) /\ Alone' /\ MailOK' /\ Deciding' /\ CallsOK' /\ AllBring' /\ CountOK'
      /\ \A kind : kind # k.kind => Keeps(kind)
  BY <1>2, <1>3, Taken DEF rest
<1> DEFINE told == mail[k.who] # << >>
<1>5. /\ k.kind \in misled' \/ (~wrong /\ (told => k.kind \notin misled))
      /\ \A view : view # k.kind /\ view \in misled => view \in misled'
  BY <1>2
<1> HIDE DEF k
<1>6. /\ page \in [list : [Requests -> Statuses \cup {Absent}], balance : SUBSET Requests]
      /\ desk \in [ filter : Filters, rows : [Requests -> Statuses \cup {Absent}],
                    review : SUBSET Requests, badge : Nat ]
      /\ k.rows \in [Requests -> Statuses \cup {Absent}] /\ k.about \in SUBSET Requests /\ k.n \in Nat
  <2>1. k.n \in 0..Cardinality(Requests) /\ Cardinality(Requests) \in Nat
    BY <1>1, Types DEF Call, IInv
  <2> QED BY <1>1, <2>1 DEF IInv, TypeOK, Call
<1>7. /\ page' \in [list : [Requests -> Statuses \cup {Absent}], balance : SUBSET Requests]
      /\ desk' \in [ filter : Filters, rows : [Requests -> Statuses \cup {Absent}],
                     review : SUBSET Requests, badge : Nat ]
      /\ page'.list = IF k.kind = "list" THEN k.rows ELSE page.list
      /\ page'.balance = IF k.kind = "balance" THEN k.about ELSE page.balance
      /\ desk'.rows = IF k.kind = "rows" THEN k.rows ELSE desk.rows
      /\ desk'.badge = IF k.kind = "badge" THEN k.n ELSE desk.badge
      /\ desk'.filter = desk.filter
  BY <1>2, <1>6
<1>8. TypeOK'
  <2>1. misled' \subseteq misled \cup Loads
    BY <1>2
  <2> QED BY <1>4, <1>7, <2>1, TypesStand DEF IInv, TakeLoad
<1>9. /\ k.kind \in {"list", "balance"} => k.who = "user"
      /\ k.kind \in {"rows", "badge"} => k.who = "admin"
  BY <1>1, <1>2 DEF CallOK, ViewsOf, Clients, Call, Loads
<1>10. ListOK'
  <2>1. CASE k.kind = "list" /\ "list" \notin misled'
    <3>1. \A r \in Requests : Right("user", r, page'.list[r])
      BY <1>1, <1>2, <1>5, <1>7, <2>1 DEF Brings
    <3>2. \A r \in Requests : LastWord("user", r, Target(r))
      BY <1>5, <1>9, <2>1 DEF IInv, ListOK, LastWord
    <3> QED BY <1>2, <3>1, <3>2 DEF ListOK, World, LastWord, Right, Told, Target
  <2>2. CASE k.kind # "list"
    BY <1>2, <1>5, <1>7, <2>2, ListStands DEF IInv
  <2>3. CASE "list" \in misled'
    BY <2>3 DEF ListOK
  <2> QED BY <2>1, <2>2, <2>3
<1>11. BalanceOK'
  <2>1. CASE k.kind = "balance" /\ "balance" \notin misled'
    <3>1. Approval \/ Counts(page'.balance)
      BY <1>1, <1>2, <1>5, <1>7, <2>1 DEF Brings
    <3> QED BY <1>2, <3>1 DEF BalanceOK, World, Approval, Counts
  <2>2. CASE k.kind # "balance"
    BY <1>2, <1>4, <1>5, <1>7, <2>2, BalanceStands DEF IInv
  <2>3. CASE "balance" \in misled'
    BY <2>3 DEF BalanceOK
  <2> QED BY <2>1, <2>2, <2>3
<1>12. RowsOK'
  <2>1. CASE k.kind = "rows" /\ "rows" \notin misled'
    <3>1. k.filter = desk'.filter /\ ~k.old /\ (told => "rows" \notin misled)
      BY <1>5, <1>7, <2>1
    <3>2. /\ \A r \in Requests : Right("admin", r, desk'.rows[r])
          /\ Wants(desk'.filter) => News \/ Covers(desk'.rows)
      BY <1>1, <1>2, <1>7, <2>1, <3>1 DEF Brings
    <3>3. \A r \in Requests : LastWord("admin", r, Target(r)) /\ (Told("admin", r) => ~Open(r))
      <4>1. CASE told
        BY <2>1, <3>1, <4>1 DEF IInv, RowsOK
      <4>2. CASE ~told
        BY <1>9, <2>1, <4>2 DEF LastWord, Told
      <4> QED BY <4>1, <4>2
    <3> QED BY <1>2, <2>1, <3>2, <3>3, RowsAgain
  <2>2. CASE k.kind # "rows"
    BY <1>2, <1>4, <1>5, <1>7, <2>2, RowsStand DEF IInv
  <2>3. CASE "rows" \in misled'
    BY <2>3 DEF RowsOK
  <2> QED BY <2>1, <2>2, <2>3
<1>13. BadgeOK'
  <2>1. CASE k.kind = "badge" /\ "badge" \notin misled'
    <3>1. Recounts \/ (\E j \in DOMAIN mail["admin"] : Number(j)) \/ Enough(k.n)
      BY <1>1, <1>2, <1>5, <2>1 DEF Brings
    <3>2. \/ Recounts
          \/ \E j \in DOMAIN mail["admin"] :
               /\ Number(j) /\ Enough(mail["admin"][j].n)
               /\ \A m \in DOMAIN mail["admin"] : Number(m) => m <= j
          \/ (\A j \in DOMAIN mail["admin"] : ~Number(j)) /\ Enough(k.n)
      <4>1. CASE told
        BY <1>5, <2>1, <3>1, <4>1 DEF IInv, BadgeOK
      <4>2. CASE ~told
        BY <1>9, <2>1, <3>1, <4>2
      <4> QED BY <4>1, <4>2
    <3>3. desk'.badge = k.n
      BY <1>7, <2>1
    <3> QED BY <1>2, <3>2, <3>3, BadgeAgain
  <2>2. CASE k.kind # "badge"
    BY <1>2, <1>5, <1>7, <2>2, BadgeStands DEF IInv
  <2>3. CASE "badge" \in misled'
    BY <2>3 DEF BadgeOK
  <2> QED BY <2>1, <2>2, <2>3
<1> QED BY <1>4, <1>8, <1>10, <1>11, <1>12, <1>13 DEF IInv
-----------------------------------------------------------------------------
(* Events that are sent.                                                   *)
Grows(c) == \A i \in DOMAIN mail[c] : i \in DOMAIN mail'[c] /\ mail'[c][i] = mail[c][i]
\* e is the last event on its way to c, behind those there were.
Newest(c, e) ==
  /\ mail[c] \in Seq(Event) /\ DOMAIN mail'[c] = DOMAIN mail[c] \cup {Len(mail[c]) + 1}
  /\ Grows(c) /\ mail'[c][Len(mail[c]) + 1] = e
\* The answered loads of c, and the answers of decisions e contradicts, are old now.
Late(c, e, cs) ==
  \A i \in DOMAIN cs :
    cs[i].who = c /\ cs[i].stage = "answered" /\ (cs[i].kind \in Loads \/ Contradicts(e, cs[i])) => calls'[i].old

LEMMA HearsOrMisses ==
  ASSUME TypeOK, NEW c \in Clients, NEW e \in Event, NEW cs, Hearing(c, e, cs)
  PROVE  \/ c \in up /\ Newest(c, e)
         \/ c \notin up /\ mail'[c] = mail[c] /\ ViewsOf[c] \subseteq misled' /\ Late(c, e, cs)
<1>1. mail[c] \in Seq(Event)
  BY DEF TypeOK
<1>2. CASE c \in up
  <2>1. mail'[c] = Append(mail[c], e)
    BY <1>2 DEF Hearing
  <2>2. Newest(c, e)
    BY <1>1, <2>1, OneAppended DEF Newest, Grows
  <2> QED BY <1>2, <2>2
<1>3. CASE c \notin up
  BY <1>3 DEF Hearing, Late
<1> QED BY <1>2, <1>3

LEMMA Growing ==
  ASSUME NEW c, Grows(c)
  PROVE  /\ \A r : Told(c, r) => Told(c, r)'
         /\ c = "user" /\ Approval => Approval'
         /\ c = "admin" /\ News => News'
         /\ c = "admin" /\ (\E i \in DOMAIN mail["admin"] : Number(i)) => (\E i \in DOMAIN mail["admin"] : Number(i))'
         /\ c = "admin" => \A k : (\E i \in DOMAIN mail["admin"] : Contradicts(mail["admin"][i], k))
                                  => (\E i \in DOMAIN mail["admin"] : Contradicts(mail["admin"][i], k))'
<1>1. \A r : Told(c, r) => Told(c, r)'
  BY DEF Grows, Told
<1>2. ASSUME c = "user", Approval
      PROVE  Approval'
  BY <1>2 DEF Grows, Approval
<1>3. ASSUME c = "admin", News
      PROVE  News'
  BY <1>3 DEF Grows, News
<1>4. ASSUME c = "admin", NEW i \in DOMAIN mail["admin"], Number(i)
      PROVE  (\E j \in DOMAIN mail["admin"] : Number(j))'
  BY <1>4 DEF Grows, Number
<1>5. ASSUME c = "admin", NEW k, NEW i \in DOMAIN mail["admin"], Contradicts(mail["admin"][i], k)
      PROVE  (\E j \in DOMAIN mail["admin"] : Contradicts(mail["admin"][j], k))'
  <2>1. i \in DOMAIN mail'["admin"] /\ Contradicts(mail'["admin"][i], k)
    BY <1>5 DEF Grows
  <2> QED BY <2>1 DEF Contradicts
<1> QED BY <1>1, <1>2, <1>3, <1>4, <1>5

\* The last event says that r is s.
LEMMA LastSays ==
  ASSUME NEW c, NEW r, NEW s, Newest(c, Update(r, s))
  PROVE  /\ Told(c, r)' /\ LastWord(c, r, s)'
         /\ \A x : x # r => (Told(c, x)' => Told(c, x)) /\ \A t : LastWord(c, x, t) => LastWord(c, x, t)'
         /\ c = "user" /\ s = "approved" => Approval'
         /\ \A k : Contradicts(Update(r, s), k) /\ c = "admin"
                   => (\E i \in DOMAIN mail["admin"] : Contradicts(mail["admin"][i], k))'
<1> DEFINE e == Update(r, s)
           n == Len(mail[c]) + 1
<1>1. e.kind = "updated" /\ e.r = r /\ e.to = s
  BY DEF Update
<1> HIDE DEF e
<1>2. /\ mail[c] \in Seq(Event) /\ DOMAIN mail'[c] = DOMAIN mail[c] \cup {n} /\ n \in Nat
      /\ \A i \in DOMAIN mail[c] : i \in 1..(n - 1) /\ i < n /\ mail'[c][i] = mail[c][i]
      /\ mail'[c][n] = e
  BY DEF Newest, Grows, e
<1> HIDE DEF n
<1>3. Told(c, r)'
  BY <1>1, <1>2 DEF Told
<1>4. LastWord(c, r, s)'
  <2>1. \A i \in DOMAIN mail'[c] : n >= i
    BY <1>2
  <2> QED BY <1>1, <1>2, <2>1 DEF LastWord, Says
<1>5. ASSUME NEW x, x # r
      PROVE  (Told(c, x)' => Told(c, x)) /\ \A t : LastWord(c, x, t) => LastWord(c, x, t)'
  <2>1. \A i \in DOMAIN mail'[c] : Says(mail'[c][i], x) => i \in DOMAIN mail[c] /\ mail'[c][i] = mail[c][i]
    BY <1>1, <1>2, <1>5 DEF Says
  <2>2. Told(c, x)' => Told(c, x)
    BY <2>1 DEF Told, Says
  <2>3. ASSUME NEW t, LastWord(c, x, t)
        PROVE  LastWord(c, x, t)'
    <3> SUFFICES ASSUME NEW i \in DOMAIN mail'[c], Says(mail'[c][i], x)
                 PROVE  \E j \in DOMAIN mail'[c] : j >= i /\ Says(mail'[c][j], x) /\ mail'[c][j].to = t
      BY DEF LastWord, Says
    <3>1. i \in DOMAIN mail[c] /\ mail'[c][i] = mail[c][i] /\ Says(mail[c][i], x)
      BY <2>1
    <3>2. PICK j \in DOMAIN mail[c] : j >= i /\ Says(mail[c][j], x) /\ mail[c][j].to = t
      BY <2>3, <3>1 DEF LastWord
    <3> QED BY <1>2, <3>2
  <2> QED BY <2>2, <2>3
<1>6. c = "user" /\ s = "approved" => Approval'
  BY <1>1, <1>2 DEF Approval
<1>7. \A k : Contradicts(e, k) /\ c = "admin"
             => (\E i \in DOMAIN mail["admin"] : Contradicts(mail["admin"][i], k))'
  <2> SUFFICES ASSUME NEW k, Contradicts(e, k), c = "admin"
               PROVE  (\E i \in DOMAIN mail["admin"] : Contradicts(mail["admin"][i], k))'
    OBVIOUS
  <2>1. n \in DOMAIN mail'["admin"] /\ Contradicts(mail'["admin"][n], k)
    BY <1>2
  <2> QED BY <2>1 DEF Contradicts
<1> QED BY <1>3, <1>4, <1>5, <1>6, <1>7 DEF e

\* The last event says nothing of a request.
LEMMA LastSaysElse ==
  ASSUME NEW c, NEW e, e.kind # "updated", Newest(c, e)
  PROVE  \A x : (Told(c, x)' => Told(c, x)) /\ \A t : LastWord(c, x, t) => LastWord(c, x, t)'
<1> DEFINE n == Len(mail[c]) + 1
<1>1. /\ DOMAIN mail'[c] = DOMAIN mail[c] \cup {n}
      /\ \A i \in DOMAIN mail[c] : mail'[c][i] = mail[c][i]
      /\ mail'[c][n] = e
  BY DEF Newest, Grows
<1> HIDE DEF n
<1> SUFFICES ASSUME NEW x
             PROVE  (Told(c, x)' => Told(c, x)) /\ \A t : LastWord(c, x, t) => LastWord(c, x, t)'
  OBVIOUS
<1>2. \A i \in DOMAIN mail'[c] : Says(mail'[c][i], x) => i \in DOMAIN mail[c] /\ mail'[c][i] = mail[c][i]
  BY <1>1 DEF Says
<1>3. Told(c, x)' => Told(c, x)
  BY <1>2 DEF Told, Says
<1>4. ASSUME NEW t, LastWord(c, x, t)
      PROVE  LastWord(c, x, t)'
  <2> SUFFICES ASSUME NEW i \in DOMAIN mail'[c], Says(mail'[c][i], x)
               PROVE  \E j \in DOMAIN mail'[c] : j >= i /\ Says(mail'[c][j], x) /\ mail'[c][j].to = t
    BY DEF LastWord, Says
  <2>1. i \in DOMAIN mail[c] /\ mail'[c][i] = mail[c][i] /\ Says(mail[c][i], x)
    BY <1>2
  <2>2. PICK j \in DOMAIN mail[c] : j >= i /\ Says(mail[c][j], x) /\ mail[c][j].to = t
    BY <1>4, <2>1 DEF LastWord
  <2> QED BY <1>1, <2>2
<1> QED BY <1>3, <1>4
-----------------------------------------------------------------------------
(* What a client will see stays right.                                     *)
Rows == [Requests -> Statuses \cup {Absent}]
Numbered(n) == Recounts \/ (\E i \in DOMAIN mail["admin"] : Number(i)) \/ Enough(n)
KeepsRight(c) == \A r \in Requests, s \in Statuses \cup {Absent} : Right(c, r, s) => Right(c, r, s)'
KeepsCounts == \A B \in SUBSET Requests : Approval \/ Counts(B) => (Approval \/ Counts(B))'
KeepsCovers == \A R \in Rows : News \/ Covers(R) => (News \/ Covers(R))'
KeepsNumber == \A n \in Nat : Numbered(n) => Numbered(n)'
Keeping(c) ==
  /\ KeepsRight(c)
  /\ c = "user" => KeepsCounts
  /\ c = "admin" => KeepsCovers /\ KeepsNumber
\* The answer of a decision is right, or an event will correct it.
Borne(k) ==
  \A r \in k.about : status[r] = k.kind \/ \E i \in DOMAIN mail["admin"] : Contradicts(mail["admin"][i], k)

LEMMA BringsStill ==
  ASSUME TypeOK, NEW k \in Call, NEW m, Stays(k, m), CallOK(k), Brings(k),
         k.stage = "answered" /\ k.kind \in Loads => m.old \/ Keeping(k.who),
         k.stage = "answered" /\ k.kind \in Decisions => m.old \/ (Borne(k) => Borne(k)')
  PROVE  Brings(m)'
<1>1. CASE m.old \/ k.stage # "answered"
  BY <1>1 DEF Brings, Stays
<1>2. CASE ~m.old /\ k.stage = "answered"
  <2>1. ~k.old /\ m.kind = k.kind /\ m.rows = k.rows /\ m.about = k.about /\ m.n = k.n /\ m.filter = k.filter
    BY <1>2 DEF Stays
  <2>2. k.rows \in Rows /\ k.about \in SUBSET Requests /\ k.n \in Nat
    BY Types DEF Call, Rows
  <2>3. /\ k.kind \in {"list", "balance"} => k.who = "user"
        /\ k.kind \in {"rows", "badge"} => k.who = "admin"
    BY DEF CallOK, ViewsOf, Clients, Call, Loads
  <2>4. ASSUME m.kind = "list", NEW r \in Requests
        PROVE  Right("user", r, m.rows[r])'
    <3>1. Right("user", r, k.rows[r]) /\ KeepsRight("user")
      BY <1>2, <2>1, <2>3, <2>4 DEF Brings, Keeping, Loads
    <3>2. PICK s \in Statuses \cup {Absent} : s = k.rows[r]
      BY <2>2 DEF Rows
    <3>3. Right("user", r, s)'
      BY <3>1, <3>2 DEF KeepsRight
    <3> QED BY <2>1, <3>2, <3>3
  <2>5. ASSUME m.kind = "balance"
        PROVE  (Approval \/ Counts(m.about))'
    <3>1. (Approval \/ Counts(k.about)) /\ KeepsCounts
      BY <1>2, <2>1, <2>3, <2>5 DEF Brings, Keeping, Loads
    <3> QED BY <2>1, <2>2, <3>1 DEF KeepsCounts
  <2>6. ASSUME m.kind = "rows", NEW r \in Requests
        PROVE  Right("admin", r, m.rows[r])'
    <3>1. Right("admin", r, k.rows[r]) /\ KeepsRight("admin")
      BY <1>2, <2>1, <2>3, <2>6 DEF Brings, Keeping, Loads
    <3>2. PICK s \in Statuses \cup {Absent} : s = k.rows[r]
      BY <2>2 DEF Rows
    <3>3. Right("admin", r, s)'
      BY <3>1, <3>2 DEF KeepsRight
    <3> QED BY <2>1, <3>2, <3>3
  <2>7. ASSUME m.kind = "rows", Wants(m.filter)
        PROVE  (News \/ Covers(m.rows))'
    <3>1. (News \/ Covers(k.rows)) /\ KeepsCovers
      BY <1>2, <2>1, <2>3, <2>7 DEF Brings, Keeping, Loads
    <3> QED BY <2>1, <2>2, <3>1 DEF KeepsCovers
  <2>8. ASSUME m.kind = "badge"
        PROVE  Numbered(m.n)'
    <3>1. Numbered(k.n) /\ KeepsNumber
      BY <1>2, <2>1, <2>3, <2>8 DEF Brings, Keeping, Loads, Numbered
    <3> QED BY <2>1, <2>2, <3>1 DEF KeepsNumber
  <2>9. ASSUME m.kind \in Decisions
        PROVE  Borne(m)'
    <3>1. Borne(k)
      BY <1>2, <2>1, <2>9 DEF Brings, Borne
    <3>2. Borne(k)'
      BY <1>2, <2>1, <2>9, <3>1
    <3> QED BY <2>1, <3>2 DEF Borne, Contradicts
  <2> QED BY <2>4, <2>5, <2>6, <2>7, <2>8, <2>9 DEF Brings, Numbered, Borne, Wants
<1> QED BY <1>1, <1>2

\* The views stand while what they show stays right.
LEMMA ListKept ==
  ASSUME TypeOK, ListOK, page'.list = page.list,
         "list" \notin misled' =>
           "list" \notin misled /\ KeepsRight("user") /\ \A r \in Requests : LastWord("user", r, Target(r))'
  PROVE  ListOK'
<1> SUFFICES ASSUME "list" \notin misled', NEW r \in Requests
             PROVE  LastWord("user", r, Target(r))' /\ Right("user", r, page.list[r])'
  BY DEF ListOK
<1>1. Right("user", r, page.list[r])
  BY DEF ListOK
<1>2. PICK s \in Statuses \cup {Absent} : s = page.list[r]
  BY DEF TypeOK
<1>3. Right("user", r, s)'
  BY <1>1, <1>2 DEF KeepsRight
<1>4. Right("user", r, page.list[r])'
  BY <1>2, <1>3
<1> QED BY <1>4

LEMMA BalanceKept ==
  ASSUME TypeOK, BalanceOK, page'.balance = page.balance, Keeps("balance"),
         "balance" \notin misled' => "balance" \notin misled /\ KeepsCounts
  PROVE  BalanceOK'
<1> SUFFICES ASSUME "balance" \notin misled'
             PROVE  (Approval \/ Counts(page.balance))' \/ \E j \in DOMAIN calls' : calls'[j].kind = "balance"
  BY DEF BalanceOK
<1>1. CASE \E i \in DOMAIN calls : calls[i].kind = "balance"
  BY <1>1 DEF Keeps
<1>2. CASE ~\E i \in DOMAIN calls : calls[i].kind = "balance"
  <2>1. Approval \/ Counts(page.balance)
    BY <1>2 DEF BalanceOK
  <2>2. PICK B \in SUBSET Requests : B = page.balance
    BY DEF TypeOK
  <2>3. (Approval \/ Counts(B))'
    BY <2>1, <2>2 DEF KeepsCounts
  <2> QED BY <2>2, <2>3
<1> QED BY <1>1, <1>2

LEMMA RowsKept ==
  ASSUME TypeOK, RowsOK, desk'.rows = desk.rows, desk'.filter = desk.filter, Keeps("rows"),
         "rows" \notin misled' =>
           /\ "rows" \notin misled /\ KeepsRight("admin") /\ KeepsCovers
           /\ \A r \in Requests : LastWord("admin", r, Target(r))' /\ (Told("admin", r)' => ~Open(r)')
  PROVE  RowsOK'
<1> SUFFICES ASSUME "rows" \notin misled'
             PROVE  /\ \A r \in Requests : LastWord("admin", r, Target(r))' /\ Right("admin", r, desk.rows[r])'
                                           /\ (Told("admin", r) => ~Open(r))'
                    /\ Wants(desk.filter)' => \/ (News \/ Covers(desk.rows))'
                                              \/ \E j \in DOMAIN calls' : calls'[j].kind = "rows"
  BY DEF RowsOK
<1>1. PICK R \in Rows : R = desk.rows
  BY DEF TypeOK, Rows
<1>2. ASSUME NEW r \in Requests
      PROVE  Right("admin", r, desk.rows[r])'
  <2>1. Right("admin", r, R[r]) /\ R[r] \in Statuses \cup {Absent}
    BY <1>1 DEF RowsOK, Rows
  <2>2. Right("admin", r, R[r])'
    BY <2>1 DEF KeepsRight
  <2> QED BY <1>1, <2>2
<1>3. ASSUME Wants(desk.filter)'
      PROVE  (News \/ Covers(desk.rows))' \/ \E j \in DOMAIN calls' : calls'[j].kind = "rows"
  <2>1. News \/ Covers(R) \/ \E i \in DOMAIN calls : calls[i].kind = "rows"
    BY <1>1, <1>3 DEF RowsOK, Wants
  <2>2. CASE \E i \in DOMAIN calls : calls[i].kind = "rows"
    BY <2>2 DEF Keeps
  <2>3. CASE News \/ Covers(R)
    <3>1. (News \/ Covers(R))'
      BY <2>3 DEF KeepsCovers
    <3> QED BY <1>1, <3>1
  <2> QED BY <2>1, <2>2, <2>3
<1> QED BY <1>2, <1>3

\* Every call is as it should be when each is.
LEMMA EachCall ==
  ASSUME \A j \in DOMAIN calls' : \E m : m = calls'[j] /\ CallOK(m)' /\ Brings(m)'
  PROVE  CallsOK' /\ AllBring'
<1>1. ASSUME NEW j \in DOMAIN calls'
      PROVE  CallOK(calls[j])' /\ Brings(calls[j])'
  <2>1. PICK m : m = calls'[j] /\ CallOK(m)' /\ Brings(m)'
    OBVIOUS
  <2> QED BY <2>1
<1> QED BY <1>1 DEF CallsOK, AllBring

\* The pending requests will be counted.
LEMMA Recounting ==
  ASSUME TypeOK, Recount
  PROVE  /\ counting' \in Seq([read : BOOLEAN, n : 0..Cardinality(Requests), old : BOOLEAN])
         /\ Recounts' /\ CountOK' /\ BadgeOK' /\ KeepsNumber
<1> DEFINE e == [read |-> FALSE, n |-> 0, old |-> FALSE]
           S == [read : BOOLEAN, n : 0..Cardinality(Requests), old : BOOLEAN]
<1>1. e \in S /\ counting \in Seq(S) /\ counting' = Append(counting, e)
  <2>1. 0 \in 0..Cardinality(Requests)
    BY Types
  <2> QED BY <2>1 DEF TypeOK, Recount
<1>2. ~e.read
  OBVIOUS
<1> HIDE DEF e, S
<1>3. counting' \in Seq(S) /\ Len(counting) + 1 \in DOMAIN counting' /\ counting'[Len(counting) + 1] = e
  BY <1>1, OneAppended
<1>4. \E i \in DOMAIN counting' : ~counting'[i].read
  BY <1>2, <1>3
<1>5. Recounts' /\ CountOK'
  BY <1>4 DEF Recounts, CountOK
<1> QED BY <1>3, <1>5 DEF S, BadgeOK, KeepsNumber, Numbered
-----------------------------------------------------------------------------
(* The server creates a request.                                           *)
LEMMA CreatedCallOK ==
  ASSUME TypeOK, NEW r \in Requests, status[r] = Absent, r \notin DOMAIN deciding,
         status' = [status EXCEPT ![r] = "pending"], deciding' = deciding,
         NEW m, CallOK(m), ~(m.kind = "create" /\ m.stage = "sent" /\ m.about = {r})
  PROVE  CallOK(m)'
<1>1. /\ status'[r] = "pending" /\ \A x \in Requests : x # r => status'[x] = status[x]
  BY DEF TypeOK
<1>2. Absent # "pending" /\ Absent # "cancelled"
  BY DEF Absent
<1>3. ASSUME m.kind \in Acts
      PROVE  \E x \in Requests :
               /\ m.about = {x}
               /\ m.kind = "create" => m.stage # "checked" /\ (m.stage = "sent" => status'[x] = Absent)
               /\ m.kind = "cancel" => /\ m.stage = "checked" => status'[x] # Absent
                                       /\ m.stage = "answered" => status'[x] = "cancelled"
               /\ m.kind \in Decisions => /\ m.stage # "checked"
                                          /\ m.stage = "answered" => status'[x] \notin {Absent, "pending"}
                                          /\ x \in DOMAIN deciding => m.kind = deciding[x] /\ m.stage = "sent"
  <2>1. PICK x \in Requests :
               /\ m.about = {x}
               /\ m.kind = "create" => m.stage # "checked" /\ (m.stage = "sent" => status[x] = Absent)
               /\ m.kind = "cancel" => /\ m.stage = "checked" => status[x] # Absent
                                       /\ m.stage = "answered" => status[x] = "cancelled"
               /\ m.kind \in Decisions => /\ m.stage # "checked"
                                          /\ m.stage = "answered" => status[x] \notin {Absent, "pending"}
                                          /\ x \in DOMAIN deciding => m.kind = deciding[x] /\ m.stage = "sent"
    BY <1>3 DEF CallOK
  <2>2. CASE x = r
    BY <1>1, <1>2, <2>1, <2>2
  <2>3. CASE x # r
    BY <1>1, <2>1, <2>3
  <2> QED BY <2>2, <2>3
<1> QED BY <1>3 DEF CallOK

LEMMA Creates ==
  ASSUME IInv, NEW i \in DOMAIN calls, Create(i)
  PROVE  IInv'
<1> DEFINE k == calls[i]
<1>1. calls \in Seq(Call) /\ Alone /\ k \in Call /\ CallOK(k) /\ TypeOK
  BY Types DEF IInv, CallsOK
<1>2. k.kind = "create" /\ k.stage = "sent" /\ Recount
      /\ UNCHANGED <<credited, deciding, page, desk, up, turns>>
  BY DEF Create
<1>3. PICK r \in k.about : /\ status' = [status EXCEPT ![r] = "pending"]
                           /\ Emit(ToAdmin([kind |-> "new", r |-> r]), Answered(i), {})
  BY DEF Create
<1> HIDE DEF k
<1>4. r \in Requests /\ k.about = {r} /\ status[r] = Absent /\ r \notin DOMAIN deciding
  <2>1. r \in Requests /\ k.about = {r} /\ status[r] = Absent
    BY <1>1, <1>2, <1>3 DEF CallOK, Acts
  <2> QED BY <2>1 DEF IInv, Deciding, Absent
<1> DEFINE e == [kind |-> "new", r |-> r]
           cs == Answered(i)
<1>5. e \in Event /\ e.kind = "new"
  BY <1>4 DEF Event
<1>6. cs \in Seq(Call)
  BY <1>1, OneStage DEF Answered
<1>7. Emit(ToAdmin(e), cs, {})
  BY <1>3
<1> HIDE DEF e
<1>8. /\ Stay(cs, calls') /\ misled \subseteq misled' /\ mail' \in [Clients -> Seq(Event)]
      /\ mail'["user"] = mail["user"] /\ Hearing("admin", e, cs)
  <2> HIDE DEF cs
  <2> QED BY <1>1, <1>5, <1>6, <1>7, AdminHears
<1>9. /\ Restaged(i, "answered") /\ Alone'
      /\ \A j \in DOMAIN calls \ {i} : Goes(j) /\ Came(calls'[j])
  BY <1>1, <1>8, Restaging DEF Answered
<1>10. \/ "admin" \in up /\ Newest("admin", e)
       \/ "admin" \notin up /\ mail'["admin"] = mail["admin"] /\ ViewsOf["admin"] \subseteq misled' /\ Late("admin", e, cs)
  <2> HIDE DEF cs
  <2> QED BY <1>1, <1>5, <1>8, HearsOrMisses DEF Clients
<1>11. "user" \in Clients /\ "admin" \in Clients /\ \A c \in Clients : Grows(c)
  BY <1>8, <1>10 DEF Grows, Newest, Clients
<1>12. /\ status' \in Rows /\ status'[r] = "pending" /\ \A x \in Requests : x # r => status'[x] = status[x]
  BY <1>3, <1>4 DEF IInv, TypeOK, Rows, Statuses
<1>13. \A x \in Requests : x # r => (Target(x)' = Target(x) /\ Open(x)' = Open(x))
  BY <1>2, <1>12 DEF Target, Open
<1>14. Target(r) = Absent
  BY <1>4 DEF Target
<1>15. \A c \in Clients : KeepsRight(c)
  BY <1>11, <1>13, <1>14, Growing DEF KeepsRight, Right
<1>16. KeepsCounts
  BY <1>2, <1>8 DEF KeepsCounts, Approval, Counts
<1>17. Recounts' /\ CountOK' /\ BadgeOK' /\ KeepsNumber
  BY <1>1, <1>2, Recounting
<1>18. "admin" \in up => News'
  BY <1>5, <1>10 DEF News, Newest
<1>19. "admin" \in up => Keeping("admin")
  BY <1>11, <1>15, <1>17, <1>18 DEF Keeping, KeepsCovers
<1>20. Keeping("user")
  BY <1>11, <1>15, <1>16 DEF Keeping
<1>21. CallsOK' /\ AllBring'
  <2> SUFFICES ASSUME NEW j \in DOMAIN calls'
               PROVE  \E m : m = calls'[j] /\ CallOK(m)' /\ Brings(m)'
    BY EachCall
  <2>1. PICK m : m = calls'[j]
    OBVIOUS
  <2>2. CASE j = i
    <3>1. m.kind = "create" /\ m.stage = "answered" /\ m.about = {r} /\ m.who = k.who
      <4>1. Stays([k EXCEPT !.stage = "answered"], m)
        BY <1>9, <2>1, <2>2 DEF Restaged, k
      <4> QED BY <1>1, <1>2, <1>4, <4>1 DEF Stays, Call
    <3>2. CallOK(m)
      BY <1>1, <1>2, <1>4, <3>1 DEF CallOK, Loads, Acts, Decisions
    <3>3. CallOK(m)'
      BY <1>1, <1>2, <1>3, <1>4, <3>1, <3>2, CreatedCallOK
    <3>4. Brings(m)'
      BY <3>1 DEF Brings, Decisions
    <3> QED BY <2>1, <3>3, <3>4
  <2>3. CASE j # i
    <3>0. PICK q : q = calls[j]
      OBVIOUS
    <3>1. j \in DOMAIN calls /\ Stays(q, m)
      BY <1>9, <2>1, <2>3, <3>0 DEF Restaged
    <3>2. q \in Call /\ CallOK(q) /\ Brings(q)
      BY <1>1, <3>0, <3>1 DEF IInv, CallsOK, AllBring
    <3>3. CallOK(m)
      BY <3>1, <3>2, StaysOK
    <3>4. ~(m.kind = "create" /\ m.about = {r})
      BY <1>1, <1>2, <1>4, <2>3, <3>0, <3>1 DEF Alone, Alike, Stays, k
    <3>5. CallOK(m)'
      BY <1>1, <1>2, <1>3, <1>4, <3>3, <3>4, CreatedCallOK
    <3>6. q.stage = "answered" /\ q.kind \in Loads => m.old \/ Keeping(q.who)
      <4>1. cs[j] = q /\ j \in DOMAIN cs
        BY <1>1, <2>3, <3>0, <3>1 DEF Answered
      <4>2. q.who \in Clients
        BY <3>2 DEF Call
      <4>3. "admin" \notin up /\ q.who = "admin" /\ q.stage = "answered" /\ q.kind \in Loads => m.old
        <5> HIDE DEF cs
        <5> QED BY <1>10, <2>1, <4>1 DEF Late
      <4> QED BY <1>19, <1>20, <4>2, <4>3 DEF Clients
    <3>7. q.stage = "answered" /\ q.kind \in Decisions => (Borne(q) => Borne(q)')
      <4> SUFFICES ASSUME q.stage = "answered", q.kind \in Decisions, Borne(q)
                   PROVE  Borne(q)'
        OBVIOUS
      <4>1. PICK x \in Requests : q.about = {x} /\ status[x] # Absent
        BY <3>2 DEF CallOK, Acts
      <4>2. status'[x] = status[x]
        BY <1>4, <1>12, <4>1
      <4>3. (\E a \in DOMAIN mail["admin"] : Contradicts(mail["admin"][a], q))
            => (\E a \in DOMAIN mail["admin"] : Contradicts(mail["admin"][a], q))'
        BY <1>11, Growing
      <4> QED BY <4>1, <4>2, <4>3 DEF Borne
    <3>8. Brings(m)'
      BY <1>1, <3>1, <3>2, <3>6, <3>7, BringsStill
    <3> QED BY <2>1, <3>5, <3>8
  <2> QED BY <2>2, <2>3
<1>22. \A c \in Clients : \A x : (Told(c, x)' => Told(c, x)) /\ \A t : LastWord(c, x, t) => LastWord(c, x, t)'
  <2> SUFFICES ASSUME NEW c \in Clients, NEW x
               PROVE  (Told(c, x)' => Told(c, x)) /\ \A t : LastWord(c, x, t) => LastWord(c, x, t)'
    OBVIOUS
  <2>1. CASE mail'[c] = mail[c]
    BY <2>1 DEF Told, LastWord
  <2>2. CASE Newest(c, e)
    BY <1>5, <2>2, LastSaysElse
  <2> QED BY <1>8, <1>10, <2>1, <2>2 DEF Clients
<1>23. MailOK'
  <2>1. \A c \in Clients : c \notin up => mail'[c] = << >>
    BY <1>8, <1>10 DEF IInv, MailOK, Clients
  <2>2. ASSUME NEW c \in Clients, NEW j \in DOMAIN mail'[c], mail'[c][j].kind = "updated"
        PROVE  status'[mail'[c][j].r] # Absent
    <3>1. j \in DOMAIN mail[c] /\ mail'[c][j] = mail[c][j]
      BY <1>5, <1>8, <1>10, <2>2 DEF Newest, Grows, Clients
    <3>2. mail[c][j] \in Event
      BY <1>1, <3>1 DEF TypeOK
    <3>3. mail[c][j].r \in Requests /\ status[mail[c][j].r] # Absent
      BY <2>2, <3>1, <3>2 DEF IInv, MailOK, Event
    <3> QED BY <1>4, <1>12, <3>1, <3>3
  <2> QED BY <1>2, <1>8, <2>1, <2>2 DEF IInv, MailOK
<1>24. Deciding'
  <2> SUFFICES ASSUME NEW x \in DOMAIN deciding
               PROVE  /\ status'[x] = "pending" /\ \A c \in Clients : LastWord(c, x, deciding[x])'
                      /\ \E j \in DOMAIN calls' : calls'[j].kind \in Decisions /\ calls'[j].about = {x}
    BY <1>2 DEF Deciding
  <2>1. PICK j \in DOMAIN calls : calls[j].kind \in Decisions /\ calls[j].about = {x}
    BY DEF IInv, Deciding
  <2>2. j # i
    BY <1>2, <2>1 DEF Decisions, k
  <2>3. \E m \in DOMAIN calls' : calls'[m].kind \in Decisions /\ calls'[m].about = {x}
    BY <1>9, <2>1, <2>2 DEF Goes, Stays
  <2>4. x \in Requests /\ x # r /\ status[x] = "pending"
    BY <1>1, <1>4 DEF IInv, Deciding, TypeOK
  <2>5. PICK d : d = deciding[x]
    OBVIOUS
  <2>6. \A c \in Clients : LastWord(c, x, d)
    BY <2>5 DEF IInv, Deciding
  <2>7. \A c \in Clients : LastWord(c, x, d)'
    BY <1>22, <2>6
  <2> QED BY <1>2, <1>12, <2>3, <2>4, <2>5, <2>7
<1>25. TypeOK'
  <2>1. calls' \in Seq(Call) /\ misled' \subseteq Loads
    <3>1. misled' \subseteq Loads
      BY <1>7 DEF Emit, ToAdmin, IInv, TypeOK, ViewsOf, Clients, Loads
    <3> QED BY <1>9, <3>1 DEF Restaged
  <2> QED BY <1>1, <1>2, <1>8, <1>12, <2>1, Recounting DEF TypeOK, Rows
<1>26. \A c \in Clients, x \in Requests : LastWord(c, x, Target(x)) => LastWord(c, x, Target(x))'
  <2> SUFFICES ASSUME NEW c \in Clients, NEW x \in Requests, LastWord(c, x, Target(x))
               PROVE  LastWord(c, x, Target(x))'
    OBVIOUS
  <2>1. CASE x # r
    <3>1. PICK t : t = Target(x)
      OBVIOUS
    <3>2. LastWord(c, x, t)' /\ Target(x)' = t
      BY <1>13, <1>22, <2>1, <3>1
    <3> QED BY <3>2
  <2>2. CASE x = r
    <3>1. ~Told(c, r)
      BY <1>4 DEF IInv, MailOK, Told
    <3>2. ~Told(c, r)'
      BY <1>22, <3>1
    <3> QED BY <2>2, <3>2 DEF LastWord, Told, Says
  <2> QED BY <2>1, <2>2
<1>27. ListOK'
  BY <1>1, <1>2, <1>8, <1>11, <1>20, <1>26, ListKept DEF IInv, ListOK, Keeping
<1>28. Keeps("balance") /\ Keeps("rows")
  <2>1. \A j \in DOMAIN calls : calls[j].kind \in {"balance", "rows"} => Goes(j)
    BY <1>2, <1>9 DEF k
  <2> QED BY <2>1, GoesKeeps
<1>29. BalanceOK'
  BY <1>1, <1>2, <1>8, <1>16, <1>28, BalanceKept DEF IInv
<1>30. RowsOK'
  <2>1. ASSUME "rows" \notin misled'
        PROVE  /\ "rows" \notin misled /\ KeepsRight("admin") /\ KeepsCovers
               /\ \A x \in Requests : LastWord("admin", x, Target(x))' /\ (Told("admin", x)' => ~Open(x)')
    <3>1. "rows" \notin misled /\ "admin" \in up
      BY <1>8, <1>10, <1>11, <2>1 DEF ViewsOf, Clients
    <3>2. \A x \in Requests : LastWord("admin", x, Target(x)) /\ (Told("admin", x) => ~Open(x))
      BY <3>1 DEF IInv, RowsOK
    <3>3. ~Told("admin", r)
      BY <1>4 DEF IInv, MailOK, Told, Clients
    <3>4. \A x \in Requests : Told("admin", x)' => ~Open(x)'
      BY <1>11, <1>13, <1>22, <3>2, <3>3
    <3> QED BY <1>11, <1>19, <1>26, <3>1, <3>2, <3>4 DEF Keeping
  <2> QED BY <1>1, <1>2, <1>28, <2>1, RowsKept DEF IInv
<1> QED BY <1>9, <1>17, <1>21, <1>23, <1>24, <1>25, <1>27, <1>29, <1>30 DEF IInv
-----------------------------------------------------------------------------
(* Both clients are told that r is s.                                      *)
Elsewhere(r) ==
  \A x \in Requests : x # r =>
    /\ status'[x] = status[x] /\ (x \in DOMAIN deciding' <=> x \in DOMAIN deciding)
    /\ x \in DOMAIN deciding => deciding'[x] = deciding[x]
Tells(r, s, cs) ==
  /\ r \in Requests /\ s \in {"approved", "rejected", "cancelled"} /\ cs \in Seq(Call)
  /\ Emit(Both(r, s), cs, {}) /\ Recount /\ UNCHANGED <<credited, page, desk, up, turns>>
  /\ status[r] # Absent /\ status' \in Rows /\ status'[r] # Absent /\ Elsewhere(r)
  /\ DOMAIN deciding' \subseteq Requests /\ \A x \in DOMAIN deciding' : deciding'[x] \in Decisions
  /\ Target(r)' = s /\ ~Open(r)'
  /\ s = "cancelled" => deciding' = deciding
  /\ s = "rejected" => r \in DOMAIN deciding' /\ deciding'[r] = s
  /\ s # "cancelled" => status' = status

LEMMA TellsClients ==
  ASSUME IInv, NEW r, NEW s, NEW cs, Tells(r, s, cs)
  PROVE  /\ Stay(cs, calls') /\ misled \subseteq misled' /\ misled' \subseteq Loads /\ mail' \in [Clients -> Seq(Event)]
         /\ \A c \in Clients :
              \/ c \in up /\ Newest(c, Update(r, s))
              \/ /\ c \notin up /\ mail[c] = << >> /\ mail'[c] = << >> /\ ViewsOf[c] \subseteq misled'
                 /\ Late(c, Update(r, s), cs)
<1>1. r \in Requests /\ s \in Statuses /\ cs \in Seq(Call) /\ Emit(Both(r, s), cs, {}) /\ TypeOK
  BY DEF Tells, Statuses, IInv
<1>2. /\ Stay(cs, calls') /\ misled \subseteq misled' /\ mail' \in [Clients -> Seq(Event)]
      /\ Update(r, s) \in Event /\ \A c \in Clients : Hearing(c, Update(r, s), cs)
  BY <1>1, BothHear
<1>3. misled' \subseteq Loads
  BY <1>1 DEF Emit, IInv, TypeOK, ViewsOf, Clients, Loads
<1>4. \A c \in Clients : c \notin up => mail[c] = << >>
  BY DEF IInv, MailOK
<1> QED BY <1>1, <1>2, <1>3, <1>4, HearsOrMisses

LEMMA TellsKeeping ==
  ASSUME IInv, NEW r, NEW s, NEW cs, Tells(r, s, cs)
  PROVE  /\ \A c \in up : Keeping(c) /\ Told(c, r)'
         /\ \A c \in Clients, x \in Requests :
              (LastWord(c, x, Target(x)) => LastWord(c, x, Target(x))') /\ (x # r => (Told(c, x)' => Told(c, x)))
         /\ \A c \in Clients : LastWord(c, r, s)'
<1>0. /\ r \in Requests /\ up \subseteq Clients /\ TypeOK
  BY Types DEF Tells, IInv
<1>1. \A c \in Clients : c \in up => Newest(c, Update(r, s))
  BY TellsClients
<1>2. \A c \in Clients : c \in up \/ (mail[c] = << >> /\ mail'[c] = << >>)
  BY TellsClients
<1>3. \A x \in Requests : x # r => Target(x)' = Target(x) /\ Open(x)' = Open(x)
  BY DEF Tells, Elsewhere, Target, Open
<1>4. /\ Recounts' /\ KeepsNumber
  BY <1>0, Recounting DEF Tells
<1>5. ASSUME NEW c \in up
      PROVE  Keeping(c) /\ Told(c, r)'
  <2>1. Newest(c, Update(r, s)) /\ Grows(c)
    BY <1>0, <1>1, <1>5 DEF Newest
  <2>2. Told(c, r)' /\ \A x : Told(c, x) => Told(c, x)'
    BY <2>1, LastSays, Growing
  <2>3. KeepsRight(c)
    BY <1>3, <2>2 DEF KeepsRight, Right
  <2>4. ASSUME c = "user"
        PROVE  KeepsCounts
    <3>1. Approval => Approval'
      BY <2>1, <2>4, Growing
    <3>2. CASE s = "approved"
      BY <2>1, <2>4, <3>2, LastSays DEF KeepsCounts
    <3>3. CASE s # "approved"
      <4>1. \A x \in DOMAIN deciding' : deciding'[x] = "approved" => x \in DOMAIN deciding /\ deciding[x] = "approved"
        BY <3>3 DEF Tells, Elsewhere
      <4>2. credited' = credited
        BY DEF Tells
      <4>3. \A B : Counts(B) => Counts(B)'
        BY <4>1, <4>2 DEF Counts
      <4> QED BY <3>1, <4>3 DEF KeepsCounts
    <3> QED BY <3>2, <3>3
  <2>5. ASSUME c = "admin"
        PROVE  KeepsCovers
    <3>1. News => News'
      BY <2>1, <2>5, Growing
    <3>2. \A x \in Requests : Open(x)' => Open(x)
      BY <1>3 DEF Tells
    <3>3. \A R : Covers(R) => Covers(R)'
      BY <3>2 DEF Covers
    <3> QED BY <3>1, <3>3 DEF KeepsCovers
  <2> QED BY <1>4, <2>2, <2>3, <2>4, <2>5 DEF Keeping
<1>6. \A c \in Clients : LastWord(c, r, s)'
  <2> TAKE c \in Clients
  <2>1. CASE c \in up
    BY <1>1, <2>1, LastSays
  <2>2. CASE mail'[c] = << >>
    BY <2>2 DEF LastWord
  <2> QED BY <1>2, <2>1, <2>2
<1>7. ASSUME NEW c \in Clients, NEW x \in Requests
      PROVE  (LastWord(c, x, Target(x)) => LastWord(c, x, Target(x))') /\ (x # r => (Told(c, x)' => Told(c, x)))
  <2>1. CASE x = r
    <3>1. Target(r)' = s
      BY DEF Tells
    <3>2. LastWord(c, r, s)'
      BY <1>6
    <3> QED BY <2>1, <3>1, <3>2 DEF LastWord
  <2>2. CASE x # r
    <3>1. PICK t : t = Target(x)
      OBVIOUS
    <3>2. Target(x)' = t
      BY <1>3, <2>2, <3>1
    <3>3. CASE c \in up
      <4>1. (LastWord(c, x, t) => LastWord(c, x, t)') /\ (Told(c, x)' => Told(c, x))
        BY <1>1, <2>2, <3>3, LastSays
      <4> QED BY <3>1, <3>2, <4>1
    <3>4. CASE mail'[c] = << >>
      BY <3>4 DEF LastWord, Told
    <3> QED BY <1>2, <3>3, <3>4
  <2> QED BY <2>1, <2>2
<1> QED BY <1>5, <1>6, <1>7

LEMMA TellsViews ==
  ASSUME IInv, NEW r, NEW s, NEW cs, Tells(r, s, cs), Keeps("balance"), Keeps("rows")
  PROVE  ListOK' /\ BalanceOK' /\ RowsOK' /\ CountOK' /\ BadgeOK'
<1>1. /\ misled \subseteq misled' /\ "user" \in Clients /\ "admin" \in Clients /\ TypeOK
      /\ \A c \in Clients : c \in up \/ ViewsOf[c] \subseteq misled'
  BY TellsClients DEF Clients, IInv
<1>2. /\ \A c \in up : Keeping(c) /\ Told(c, r)'
      /\ \A c \in Clients, x \in Requests :
              (LastWord(c, x, Target(x)) => LastWord(c, x, Target(x))') /\ (x # r => (Told(c, x)' => Told(c, x)))
  BY TellsKeeping
<1>3. page' = page /\ desk' = desk
  BY DEF Tells
<1>4. ListOK'
  <2>1. "list" \notin misled' => "list" \notin misled /\ KeepsRight("user")
    BY <1>1, <1>2 DEF Keeping, ViewsOf
  <2> QED BY <1>1, <1>2, <1>3, <2>1, ListKept DEF IInv, ListOK
<1>5. BalanceOK'
  <2>1. "balance" \notin misled' => "balance" \notin misled /\ KeepsCounts
    BY <1>1, <1>2 DEF Keeping, ViewsOf
  <2> QED BY <1>1, <1>3, <2>1, BalanceKept DEF IInv
<1>6. RowsOK'
  <2>1. "rows" \notin misled' => "rows" \notin misled /\ KeepsRight("admin") /\ KeepsCovers
    BY <1>1, <1>2 DEF Keeping, ViewsOf
  <2>2. \A x \in Requests : ~Open(x) => ~Open(x)'
    BY DEF Tells, Elsewhere, Open
  <2>3. ~Open(r)'
    BY DEF Tells
  <2>4. "rows" \notin misled' =>
          \A x \in Requests : LastWord("admin", x, Target(x))' /\ (Told("admin", x)' => ~Open(x)')
    BY <1>1, <1>2, <2>1, <2>2, <2>3 DEF IInv, RowsOK
  <2> QED BY <1>1, <1>3, <2>1, <2>4, RowsKept DEF IInv
<1>7. CountOK' /\ BadgeOK'
  BY <1>1, Recounting DEF Tells
<1> QED BY <1>4, <1>5, <1>6, <1>7

LEMMA TellsMail ==
  ASSUME IInv, NEW r, NEW s, NEW cs, Tells(r, s, cs)
  PROVE  /\ TypeOK' /\ MailOK'
         /\ \A x \in DOMAIN deciding, c \in Clients : x # r => LastWord(c, x, deciding[x])'
<1>1. /\ Stay(cs, calls') /\ misled' \subseteq Loads /\ mail' \in [Clients -> Seq(Event)] /\ TypeOK
      /\ \A c \in Clients : \/ c \in up /\ Newest(c, Update(r, s))
                            \/ c \notin up /\ mail'[c] = << >>
  BY TellsClients DEF IInv
<1>2. TypeOK'
  BY <1>1, Recounting DEF TypeOK, Tells, Stay, Rows
<1>3. MailOK'
  <2>1. Update(r, s).kind = "updated" /\ Update(r, s).r = r
    BY DEF Update
  <2>2. up' = up
    BY DEF Tells
  <2>3. \A c \in Clients : c \notin up' => mail'[c] = << >>
    BY <1>1, <2>2
  <2>4. ASSUME NEW c \in Clients, NEW j \in DOMAIN mail'[c]
        PROVE  mail'[c][j] = Update(r, s) \/ (j \in DOMAIN mail[c] /\ mail'[c][j] = mail[c][j])
    BY <1>1, <2>4 DEF Newest, Grows
  <2>5. ASSUME NEW c \in Clients, NEW j \in DOMAIN mail'[c], mail'[c][j].kind = "updated"
        PROVE  status'[mail'[c][j].r] # Absent
    <3>1. CASE mail'[c][j] = Update(r, s)
      BY <2>1, <3>1 DEF Tells
    <3>2. CASE j \in DOMAIN mail[c] /\ mail'[c][j] = mail[c][j]
      <4>1. mail[c][j] \in Event
        BY <1>1, <3>2 DEF TypeOK
      <4>2. mail[c][j].r \in Requests /\ status[mail[c][j].r] # Absent
        BY <2>5, <3>2, <4>1 DEF IInv, MailOK, Event
      <4> QED BY <3>2, <4>2 DEF Tells, Elsewhere
    <3> QED BY <2>4, <3>1, <3>2
  <2>6. \A j \in DOMAIN mail'["user"] : mail'["user"][j].kind = "updated"
    <3>1. "user" \in Clients
      BY DEF Clients
    <3> QED BY <2>1, <2>4, <3>1 DEF IInv, MailOK
  <2> QED BY <2>3, <2>5, <2>6 DEF MailOK
<1>4. ASSUME NEW x \in DOMAIN deciding, NEW c \in Clients, x # r
      PROVE  LastWord(c, x, deciding[x])'
  <2>1. x \in Requests /\ deciding'[x] = deciding[x]
    BY <1>1, <1>4 DEF Tells, Elsewhere, TypeOK
  <2>2. PICK d : d = deciding[x]
    OBVIOUS
  <2>3. LastWord(c, x, d)
    BY <2>2 DEF IInv, Deciding
  <2>4. LastWord(c, x, d)'
    <3>1. CASE Newest(c, Update(r, s))
      BY <1>4, <2>3, <3>1, LastSays
    <3>2. CASE mail'[c] = << >>
      BY <3>2 DEF LastWord
    <3> QED BY <1>1, <3>1, <3>2
  <2> QED BY <2>1, <2>2, <2>4
<1> QED BY <1>2, <1>3, <1>4

LEMMA TellsBrings ==
  ASSUME IInv, NEW r, NEW s, NEW cs, Tells(r, s, cs), NEW j \in DOMAIN cs, CallOK(cs[j]), Brings(cs[j]),
         NEW m, m = calls'[j]
  PROVE  Brings(m)'
<1>0. PICK q : q = cs[j]
  OBVIOUS
<1>1. /\ Stays(q, m) /\ q \in Call /\ CallOK(q) /\ Brings(q) /\ TypeOK
      /\ \A c \in Clients : c \in up \/ Late(c, Update(r, s), cs)
      /\ \A c \in Clients : c \in up => Newest(c, Update(r, s))
  BY <1>0, TellsClients DEF Stay, Tells, IInv
<1>2. \A c \in up : Keeping(c)
  BY TellsKeeping
<1>3. q.stage = "answered" /\ q.kind \in Loads => m.old \/ Keeping(q.who)
  <2>1. q.who \in Clients
    BY <1>1 DEF Call
  <2> QED BY <1>0, <1>1, <1>2, <2>1 DEF Late
<1>4. q.stage = "answered" /\ q.kind \in Decisions => m.old \/ (Borne(q) => Borne(q)')
  <2> SUFFICES ASSUME q.stage = "answered", q.kind \in Decisions, ~m.old, Borne(q)
               PROVE  Borne(q)'
    OBVIOUS
  <2>1. q.who = "admin" /\ "admin" \in Clients
    BY <1>1 DEF CallOK, Clients
  <2>2. PICK x \in Requests : q.about = {x}
    BY <1>1 DEF CallOK, Acts
  <2>3. "admin" \in up \/ ~Contradicts(Update(r, s), q)
    BY <1>0, <1>1, <2>1 DEF Late
  <2>4. \/ "admin" \in up
        \/ "admin" \notin up /\ mail'["admin"] = mail["admin"]
    BY <2>1, TellsClients
  <2>5. (\E a \in DOMAIN mail["admin"] : Contradicts(mail["admin"][a], q))
        => (\E a \in DOMAIN mail["admin"] : Contradicts(mail["admin"][a], q))'
    <3>1. Grows("admin")
      BY <1>1, <2>1, <2>4 DEF Newest, Grows
    <3> QED BY <3>1, Growing
  <2>6. CASE status'[x] = status[x]
    BY <2>2, <2>5, <2>6 DEF Borne
  <2>7. CASE status'[x] # status[x]
    <3>1. x = r /\ s = "cancelled"
      BY <2>2, <2>7 DEF Tells, Elsewhere
    <3>2. Contradicts(Update(r, s), q)
      BY <2>2, <3>1 DEF Contradicts, Update, Decisions
    <3>3. (\E a \in DOMAIN mail["admin"] : Contradicts(mail["admin"][a], q))'
      BY <1>1, <2>1, <2>3, <3>2, LastSays
    <3> QED BY <3>3 DEF Borne
  <2> QED BY <2>6, <2>7
<1> QED BY <1>1, <1>3, <1>4, BringsStill

\* A request is cancelled.
LEMMA CancelledCallOK ==
  ASSUME TypeOK, NEW r \in Requests, status[r] # Absent, r \notin DOMAIN deciding,
         status' = [status EXCEPT ![r] = "cancelled"], deciding' = deciding, NEW m, CallOK(m)
  PROVE  CallOK(m)'
<1>1. /\ status'[r] = "cancelled" /\ \A x \in Requests : x # r => status'[x] = status[x]
  BY DEF TypeOK
<1>2. "cancelled" # Absent
  BY DEF Absent
<1>3. \A x \in Requests : /\ status[x] # Absent => status'[x] # Absent
                          /\ status[x] = Absent => status'[x] = Absent
                          /\ status[x] = "cancelled" => status'[x] = "cancelled"
                          /\ status[x] \notin {Absent, "pending"} => status'[x] \notin {Absent, "pending"}
  BY <1>1, <1>2
<1> HIDE <1>1
<1> QED BY <1>3 DEF CallOK

LEMMA Saves ==
  ASSUME IInv, NEW i \in DOMAIN calls, CancelSaves(i)
  PROVE  IInv'
<1> DEFINE k == calls[i]
           cs == Answered(i)
           done == [k EXCEPT !.stage = "answered"]
<1>1. calls \in Seq(Call) /\ Alone /\ k \in Call /\ CallOK(k) /\ TypeOK
  BY Types DEF IInv, CallsOK
<1>2. k.stage = "checked" /\ Recount /\ UNCHANGED <<credited, deciding, page, desk, up, turns>>
  BY DEF CancelSaves
<1>3. PICK r \in k.about \ DOMAIN deciding :
        status' = [status EXCEPT ![r] = "cancelled"] /\ Emit(Both(r, "cancelled"), cs, {})
  BY DEF CancelSaves
<1>4. done.stage = "answered" /\ done.kind = k.kind /\ done.about = k.about /\ done.who = k.who
  BY <1>1 DEF Call
<1>5. cs \in Seq(Call) /\ DOMAIN cs = DOMAIN calls /\ cs[i] = done /\ \A j \in DOMAIN calls \ {i} : cs[j] = calls[j]
  BY <1>1, OneStage DEF Answered
<1> HIDE DEF k, done
<1>6. k.kind = "cancel" /\ r \in Requests /\ k.about = {r} /\ status[r] # Absent
  BY <1>1, <1>2, <1>3 DEF CallOK, Call, Loads, Acts
<1>7. /\ status' \in Rows /\ status'[r] = "cancelled" /\ \A x \in Requests : x # r => status'[x] = status[x]
  BY <1>1, <1>6, <1>3 DEF TypeOK, Rows, Statuses
<1>8. Tells(r, "cancelled", cs)
  <2> HIDE DEF cs
  <2>1. Elsewhere(r)
    BY <1>2, <1>7 DEF Elsewhere
  <2>2. Target(r)' = "cancelled" /\ ~Open(r)'
    BY <1>2, <1>3, <1>7 DEF Target, Open
  <2>3. DOMAIN deciding' \subseteq Requests /\ \A x \in DOMAIN deciding' : deciding'[x] \in Decisions
    BY <1>1, <1>2 DEF TypeOK
  <2>4. "cancelled" # Absent
    BY DEF Absent
  <2> QED BY <1>2, <1>3, <1>5, <1>6, <1>7, <2>1, <2>2, <2>3, <2>4 DEF Tells
<1>9. /\ Restaged(i, "answered") /\ Alone' /\ \A j \in DOMAIN calls \ {i} : Goes(j)
  <2>1. Stay(cs, calls')
    BY <1>8, TellsClients
  <2> QED BY <1>1, <2>1, Restaging DEF Answered
<1> HIDE DEF cs
<1>10. Keeps("balance") /\ Keeps("rows")
  <2>1. \A j \in DOMAIN calls : calls[j].kind \in {"balance", "rows"} => Goes(j)
    BY <1>6, <1>9 DEF k
  <2> QED BY <2>1, GoesKeeps
<1>11. TypeOK' /\ MailOK' /\ ListOK' /\ BalanceOK' /\ RowsOK' /\ CountOK' /\ BadgeOK'
  BY <1>8, <1>10, TellsMail, TellsViews
<1>12. CallsOK' /\ AllBring'
  <2> SUFFICES ASSUME NEW j \in DOMAIN calls'
               PROVE  \E m : m = calls'[j] /\ CallOK(m)' /\ Brings(m)'
    BY EachCall
  <2>1. PICK m : m = calls'[j]
    OBVIOUS
  <2>2. CASE j = i
    <3>1. Stays(done, m)
      BY <1>9, <2>1, <2>2 DEF Restaged, k, done
    <3>2. m.kind = "cancel" /\ m.stage = "answered" /\ m.about = {r} /\ m.who = k.who
      BY <1>4, <1>6, <3>1 DEF Stays
    <3>3. k.who = "user"
      BY <1>1, <1>6 DEF CallOK
    <3>4. CallOK(m)'
      BY <1>6, <1>7, <3>2, <3>3 DEF CallOK, Loads, Acts, Decisions
    <3>5. Brings(m)'
      BY <3>2 DEF Brings, Decisions
    <3> QED BY <2>1, <3>4, <3>5
  <2>3. CASE j # i
    <3>1. j \in DOMAIN calls /\ Stays(calls[j], m) /\ cs[j] = calls[j] /\ j \in DOMAIN cs
      BY <1>5, <1>9, <2>1, <2>3 DEF Restaged
    <3>2. CallOK(calls[j]) /\ Brings(calls[j])
      BY <3>1 DEF IInv, CallsOK, AllBring
    <3>3. CallOK(m)
      BY <3>1, <3>2, StaysOK
    <3>4. CallOK(m)'
      BY <1>1, <1>2, <1>3, <1>6, <3>3, CancelledCallOK
    <3>5. Brings(m)'
      BY <1>8, <2>1, <3>1, <3>2, TellsBrings
    <3> QED BY <2>1, <3>4, <3>5
  <2> QED BY <2>2, <2>3
<1>13. Deciding'
  <2> SUFFICES ASSUME NEW x \in DOMAIN deciding
               PROVE  /\ status'[x] = "pending" /\ \A c \in Clients : LastWord(c, x, deciding[x])'
                      /\ \E j \in DOMAIN calls' : calls'[j].kind \in Decisions /\ calls'[j].about = {x}
    BY <1>2 DEF Deciding
  <2>1. PICK j \in DOMAIN calls : calls[j].kind \in Decisions /\ calls[j].about = {x}
    BY DEF IInv, Deciding
  <2>2. j # i
    BY <1>6, <2>1 DEF Decisions, k
  <2>3. \E m \in DOMAIN calls' : calls'[m].kind \in Decisions /\ calls'[m].about = {x}
    BY <1>9, <2>1, <2>2 DEF Goes, Stays
  <2>4. x \in Requests /\ x # r /\ status[x] = "pending"
    BY <1>1, <1>3 DEF IInv, Deciding, TypeOK
  <2>5. \A c \in Clients : LastWord(c, x, deciding[x])'
    BY <1>8, <2>4, TellsMail
  <2> QED BY <1>7, <2>3, <2>4, <2>5
<1> QED BY <1>9, <1>11, <1>12, <1>13 DEF IInv

\* A decision is announced.
LEMMA AnnouncedCallOK ==
  ASSUME status' = status, NEW r \in Requests, NEW d \in Decisions,
         deciding' = [x \in DOMAIN deciding \cup {r} |-> IF x = r THEN d ELSE deciding[x]],
         NEW m, CallOK(m), m.kind \in Decisions /\ m.about = {r} => m.kind = d /\ m.stage = "sent"
  PROVE  CallOK(m)'
<1>1. ASSUME m.kind \in Acts
      PROVE  \E x \in Requests :
               /\ m.about = {x}
               /\ m.kind = "create" => m.stage # "checked" /\ (m.stage = "sent" => status[x] = Absent)
               /\ m.kind = "cancel" => /\ m.stage = "checked" => status[x] # Absent
                                       /\ m.stage = "answered" => status[x] = "cancelled"
               /\ m.kind \in Decisions => /\ m.stage # "checked"
                                          /\ m.stage = "answered" => status[x] \notin {Absent, "pending"}
                                          /\ x \in DOMAIN deciding' => m.kind = deciding'[x] /\ m.stage = "sent"
  <2>1. PICK x \in Requests :
               /\ m.about = {x}
               /\ m.kind = "create" => m.stage # "checked" /\ (m.stage = "sent" => status[x] = Absent)
               /\ m.kind = "cancel" => /\ m.stage = "checked" => status[x] # Absent
                                       /\ m.stage = "answered" => status[x] = "cancelled"
               /\ m.kind \in Decisions => /\ m.stage # "checked"
                                          /\ m.stage = "answered" => status[x] \notin {Absent, "pending"}
                                          /\ x \in DOMAIN deciding => m.kind = deciding[x] /\ m.stage = "sent"
    BY <1>1 DEF CallOK
  <2>2. m.kind \in Decisions /\ x \in DOMAIN deciding' => m.kind = deciding'[x] /\ m.stage = "sent"
    <3>1. CASE x = r
      BY <2>1, <3>1
    <3>2. CASE x # r
      BY <2>1, <3>2
    <3> QED BY <3>1, <3>2
  <2> QED BY <2>1, <2>2
<1> QED BY <1>1 DEF CallOK

LEMMA Notifies ==
  ASSUME IInv, NEW i \in DOMAIN calls, Notify(i)
  PROVE  IInv'
<1> DEFINE k == calls[i]
<1>1. calls \in Seq(Call) /\ Alone /\ k \in Call /\ CallOK(k) /\ TypeOK
  BY Types DEF IInv, CallsOK
<1>2. k.kind \in Decisions /\ k.stage = "sent" /\ Recount /\ UNCHANGED <<status, credited, page, desk, up, turns>>
  BY DEF Notify
<1>3. PICK r \in (k.about \cap Pending) \ DOMAIN deciding :
        /\ deciding' = [x \in DOMAIN deciding \cup {r} |-> IF x = r THEN k.kind ELSE deciding[x]]
        /\ Emit(Both(r, k.kind), calls, {})
  BY DEF Notify
<1> HIDE DEF k
<1>4. r \in Requests /\ k.about = {r} /\ status[r] = "pending" /\ r \notin DOMAIN deciding
  BY <1>1, <1>2, <1>3 DEF CallOK, Acts, Pending
<1>5. /\ DOMAIN deciding' = DOMAIN deciding \cup {r} /\ deciding'[r] = k.kind
      /\ \A x \in DOMAIN deciding : x # r /\ deciding'[x] = deciding[x]
  BY <1>3, <1>4
<1>6. Tells(r, k.kind, calls)
  <2>1. Elsewhere(r)
    BY <1>2, <1>5 DEF Elsewhere
  <2>2. Target(r)' = k.kind /\ ~Open(r)'
    BY <1>5 DEF Target, Open
  <2>3. DOMAIN deciding' \subseteq Requests /\ \A x \in DOMAIN deciding' : deciding'[x] \in Decisions
    BY <1>1, <1>2, <1>4, <1>5 DEF TypeOK
  <2>4. status[r] # Absent /\ status' \in Rows
    BY <1>1, <1>2, <1>4 DEF TypeOK, Rows, Absent
  <2>5. k.kind \in {"approved", "rejected"}
    BY <1>2 DEF Decisions
  <2> QED BY <1>1, <1>2, <1>3, <1>4, <1>5, <2>1, <2>2, <2>3, <2>4, <2>5 DEF Tells
<1>7. Stay(calls, calls')
  BY <1>6, TellsClients
<1>8. Alone' /\ DOMAIN calls' = DOMAIN calls /\ \A j \in DOMAIN calls : Goes(j)
  BY <1>1, <1>7, AllStay DEF Stay
<1>9. TypeOK' /\ MailOK' /\ ListOK' /\ BalanceOK' /\ RowsOK' /\ CountOK' /\ BadgeOK'
  BY <1>6, <1>8, GoesKeeps, TellsMail, TellsViews
<1>10. CallsOK' /\ AllBring'
  <2> SUFFICES ASSUME NEW j \in DOMAIN calls'
               PROVE  \E m : m = calls'[j] /\ CallOK(m)' /\ Brings(m)'
    BY EachCall
  <2>1. PICK m : m = calls'[j]
    OBVIOUS
  <2>2. j \in DOMAIN calls /\ Stays(calls[j], m) /\ CallOK(calls[j]) /\ Brings(calls[j])
    BY <1>7, <1>8, <2>1 DEF Stay, IInv, CallsOK, AllBring
  <2>3. CallOK(m)
    BY <2>2, StaysOK
  <2>4. m.kind \in Decisions /\ m.about = {r} => m.kind = k.kind /\ m.stage = "sent"
    <3> SUFFICES ASSUME m.kind \in Decisions, m.about = {r}
                 PROVE  m.kind = k.kind /\ m.stage = "sent"
      OBVIOUS
    <3>1. j = i
      BY <1>1, <1>2, <1>4, <2>2 DEF Alone, Alike, Stays, k
    <3> QED BY <1>2, <2>2, <3>1 DEF Stays, k
  <2>5. CallOK(m)'
    BY <1>2, <1>3, <1>4, <2>3, <2>4, AnnouncedCallOK
  <2>6. Brings(m)'
    BY <1>6, <2>1, <2>2, TellsBrings
  <2> QED BY <2>1, <2>5, <2>6
<1>11. Deciding'
  <2> SUFFICES ASSUME NEW x \in DOMAIN deciding'
               PROVE  /\ status'[x] = "pending" /\ \A c \in Clients : LastWord(c, x, deciding[x])'
                      /\ \E j \in DOMAIN calls' : calls'[j].kind \in Decisions /\ calls'[j].about = {x}
    BY DEF Deciding
  <2>1. CASE x = r
    <3>1. PICK d : d = k.kind
      OBVIOUS
    <3>2. \A c \in Clients : LastWord(c, r, d)'
      BY <1>6, <3>1, TellsKeeping
    <3>3. deciding'[x] = d
      BY <1>5, <2>1, <3>1
    <3>4. \A c \in Clients : LastWord(c, x, deciding[x])'
      BY <2>1, <3>2, <3>3
    <3>5. \E j \in DOMAIN calls' : calls'[j].kind \in Decisions /\ calls'[j].about = {x}
      BY <1>2, <1>4, <1>8, <2>1 DEF Goes, Stays, k
    <3>6. status'[x] = "pending"
      BY <1>2, <1>4, <2>1
    <3> QED BY <3>4, <3>5, <3>6
  <2>2. CASE x \in DOMAIN deciding
    <3>1. PICK j \in DOMAIN calls : calls[j].kind \in Decisions /\ calls[j].about = {x}
      BY <2>2 DEF IInv, Deciding
    <3>2. \E m \in DOMAIN calls' : calls'[m].kind \in Decisions /\ calls'[m].about = {x}
      BY <1>8, <3>1 DEF Goes, Stays
    <3>3. \A c \in Clients : LastWord(c, x, deciding[x])'
      BY <1>5, <1>6, <2>2, TellsMail
    <3>4. status'[x] = "pending"
      BY <1>2, <2>2 DEF IInv, Deciding
    <3> QED BY <3>2, <3>3, <3>4
  <2> QED BY <1>5, <2>1, <2>2
<1> QED BY <1>8, <1>9, <1>10, <1>11 DEF IInv
-----------------------------------------------------------------------------
(* A decision is committed, or rolled back.                                *)
LEMMA FewerPending ==
  ASSUME TypeOK, Pending' \subseteq Pending, counting' = counting, mail' = mail
  PROVE  /\ \A n \in Nat : Enough(n) => Enough(n)'
         /\ KeepsNumber
         /\ CountOK => CountOK'
         /\ BadgeOK /\ desk'.badge = desk.badge /\ misled \subseteq misled' => BadgeOK'
<1>1. ASSUME NEW n \in Nat, Enough(n)
      PROVE  Enough(n)'
  <2>1. Pending \subseteq Requests
    BY DEF Pending
  <2>2. IsFiniteSet(Pending)
    BY <2>1, FS_Subset, WalletDeskAssumption
  <2>3. PICK P : P = Pending'
    OBVIOUS
  <2>4. Cardinality(P) \in Nat /\ Cardinality(Pending) \in Nat /\ Cardinality(P) <= Cardinality(Pending)
    BY <2>2, <2>3, FS_Subset, FS_CardinalityType
  <2> QED BY <1>1, <2>3, <2>4 DEF Enough
<1>2. \A i \in DOMAIN counting : counting[i].n \in Nat
  <2> DEFINE S == [read : BOOLEAN, n : 0..Cardinality(Requests), old : BOOLEAN]
  <2>0. counting \in Seq(S) /\ \A e \in S : e.n \in 0..Cardinality(Requests)
    BY DEF TypeOK
  <2> HIDE DEF S
  <2>1. \A i \in DOMAIN counting : counting[i].n \in 0..Cardinality(Requests)
    BY <2>0
  <2>2. Cardinality(Requests) \in Nat
    BY Types
  <2> QED BY <2>1, <2>2
<1>3. ASSUME NEW i \in DOMAIN counting, Good(counting[i])
      PROVE  Good(counting[i])'
  <2>1. PICK e : e = counting[i]
    OBVIOUS
  <2>2. e.read /\ ~e.old /\ Enough(e.n) /\ e.n \in Nat
    BY <1>2, <1>3, <2>1 DEF Good
  <2>3. Good(e)'
    BY <1>1, <2>2 DEF Good
  <2>4. counting'[i] = e
    BY <2>1
  <2> QED BY <2>3, <2>4
<1>4. Recounts => Recounts'
  BY <1>3 DEF Recounts
<1>5. \A i \in DOMAIN mail["admin"] : Number(i)' = Number(i) /\ (Number(i) => mail["admin"][i].n \in Nat)
  <2>1. \A i \in DOMAIN mail["admin"] : mail["admin"][i] \in Event
    BY DEF TypeOK, Clients
  <2> QED BY <2>1 DEF Number, Event
<1>6. KeepsNumber
  BY <1>1, <1>4, <1>5 DEF KeepsNumber, Numbered
<1>7. ASSUME CountOK
      PROVE  CountOK'
  <2> SUFFICES ASSUME NEW i \in DOMAIN counting, counting[i].read, ~counting[i].old
               PROVE  \/ Enough(counting[i].n)'
                      \/ \E j \in DOMAIN counting' : ~counting'[j].read \/ (j > i /\ Good(counting[j])')
    BY DEF CountOK
  <2>1. \/ Enough(counting[i].n)
        \/ \E j \in DOMAIN counting : ~counting[j].read \/ (j > i /\ Good(counting[j]))
    BY <1>7 DEF CountOK
  <2>2. Enough(counting[i].n) => Enough(counting[i].n)'
    <3>1. PICK n \in Nat : n = counting[i].n
      BY <1>2
    <3>2. Enough(n) => Enough(n)'
      BY <1>1
    <3> QED BY <3>1, <3>2
  <2>3. \A j \in DOMAIN counting : Good(counting[j]) => Good(counting[j])'
    BY <1>3
  <2> QED BY <2>1, <2>2, <2>3
<1>8. ASSUME BadgeOK, desk'.badge = desk.badge, misled \subseteq misled'
      PROVE  BadgeOK'
  <2> SUFFICES ASSUME "badge" \notin misled, ~Recounts
               PROVE  \/ \E i \in DOMAIN mail'["admin"] :
                           /\ Number(i)' /\ Enough(mail["admin"][i].n)'
                           /\ \A j \in DOMAIN mail'["admin"] : Number(j)' => j <= i
                      \/ (\A i \in DOMAIN mail'["admin"] : ~Number(i)') /\ Enough(desk.badge)'
    BY <1>4, <1>8 DEF BadgeOK
  <2>1. CASE \E i \in DOMAIN mail["admin"] :
               /\ Number(i) /\ Enough(mail["admin"][i].n)
               /\ \A j \in DOMAIN mail["admin"] : Number(j) => j <= i
    <3>1. PICK i \in DOMAIN mail["admin"] :
               /\ Number(i) /\ Enough(mail["admin"][i].n)
               /\ \A j \in DOMAIN mail["admin"] : Number(j) => j <= i
      BY <2>1
    <3>2. PICK n \in Nat : n = mail["admin"][i].n
      BY <1>5, <3>1
    <3>3. Enough(n)'
      BY <1>1, <3>1, <3>2
    <3>4. Enough(mail["admin"][i].n)'
      BY <3>2, <3>3
    <3> QED BY <1>5, <3>1, <3>4
  <2>2. CASE (\A i \in DOMAIN mail["admin"] : ~Number(i)) /\ Enough(desk.badge)
    <3>1. PICK n \in Nat : n = desk.badge
      BY DEF TypeOK
    <3>2. Enough(n)'
      BY <1>1, <2>2, <3>1
    <3>3. Enough(desk.badge)'
      BY <1>8, <3>1, <3>2
    <3> QED BY <1>5, <2>2, <3>3
  <2> QED BY <1>8, <2>1, <2>2 DEF BadgeOK
<1> QED BY <1>1, <1>6, <1>7, <1>8

\* The call of a decision under way.
LEMMA OfDeciding ==
  ASSUME IInv, NEW r \in DOMAIN deciding, NEW j \in DOMAIN calls, calls[j].kind \in Decisions, r \in calls[j].about
  PROVE  calls[j].about = {r} /\ calls[j].kind = deciding[r] /\ calls[j].stage = "sent"
BY DEF IInv, CallsOK, CallOK, Acts

\* It ends at some stage.
LEMMA Ends ==
  ASSUME IInv, NEW r \in DOMAIN deciding, NEW stage \in {"answered", "failed"},
         NEW cs, cs = Settled(r, stage), Stay(cs, calls'), deciding' = Undecided(r),
         mail' = mail, \A x \in Requests : x # r => status'[x] = status[x], up' = up
  PROVE  /\ r \in Requests /\ calls' \in Seq(Call) /\ Alone' /\ DOMAIN calls' = DOMAIN calls
         /\ DOMAIN deciding' = DOMAIN deciding \ {r} /\ \A x \in DOMAIN deciding' : deciding'[x] = deciding[x]
         /\ Keeps("balance") /\ Keeps("rows") /\ Deciding'
         /\ \A j \in DOMAIN calls : LET q == calls[j] IN
              \/ Stays(q, calls'[j]) /\ ~(q.kind \in Decisions /\ r \in q.about)
              \/ /\ Stays([q EXCEPT !.stage = stage], calls'[j]) /\ q.kind \in Decisions /\ q.about = {r}
                 /\ q.kind = deciding[r]
<1>1. calls \in Seq(Call) /\ Alone /\ r \in Requests
  BY Types DEF IInv, TypeOK
<1>2. /\ calls' \in Seq(Call) /\ Alone' /\ DOMAIN calls' = DOMAIN calls
      /\ \A i \in DOMAIN calls :
           IF calls[i].kind \in Decisions /\ r \in calls[i].about
           THEN Stays([calls[i] EXCEPT !.stage = stage], calls'[i])
           ELSE Stays(calls[i], calls'[i])
  BY <1>1, Settling
<1>3. DOMAIN deciding' = DOMAIN deciding \ {r} /\ \A x \in DOMAIN deciding' : deciding'[x] = deciding[x]
  BY DEF Undecided
<1>4. ASSUME NEW j \in DOMAIN calls
      PROVE  LET q == calls[j] IN
              \/ Stays(q, calls'[j]) /\ ~(q.kind \in Decisions /\ r \in q.about)
              \/ /\ Stays([q EXCEPT !.stage = stage], calls'[j]) /\ q.kind \in Decisions /\ q.about = {r}
                 /\ q.kind = deciding[r]
  <2>1. CASE calls[j].kind \in Decisions /\ r \in calls[j].about
    BY <1>2, <2>1, OfDeciding
  <2>2. CASE ~(calls[j].kind \in Decisions /\ r \in calls[j].about)
    BY <1>2, <2>2
  <2> QED BY <2>1, <2>2
<1>5. Keeps("balance") /\ Keeps("rows")
  <2>1. \A j \in DOMAIN calls : calls[j].kind \in {"balance", "rows"} => Goes(j)
    BY <1>2 DEF Goes, Decisions
  <2> QED BY <2>1, GoesKeeps
<1>6. Deciding'
  <2> SUFFICES ASSUME NEW x \in DOMAIN deciding'
               PROVE  /\ status'[x] = "pending" /\ \A c \in Clients : LastWord(c, x, deciding[x])'
                      /\ \E j \in DOMAIN calls' : calls'[j].kind \in Decisions /\ calls'[j].about = {x}
    BY DEF Deciding
  <2>1. x \in DOMAIN deciding /\ x # r /\ deciding'[x] = deciding[x] /\ x \in Requests
    BY <1>3 DEF IInv, TypeOK
  <2>2. PICK j \in DOMAIN calls : calls[j].kind \in Decisions /\ calls[j].about = {x}
    BY <2>1 DEF IInv, Deciding
  <2>3. Stays(calls[j], calls'[j])
    BY <1>2, <2>1, <2>2
  <2>4. \E m \in DOMAIN calls' : calls'[m].kind \in Decisions /\ calls'[m].about = {x}
    BY <1>2, <2>2, <2>3 DEF Stays
  <2>5. status'[x] = "pending"
    BY <2>1 DEF IInv, Deciding
  <2>6. \A c \in Clients : LastWord(c, x, deciding[x])'
    <3>1. \A c \in Clients : LastWord(c, x, deciding[x])
      BY <2>1 DEF IInv, Deciding
    <3> QED BY <2>1, <3>1 DEF LastWord
  <2> QED BY <2>4, <2>5, <2>6
<1> QED BY <1>1, <1>2, <1>3, <1>4, <1>5, <1>6

LEMMA CommittedCallOK ==
  ASSUME IInv, NEW r \in DOMAIN deciding, r \in Requests, status' = [status EXCEPT ![r] = deciding[r]],
         DOMAIN deciding' = DOMAIN deciding \ {r}, \A x \in DOMAIN deciding' : deciding'[x] = deciding[x],
         NEW m, CallOK(m), ~(m.kind \in Decisions /\ m.about = {r})
  PROVE  CallOK(m)'
<1>1. /\ status'[r] = deciding[r] /\ \A x \in Requests : x # r => status'[x] = status[x]
  BY DEF IInv, TypeOK
<1>2. status[r] = "pending" /\ deciding[r] \in {"approved", "rejected"}
  BY DEF IInv, Deciding, TypeOK, Decisions
<1>3. \A x \in Requests : /\ status[x] # Absent => status'[x] # Absent
                          /\ status[x] = Absent => status'[x] = Absent
                          /\ status[x] = "cancelled" => status'[x] = "cancelled"
                          /\ status[x] \notin {Absent, "pending"} => status'[x] \notin {Absent, "pending"}
  BY <1>1, <1>2 DEF Absent
<1> QED BY <1>3 DEF CallOK

LEMMA Commits ==
  ASSUME IInv, NEW r \in DOMAIN deciding, Commit(r)
  PROVE  IInv'
<1>1. /\ status' = [status EXCEPT ![r] = deciding[r]]
      /\ credited' = credited \cup { x \in {r} : deciding[r] = "approved" }
      /\ deciding' = Undecided(r)
      /\ calls' = Settled(r, "answered")
      /\ UNCHANGED <<counting, page, desk, up, mail, turns, misled>>
  BY DEF Commit
<1>2. TypeOK /\ calls \in Seq(Call) /\ r \in Requests /\ deciding[r] \in Decisions /\ status[r] = "pending" /\ Alone
  BY Types DEF IInv, TypeOK, Deciding
<1>3. /\ status' \in Rows /\ status'[r] = deciding[r] /\ \A x \in Requests : x # r => status'[x] = status[x]
  BY <1>1, <1>2 DEF TypeOK, Rows, Decisions, Statuses
<1>4. Stay(Settled(r, "answered"), calls')
  <2>1. PICK cs : cs = Settled(r, "answered")
    OBVIOUS
  <2>2. cs \in Seq(Call)
    BY <1>2, <2>1, SettledType
  <2> QED BY <1>1, <2>1, <2>2, StayItself
<1>5. /\ calls' \in Seq(Call) /\ Alone' /\ DOMAIN calls' = DOMAIN calls
      /\ DOMAIN deciding' = DOMAIN deciding \ {r} /\ \A x \in DOMAIN deciding' : deciding'[x] = deciding[x]
      /\ Keeps("balance") /\ Keeps("rows") /\ Deciding'
      /\ \A j \in DOMAIN calls : LET q == calls[j] IN
           \/ Stays(q, calls'[j]) /\ ~(q.kind \in Decisions /\ r \in q.about)
           \/ /\ Stays([q EXCEPT !.stage = "answered"], calls'[j]) /\ q.kind \in Decisions /\ q.about = {r}
              /\ q.kind = deciding[r]
  BY <1>1, <1>3, <1>4, Ends
<1>6. \A x \in Requests : Target(x)' = Target(x) /\ Open(x)' = Open(x)
  <2> TAKE x \in Requests
  <2>1. CASE x = r
    BY <1>2, <1>3, <1>5, <2>1 DEF Target, Open, Decisions
  <2>2. CASE x # r
    BY <1>3, <1>5, <2>2 DEF Target, Open
  <2> QED BY <2>1, <2>2
<1>7. /\ \A n \in Nat : Enough(n) => Enough(n)'
      /\ KeepsNumber /\ CountOK' /\ BadgeOK'
  <2>1. Pending' \subseteq Pending
    BY <1>2, <1>3 DEF Pending
  <2> QED BY <1>1, <1>2, <2>1, FewerPending DEF IInv
<1>8. \A c \in Clients : Keeping(c)
  <2>1. \A c \in Clients : KeepsRight(c)
    BY <1>1, <1>6 DEF KeepsRight, Right, Told
  <2>2. KeepsCounts
    <3>1. \A B : Counts(B) => Counts(B)'
      BY <1>1, <1>5 DEF Counts
    <3> QED BY <1>1, <3>1 DEF KeepsCounts, Approval
  <2>3. KeepsCovers
    BY <1>1, <1>6 DEF KeepsCovers, News, Covers
  <2> QED BY <1>7, <2>1, <2>2, <2>3 DEF Keeping
<1>9. \A c \in Clients, x \in Requests : LastWord(c, x, Target(x)) => LastWord(c, x, Target(x))'
  BY <1>1, <1>6 DEF LastWord
<1>10. ListOK' /\ BalanceOK' /\ RowsOK'
  <2>1. "user" \in Clients /\ "admin" \in Clients
    BY DEF Clients
  <2>2. ListOK'
    BY <1>1, <1>2, <1>8, <1>9, <2>1, ListKept DEF IInv, ListOK, Keeping
  <2>3. BalanceOK'
    BY <1>1, <1>2, <1>5, <1>8, <2>1, BalanceKept DEF IInv, Keeping
  <2>4. "rows" \notin misled =>
          \A x \in Requests : LastWord("admin", x, Target(x))' /\ (Told("admin", x)' => ~Open(x)')
    BY <1>1, <1>6, <1>9, <2>1 DEF IInv, RowsOK, Told
  <2>5. RowsOK'
    BY <1>1, <1>2, <1>5, <1>8, <2>1, <2>4, RowsKept DEF IInv, Keeping
  <2> QED BY <2>2, <2>3, <2>5
<1>11. MailOK'
  <2>1. \A x \in Requests : status[x] # Absent => status'[x] # Absent
    BY <1>2, <1>3 DEF Absent, Decisions
  <2>2. \A c \in Clients : \A i \in DOMAIN mail[c] : mail[c][i].kind = "updated" => mail[c][i].r \in Requests
    <3>1. \A c \in Clients : \A i \in DOMAIN mail[c] : mail[c][i] \in Event
      BY <1>2 DEF TypeOK
    <3> QED BY <3>1 DEF Event
  <2> QED BY <1>1, <2>1, <2>2 DEF IInv, MailOK
<1>12. TypeOK'
  BY <1>1, <1>2, <1>3, <1>5 DEF TypeOK, Rows
<1>13. CallsOK' /\ AllBring'
  <2> SUFFICES ASSUME NEW j \in DOMAIN calls'
               PROVE  \E m : m = calls'[j] /\ CallOK(m)' /\ Brings(m)'
    BY EachCall
  <2>1. PICK m, q, d : m = calls'[j] /\ q = calls[j] /\ d = deciding[r]
    OBVIOUS
  <2>2. q \in Call /\ CallOK(q) /\ Brings(q)
    BY <1>2, <1>5, <2>1 DEF IInv, CallsOK, AllBring
  <2>3. \/ Stays(q, m) /\ ~(q.kind \in Decisions /\ r \in q.about)
        \/ Stays([q EXCEPT !.stage = "answered"], m) /\ q.kind \in Decisions /\ q.about = {r} /\ q.kind = d
    BY <1>5, <2>1
  <2>4. CASE Stays(q, m) /\ ~(q.kind \in Decisions /\ r \in q.about)
    <3>1. CallOK(m) /\ ~(m.kind \in Decisions /\ m.about = {r})
      BY <2>2, <2>4, StaysOK DEF Stays
    <3>2. CallOK(m)'
      BY <1>1, <1>2, <1>5, <3>1, CommittedCallOK
    <3>3. q.kind \in Decisions => (Borne(q) => Borne(q)')
      <4> SUFFICES ASSUME q.kind \in Decisions, Borne(q)
                   PROVE  Borne(q)'
        OBVIOUS
      <4>1. q.about \subseteq Requests /\ r \notin q.about
        BY <2>2, <2>4 DEF Call
      <4> QED BY <1>1, <1>3, <4>1 DEF Borne, Contradicts
    <3>4. q.who \in Clients
      BY <2>2 DEF Call
    <3>5. Brings(m)'
      BY <1>2, <1>8, <2>2, <2>4, <3>3, <3>4, BringsStill
    <3> QED BY <2>1, <3>2, <3>5
  <2>5. CASE Stays([q EXCEPT !.stage = "answered"], m) /\ q.kind \in Decisions /\ q.about = {r} /\ q.kind = d
    <3>1. m.stage = "answered" /\ m.kind = d /\ m.about = {r} /\ m.who = q.who /\ d \in Decisions
      BY <1>2, <2>1, <2>2, <2>5 DEF Stays, Call
    <3>2. q.who = "admin" /\ status'[r] = d /\ r \notin DOMAIN deciding'
      BY <1>3, <1>5, <2>1, <2>2, <2>5 DEF CallOK
    <3>3. CallOK(m)'
      BY <1>2, <3>1, <3>2 DEF CallOK, Loads, Acts, Decisions, Absent
    <3>4. Brings(m)'
      BY <3>1, <3>2 DEF Brings, Decisions
    <3> QED BY <2>1, <3>3, <3>4
  <2> QED BY <2>3, <2>4, <2>5
<1> QED BY <1>5, <1>7, <1>10, <1>11, <1>12, <1>13 DEF IInv

LEMMA RollsBack ==
  ASSUME IInv, NEW r \in DOMAIN deciding, Rollback(r)
  PROVE  IInv'
<1>1. /\ Turn /\ deciding' = Undecided(r)
      /\ calls' = Passed(Settled(r, "failed"), Clients)
      /\ misled' = misled \cup {"list", "rows"}
      /\ UNCHANGED <<status, credited, counting, page, desk, up, mail>>
  BY DEF Rollback
<1>2. TypeOK /\ calls \in Seq(Call)
  BY Types DEF IInv
<1>3. PICK cs : cs = Settled(r, "failed")
  OBVIOUS
<1>4. /\ Stay(cs, calls')
      /\ \A i \in DOMAIN cs : cs[i].who \in Clients /\ cs[i].stage = "answered" /\ cs[i].kind \in Loads => calls'[i].old
  <2>1. cs \in Seq(Call)
    BY <1>2, <1>3, SettledType
  <2> QED BY <1>1, <1>3, <2>1, AreOvertaken DEF Passed
<1>5. /\ calls' \in Seq(Call) /\ Alone' /\ DOMAIN calls' = DOMAIN calls
      /\ DOMAIN deciding' = DOMAIN deciding \ {r} /\ \A x \in DOMAIN deciding' : deciding'[x] = deciding[x]
      /\ Keeps("balance") /\ Keeps("rows") /\ Deciding'
      /\ \A j \in DOMAIN calls : LET q == calls[j] IN
           \/ Stays(q, calls'[j]) /\ ~(q.kind \in Decisions /\ r \in q.about)
           \/ /\ Stays([q EXCEPT !.stage = "failed"], calls'[j]) /\ q.kind \in Decisions /\ q.about = {r}
              /\ q.kind = deciding[r]
  BY <1>1, <1>3, <1>4, Ends
<1>6. CountOK' /\ BadgeOK'
  <2>1. Pending' \subseteq Pending
    BY <1>1 DEF Pending
  <2> QED BY <1>1, <1>2, <2>1, FewerPending DEF IInv
<1>7. BalanceOK'
  <2>1. KeepsCounts
    <3>1. \A B : Counts(B) => Counts(B)'
      BY <1>1, <1>5 DEF Counts
    <3> QED BY <1>1, <3>1 DEF KeepsCounts, Approval
  <2> QED BY <1>1, <1>2, <1>5, <2>1, BalanceKept DEF IInv
<1>8. ListOK' /\ RowsOK'
  BY <1>1 DEF ListOK, RowsOK
<1>9. MailOK'
  BY <1>1 DEF IInv, MailOK
<1>10. TypeOK'
  <2>1. turns' \in 0..MaxTurns
    BY <1>1, <1>2, Turns
  <2> QED BY <1>1, <1>2, <1>5, <2>1 DEF TypeOK, Loads
<1>11. CallsOK' /\ AllBring'
  <2> SUFFICES ASSUME NEW j \in DOMAIN calls'
               PROVE  \E m : m = calls'[j] /\ CallOK(m)' /\ Brings(m)'
    BY EachCall
  <2>1. PICK m, q : m = calls'[j] /\ q = calls[j]
    OBVIOUS
  <2>2. q \in Call /\ CallOK(q) /\ Brings(q)
    BY <1>2, <1>5, <2>1 DEF IInv, CallsOK, AllBring
  <2>3. \/ Stays(q, m) /\ ~(q.kind \in Decisions /\ r \in q.about)
        \/ Stays([q EXCEPT !.stage = "failed"], m) /\ q.kind \in Decisions /\ q.about = {r}
    BY <1>5, <2>1
  <2>4. ASSUME NEW k, CallOK(k)
        PROVE  CallOK(k)'
    BY <1>1, <1>5, <2>4 DEF CallOK
  <2>5. CASE Stays(q, m) /\ ~(q.kind \in Decisions /\ r \in q.about)
    <3>1. CallOK(m)'
      BY <2>2, <2>4, <2>5, StaysOK
    <3>2. Borne(q) => Borne(q)'
      BY <1>1 DEF Borne, Contradicts
    <3>3. q.stage = "answered" /\ q.kind \in Loads => m.old
      <4>0. j \in DOMAIN calls /\ DOMAIN cs = DOMAIN calls
            /\ cs[j] = IF calls[j].kind \in Decisions /\ r \in calls[j].about
                       THEN [calls[j] EXCEPT !.stage = "failed"] ELSE calls[j]
        BY <1>2, <1>3, <1>5 DEF Settled
      <4>1. cs[j] = q /\ j \in DOMAIN cs
        BY <2>1, <2>5, <4>0
      <4>2. q.who \in Clients
        BY <2>2 DEF Call
      <4> QED BY <1>4, <2>1, <4>1, <4>2
    <3>4. Brings(m)'
      BY <1>2, <2>2, <2>5, <3>2, <3>3, BringsStill
    <3> QED BY <2>1, <3>1, <3>4
  <2>6. CASE Stays([q EXCEPT !.stage = "failed"], m) /\ q.kind \in Decisions /\ q.about = {r}
    <3>1. m.stage = "failed" /\ m.kind = q.kind /\ m.about = {r} /\ m.who = q.who /\ q.who = "admin" /\ r \in Requests
      BY <2>2, <2>6 DEF Stays, Call, CallOK
    <3>2. r \notin DOMAIN deciding'
      BY <1>5
    <3>3. CallOK(m)'
      BY <2>6, <3>1, <3>2 DEF CallOK, Loads, Acts, Decisions
    <3>4. Brings(m)'
      BY <3>1 DEF Brings
    <3> QED BY <2>1, <3>3, <3>4
  <2> QED BY <2>3, <2>5, <2>6
<1> QED BY <1>5, <1>6, <1>7, <1>8, <1>9, <1>10, <1>11 DEF IInv

-----------------------------------------------------------------------------
(* Steps that leave the tables alone.                                      *)
Tables == <<status, credited, deciding>>

LEMMA TablesSame ==
  ASSUME UNCHANGED Tables
  PROVE  /\ \A x : Target(x)' = Target(x) /\ Open(x)' = Open(x)
         /\ Pending' = Pending /\ \A n : Enough(n)' = Enough(n)
         /\ \A B : Counts(B)' = Counts(B)
         /\ \A R : Covers(R)' = Covers(R)
BY DEF Tables, Target, Open, Pending, Enough, Counts, Covers

\* What a client shows stays right while it loses no event.
LEMMA GrowsKeeps ==
  ASSUME UNCHANGED Tables, NEW c, Grows(c)
  PROVE  /\ KeepsRight(c)
         /\ c = "user" => KeepsCounts
         /\ c = "admin" => KeepsCovers
<1>1. KeepsRight(c)
  BY Growing, TablesSame DEF KeepsRight, Right
<1>2. c = "user" => KeepsCounts
  BY Growing, TablesSame DEF KeepsCounts
<1>3. c = "admin" => KeepsCovers
  BY Growing, TablesSame DEF KeepsCovers
<1> QED BY <1>1, <1>2, <1>3

\* It stays right while its mail stands.
LEMMA UserKeeps ==
  ASSUME UNCHANGED Tables, mail'["user"] = mail["user"]
  PROVE  Keeping("user")
<1>1. Grows("user")
  BY DEF Grows
<1> QED BY <1>1, GrowsKeeps DEF Keeping

LEMMA AdminKeeps ==
  ASSUME UNCHANGED Tables, counting' = counting, mail'["admin"] = mail["admin"]
  PROVE  Keeping("admin")
<1>1. Grows("admin")
  BY DEF Grows
<1>2. Recounts' = Recounts
  BY TablesSame DEF Recounts, Good
<1>3. (\E i \in DOMAIN mail["admin"] : Number(i))' = \E i \in DOMAIN mail["admin"] : Number(i)
  BY DEF Number
<1>4. KeepsNumber
  BY <1>2, <1>3, TablesSame DEF KeepsNumber, Numbered
<1> QED BY <1>1, <1>4, GrowsKeeps DEF Keeping

LEMMA UserStands ==
  ASSUME IInv, UNCHANGED Tables, mail'["user"] = mail["user"], page' = page, misled \subseteq misled', Keeps("balance")
  PROVE  ListOK' /\ BalanceOK'
<1>1. TypeOK /\ KeepsRight("user") /\ KeepsCounts
  BY UserKeeps DEF IInv, Keeping
<1>2. ListOK'
  <2>1. \A r \in Requests : LastWord("user", r, Target(r)) => LastWord("user", r, Target(r))'
    BY TablesSame DEF LastWord
  <2> QED BY <1>1, <2>1, ListKept DEF IInv, ListOK
<1>3. BalanceOK'
  BY <1>1, BalanceKept DEF IInv
<1> QED BY <1>2, <1>3

LEMMA AdminStands ==
  ASSUME IInv, UNCHANGED Tables, counting' = counting, mail'["admin"] = mail["admin"], desk' = desk,
         misled \subseteq misled', Keeps("rows")
  PROVE  RowsOK' /\ BadgeOK'
<1>1. TypeOK /\ KeepsRight("admin") /\ KeepsCovers
  BY AdminKeeps DEF IInv, Keeping
<1>2. RowsOK'
  <2>1. \A r \in Requests : /\ LastWord("admin", r, Target(r)) => LastWord("admin", r, Target(r))'
                            /\ Told("admin", r)' = Told("admin", r)
    BY TablesSame DEF LastWord, Told
  <2>2. "rows" \notin misled' =>
          /\ "rows" \notin misled
          /\ \A r \in Requests : LastWord("admin", r, Target(r))' /\ (Told("admin", r)' => ~Open(r)')
    BY <2>1, TablesSame DEF IInv, RowsOK
  <2> QED BY <1>1, <2>2, RowsKept DEF IInv
<1>3. BadgeOK'
  <2>1. Recounts' = Recounts
    BY TablesSame DEF Recounts, Good
  <2>2. \A i : Number(i)' = Number(i)
    BY DEF Number
  <2>3. Enough(desk.badge)' = Enough(desk.badge)
    BY DEF Enough, Pending, Tables
  <2> QED BY <2>1, <2>2, <2>3, TablesSame DEF IInv, BadgeOK
<1> QED BY <1>2, <1>3

\* The call q is still there as m: old, or as good as before.
LateOrKept(q, m) ==
  /\ Stays(q, m)
  /\ q.stage = "answered" /\ q.kind \in Loads => m.old \/ Keeping(q.who)
  /\ q.stage = "answered" /\ q.kind \in Decisions => m.old \/ (Borne(q) => Borne(q)')

\* Calls are as they should be when nothing is decided.
LEMMA TablesStand ==
  ASSUME IInv, UNCHANGED Tables,
         \A j \in DOMAIN calls' : \E m : m = calls'[j] /\
           \/ \E i \in DOMAIN calls : \E q : q = calls[i] /\ LateOrKept(q, m)
           \/ CallOK(m) /\ m.stage = "sent",
         \A i \in DOMAIN calls : calls[i].kind \in Decisions => Goes(i),
         \A c \in Clients, x \in Requests : \A t : LastWord(c, x, t) => LastWord(c, x, t)'
  PROVE  Deciding' /\ CallsOK' /\ AllBring'
<1>1. CallsOK' /\ AllBring'
  <2> SUFFICES ASSUME NEW j \in DOMAIN calls'
               PROVE  \E m : m = calls'[j] /\ CallOK(m)' /\ Brings(m)'
    BY EachCall
  <2>1. PICK m : m = calls'[j] /\
           \/ \E i \in DOMAIN calls : \E q : q = calls[i] /\ LateOrKept(q, m)
           \/ CallOK(m) /\ m.stage = "sent"
    OBVIOUS
  <2>2. UNCHANGED <<status, deciding>> /\ TypeOK
    BY DEF Tables, IInv
  <2>3. CASE \E i \in DOMAIN calls : \E q : q = calls[i] /\ LateOrKept(q, m)
    <3>0. PICK i \in DOMAIN calls : \E q : q = calls[i] /\ LateOrKept(q, m)
      BY <2>3
    <3>1. PICK q : q = calls[i] /\ LateOrKept(q, m)
      BY <3>0
    <3>2. q \in Call /\ CallOK(q) /\ Brings(q)
      BY <3>1, Types DEF IInv, CallsOK, AllBring
    <3>3. CallOK(m)'
      <4>1. CallOK(m)
        BY <3>1, <3>2, StaysOK DEF LateOrKept
      <4> QED BY <2>2, <4>1, WorldStands
    <3>4. Brings(m)'
      BY <2>2, <3>1, <3>2, BringsStill DEF LateOrKept
    <3> QED BY <2>1, <3>3, <3>4
  <2>4. CASE CallOK(m) /\ m.stage = "sent"
    <3>1. CallOK(m)'
      BY <2>2, <2>4, WorldStands
    <3>2. Brings(m)'
      BY <2>4 DEF Brings
    <3> QED BY <2>1, <3>1, <3>2
  <2> QED BY <2>1, <2>3, <2>4
<1>2. Deciding'
  <2> SUFFICES ASSUME NEW x \in DOMAIN deciding
               PROVE  /\ status[x] = "pending" /\ \A c \in Clients : LastWord(c, x, deciding[x])'
                      /\ \E j \in DOMAIN calls' : calls'[j].kind \in Decisions /\ calls'[j].about = {x}
    BY DEF Deciding, Tables
  <2>1. x \in Requests
    BY DEF IInv, TypeOK
  <2>2. PICK i \in DOMAIN calls : calls[i].kind \in Decisions /\ calls[i].about = {x}
    BY DEF IInv, Deciding
  <2>3. \E j \in DOMAIN calls' : calls'[j].kind \in Decisions /\ calls'[j].about = {x}
    BY <2>2 DEF Goes, Stays
  <2>4. PICK t : t = deciding[x]
    OBVIOUS
  <2>5. \A c \in Clients : LastWord(c, x, t)'
    BY <2>1, <2>4 DEF IInv, Deciding
  <2>6. \A c \in Clients : LastWord(c, x, deciding[x])'
    BY <2>4, <2>5 DEF Tables
  <2> QED BY <2>3, <2>6 DEF IInv, Deciding
<1> QED BY <1>1, <1>2

-----------------------------------------------------------------------------
(* The pending requests are counted.                                       *)
Query == [read : BOOLEAN, n : 0..Cardinality(Requests), old : BOOLEAN]

LEMMA Counted ==
  ASSUME IInv, UNCHANGED <<status, credited, deciding, page, desk, up, turns>>,
         counting' \in Seq(Query), misled \subseteq misled', misled' \subseteq Loads, Stay(calls, calls'),
         mail' \in [Clients -> Seq(Event)], mail'["user"] = mail["user"],
         mail'["admin"] = mail["admin"] \/ ("admin" \in up /\ \E e \in Event : e.kind = "count" /\ Newest("admin", e)),
         \/ KeepsNumber
         \/ \A j \in DOMAIN calls : calls[j].who = "admin" /\ calls[j].stage = "answered" /\ calls[j].kind \in Loads => calls'[j].old
  PROVE  TypeOK' /\ MailOK' /\ Alone' /\ Deciding' /\ CallsOK' /\ AllBring' /\ ListOK' /\ BalanceOK' /\ RowsOK'
<1>1. UNCHANGED Tables /\ TypeOK /\ Alone /\ calls \in Seq(Call) /\ Clients = {"user", "admin"}
  BY Types DEF Tables, IInv, Clients
<1>2. /\ calls' \in Seq(Call) /\ Alone' /\ \A i \in DOMAIN calls : Goes(i)
      /\ DOMAIN calls' = DOMAIN calls /\ \A j \in DOMAIN calls : Stays(calls[j], calls'[j])
  BY <1>1, AllStay DEF Stay
<1>3. Grows("user") /\ Grows("admin")
  BY DEF Grows, Newest
<1>4. /\ \A x : Told("admin", x)' => Told("admin", x)
      /\ \A x, t : LastWord("admin", x, t) => LastWord("admin", x, t)'
  <2>1. CASE mail'["admin"] = mail["admin"]
    BY <2>1 DEF Told, LastWord
  <2>2. CASE \E e \in Event : e.kind = "count" /\ Newest("admin", e)
    BY <2>2, LastSaysElse
  <2> QED BY <2>1, <2>2
<1>5. Keeps("balance") /\ Keeps("rows")
  BY <1>2, GoesKeeps
<1>6. ListOK' /\ BalanceOK'
  BY <1>1, <1>5, UserStands
<1>7. RowsOK'
  <2>1. KeepsRight("admin") /\ KeepsCovers
    BY <1>1, <1>3, GrowsKeeps
  <2>2. "rows" \notin misled' =>
          /\ "rows" \notin misled
          /\ \A r \in Requests : LastWord("admin", r, Target(r))' /\ (Told("admin", r)' => ~Open(r)')
    <3> SUFFICES ASSUME "rows" \notin misled', NEW r \in Requests
                 PROVE  LastWord("admin", r, Target(r))' /\ (Told("admin", r)' => ~Open(r)')
      OBVIOUS
    <3>1. PICK t : t = Target(r)
      OBVIOUS
    <3>2. LastWord("admin", r, t)'
      BY <1>4, <3>1 DEF IInv, RowsOK
    <3>3. Target(r)' = t /\ Open(r)' = Open(r)
      BY <1>1, <3>1, TablesSame
    <3>4. LastWord("admin", r, Target(r))'
      BY <3>2, <3>3 DEF LastWord
    <3> QED BY <1>4, <3>3, <3>4 DEF IInv, RowsOK
  <2> QED BY <1>1, <1>5, <2>1, <2>2, RowsKept DEF IInv
<1>8. Deciding' /\ CallsOK' /\ AllBring'
  <2>1. ASSUME NEW j \in DOMAIN calls'
        PROVE  \E m : m = calls'[j] /\ \E i \in DOMAIN calls : \E q : q = calls[i] /\ LateOrKept(q, m)
    <3>1. PICK m, q : m = calls'[j] /\ q = calls[j]
      OBVIOUS
    <3>2. Stays(q, m) /\ q \in Call /\ CallOK(q) /\ j \in DOMAIN calls
      BY <1>2, <3>1, Types DEF IInv, CallsOK
    <3>3. q.stage = "answered" /\ q.kind \in Loads => m.old \/ Keeping(q.who)
      <4>1. Keeping("user")
        BY <1>1, UserKeeps
      <4>2. KeepsNumber => Keeping("admin")
        BY <1>1, <1>3, GrowsKeeps DEF Keeping
      <4>3. q.who \in {"user", "admin"}
        BY <3>2 DEF Call, Clients
      <4>4. KeepsNumber \/ (q.who = "admin" /\ q.stage = "answered" /\ q.kind \in Loads => m.old)
        BY <3>1, <3>2
      <4> QED BY <4>1, <4>2, <4>3, <4>4
    <3>4. Borne(q) => Borne(q)'
      <4>1. (\E i \in DOMAIN mail["admin"] : Contradicts(mail["admin"][i], q))
            => (\E i \in DOMAIN mail["admin"] : Contradicts(mail["admin"][i], q))'
        BY <1>3, Growing
      <4> QED BY <1>1, <4>1 DEF Borne, Tables, Contradicts
    <3> QED BY <3>1, <3>2, <3>3, <3>4 DEF LateOrKept
  <2>2. \A c \in Clients, x \in Requests : \A t : LastWord(c, x, t) => LastWord(c, x, t)'
    <3>1. \A x, t : LastWord("user", x, t) => LastWord("user", x, t)'
      BY DEF LastWord
    <3> QED BY <1>1, <1>4, <3>1
  <2> QED BY <1>1, <1>2, <2>1, <2>2, TablesStand
<1>9. MailOK'
  <2>1. \A c \in Clients : c \notin up => mail'[c] = << >>
    BY <1>1 DEF IInv, MailOK, Newest
  <2>2. ASSUME NEW i \in DOMAIN mail'["admin"], mail'["admin"][i].kind = "updated"
        PROVE  i \in DOMAIN mail["admin"] /\ mail'["admin"][i] = mail["admin"][i]
    BY <2>2 DEF Newest, Grows
  <2>3. \A i \in DOMAIN mail'["admin"] : mail'["admin"][i].kind = "updated" => status[mail'["admin"][i].r] # Absent
    BY <1>1, <2>2 DEF IInv, MailOK
  <2> QED BY <1>1, <2>1, <2>3 DEF IInv, MailOK
<1>10. TypeOK'
  BY <1>1, <1>2 DEF TypeOK, Query
<1> QED BY <1>2, <1>6, <1>7, <1>8, <1>9, <1>10

LEMMA CountsAgain ==
  ASSUME IInv, NEW i \in DOMAIN counting, Count(i)
  PROVE  IInv'
<1> DEFINE rest == RemoveAt(counting, i)
           last == Len(rest) + 1
<1>1. PICK e : e = [read |-> TRUE, n |-> Cardinality(Pending), old |-> FALSE]
  OBVIOUS
<1>2. TypeOK /\ counting \in Seq(Query) /\ counting' = Append(rest, e)
      /\ UNCHANGED <<status, credited, deciding, page, desk, up, mail, calls, turns, misled>>
  BY <1>1 DEF IInv, TypeOK, Query, Count
<1>3. Cardinality(Pending) \in 0..Cardinality(Requests)
  <2>1. Pending \subseteq Requests /\ IsFiniteSet(Requests)
    BY WalletDeskAssumption DEF Pending
  <2>2. Cardinality(Pending) <= Cardinality(Requests) /\ Cardinality(Pending) \in Nat /\ Cardinality(Requests) \in Nat
    BY <2>1, FS_Subset, FS_CardinalityType
  <2> QED BY <2>2
<1>4. Pending' = Pending
  BY <1>2 DEF Pending
<1>5. e \in Query /\ e.read /\ ~e.old /\ e.n = Cardinality(Pending) /\ e.n >= Cardinality(Pending')
  BY <1>1, <1>3, <1>4 DEF Query
<1>6. rest \in Seq(Query)
  BY <1>2, OneRemoved
<1> HIDE DEF rest
<1>7. counting' \in Seq(Query) /\ DOMAIN counting' = DOMAIN rest \cup {last} /\ counting'[last] = e
  BY <1>2, <1>5, <1>6, OneAppended
<1>8. \A j \in DOMAIN rest : last > j
  BY <1>6
<1> HIDE DEF last
<1>9. last \in DOMAIN counting' /\ counting'[last].read /\ ~counting'[last].old
      /\ counting'[last].n >= Cardinality(Pending')
  BY <1>5, <1>7
<1>10. Recounts'
  BY <1>9 DEF Recounts, Good, Enough
<1>11. BadgeOK' /\ KeepsNumber
  BY <1>10 DEF BadgeOK, KeepsNumber, Numbered
<1>12. CountOK'
  BY <1>7, <1>8, <1>9 DEF CountOK, Good, Enough
<1>13. Stay(calls, calls') /\ misled \subseteq misled' /\ misled' \subseteq Loads /\ mail' \in [Clients -> Seq(Event)]
  BY <1>2, Types, StayItself DEF TypeOK
<1> QED BY <1>2, <1>7, <1>11, <1>12, <1>13, Counted DEF IInv

LEMMA Broadcasts ==
  ASSUME IInv, NEW i \in DOMAIN counting, Broadcast(i)
  PROVE  IInv'
<1> DEFINE rest == RemoveAt(counting, i)
<1>1. PICK sent, e : sent = counting[i] /\ e = [kind |-> "count", n |-> counting[i].n]
  OBVIOUS
<1> DEFINE wrong == IF sent.old THEN {"badge"} ELSE {}
<1>2. /\ TypeOK /\ counting \in Seq(Query) /\ calls \in Seq(Call) /\ sent.read
      /\ Emit(ToAdmin(e), calls, wrong)
      /\ counting' = [j \in DOMAIN rest |-> [rest[j] EXCEPT !.old = @ \/ (rest[j].read /\ j < i)]]
      /\ UNCHANGED <<status, credited, deciding, page, desk, up, turns>>
  BY <1>1, Types DEF IInv, TypeOK, Query, Broadcast
<1>3. i \in 1..Len(counting) /\ Len(counting) \in Nat /\ DOMAIN counting = 1..Len(counting)
  BY <1>2
<1>4. sent \in Query /\ e \in Event /\ e.kind = "count" /\ e.n = sent.n
  <2>1. sent \in Query
    BY <1>1, <1>2
  <2>2. sent.n \in Nat
    BY <1>2, <2>1, Types DEF Query
  <2> QED BY <1>1, <2>1, <2>2 DEF Event
<1>5. /\ rest \in Seq(Query) /\ DOMAIN rest = 1..(Len(counting) - 1)
      /\ \A k \in DOMAIN rest : rest[k] = counting[Was(i, k)] /\ Was(i, k) \in DOMAIN counting
  <2>1. /\ rest \in Seq(Query) /\ Len(rest) = Len(counting) - 1
        /\ \A k \in DOMAIN rest : rest[k] = counting[Was(i, k)] /\ Was(i, k) \in DOMAIN counting
    BY <1>2, OneRemoved
  <2> HIDE DEF rest
  <2>2. DOMAIN rest = 1..Len(rest)
    BY <2>1
  <2> QED BY <2>1, <2>2
<1> HIDE DEF rest
<1>6. /\ counting' \in Seq(Query) /\ DOMAIN counting' = DOMAIN rest
      /\ \A k \in DOMAIN rest :
           /\ counting'[k].read = rest[k].read /\ counting'[k].n = rest[k].n
           /\ counting'[k].old <=> rest[k].old \/ (rest[k].read /\ k < i)
  <2>1. \A k \in DOMAIN rest : rest[k] \in Query
    BY <1>5
  <2>2. ASSUME NEW k \in DOMAIN rest
        PROVE  /\ counting'[k] \in Query /\ counting'[k].read = rest[k].read /\ counting'[k].n = rest[k].n
               /\ counting'[k].old <=> rest[k].old \/ (rest[k].read /\ k < i)
    <3> DEFINE passed == rest[k].read /\ k < i
    <3>1. counting'[k] = [rest[k] EXCEPT !.old = rest[k].old \/ passed]
      BY <1>2
    <3> HIDE DEF passed
    <3>2. (rest[k].old \/ passed) \in BOOLEAN
      BY Zenon
    <3>3. PICK b \in BOOLEAN : b = (rest[k].old \/ passed)
      BY <3>2
    <3>4. counting'[k] = [rest[k] EXCEPT !.old = b]
      BY <3>1, <3>3
    <3>5. PICK q : q = rest[k]
      OBVIOUS
    <3>6. q \in Query /\ counting'[k] = [q EXCEPT !.old = b]
      BY <2>1, <3>4, <3>5
    <3>7. counting'[k] \in Query /\ counting'[k].read = q.read /\ counting'[k].n = q.n /\ counting'[k].old = b
      BY <3>6 DEF Query
    <3>8. counting'[k].old <=> rest[k].old \/ passed
      BY <3>3, <3>7
    <3> QED BY <3>5, <3>7, <3>8 DEF passed
  <2>3. counting' \in Seq(Query) /\ DOMAIN counting' = DOMAIN rest
    <3>1. counting' = [k \in DOMAIN rest |-> counting'[k]]
      BY <1>2
    <3>2. DOMAIN rest = 1..(Len(counting) - 1) /\ Len(counting) - 1 \in Nat
      BY <1>3, <1>5
    <3> QED BY <2>2, <3>1, <3>2
  <2> QED BY <2>2, <2>3
\* Where a query that is not the one sent is afterwards.
<1> DEFINE Now(m) == IF m < i THEN m ELSE m - 1
<1>7. \A m \in DOMAIN counting \ {i} : /\ Now(m) \in DOMAIN counting' /\ Was(i, Now(m)) = m
                                       /\ counting'[Now(m)].read = counting[m].read
                                       /\ counting'[Now(m)].n = counting[m].n
                                       /\ m > i => counting'[Now(m)].old = counting[m].old
  <2> TAKE m \in DOMAIN counting \ {i}
  <2>0. m \in 1..Len(counting) /\ m # i
    BY <1>3
  <2>1. Now(m) \in DOMAIN rest /\ Was(i, Now(m)) = m /\ (m > i => ~(Now(m) < i))
    <3>1. CASE m < i
      BY <1>3, <1>5, <2>0, <3>1 DEF Was
    <3>2. CASE ~(m < i)
      <4>1. Now(m) = m - 1 /\ m - 1 \in DOMAIN rest /\ ~(m - 1 < i) /\ (m - 1) + 1 = m
        BY <1>3, <1>5, <2>0, <3>2
      <4> QED BY <4>1 DEF Was
    <3> QED BY <3>1, <3>2
  <2> HIDE DEF Now
  <2>2. rest[Now(m)] = counting[m]
    BY <1>5, <2>1
  <2>3. m > i => (counting'[Now(m)].old <=> counting[m].old)
    BY <1>6, <2>1, <2>2
  <2>4. counting'[Now(m)] \in Query /\ counting[m] \in Query
    <3>1. \A k \in DOMAIN counting' : counting'[k] \in Query
      BY <1>6
    <3>2. \A k \in DOMAIN counting : counting[k] \in Query
      BY <1>2
    <3>3. Now(m) \in DOMAIN counting'
      BY <1>6, <2>1
    <3> QED BY <3>1, <3>2, <3>3
  <2>5. m > i => counting'[Now(m)].old = counting[m].old
    BY <2>3, <2>4 DEF Query
  <2> QED BY <1>6, <2>1, <2>2, <2>5
<1>8. \A n : Enough(n)' = Enough(n)
  BY <1>2 DEF Enough, Pending
<1>9. \A m \in DOMAIN counting : ~counting[m].read \/ (m > i /\ Good(counting[m])) => Recounts'
  <2> TAKE m \in DOMAIN counting
  <2>1. ASSUME ~counting[m].read \/ (m > i /\ Good(counting[m]))
        PROVE  Recounts'
    <3>1. m # i
      BY <1>1, <1>2, <1>3, <2>1
    <3>2. \/ ~counting'[Now(m)].read
          \/ counting'[Now(m)].read /\ ~counting'[Now(m)].old /\ counting'[Now(m)].n >= Cardinality(Pending')
      BY <1>7, <1>8, <2>1, <3>1 DEF Good, Enough
    <3> HIDE DEF Now
    <3> QED BY <1>7, <3>1, <3>2 DEF Recounts, Good, Enough
  <2> QED BY <2>1
<1>10. CountOK'
  <2> SUFFICES ASSUME NEW k \in DOMAIN counting', counting'[k].read, ~counting'[k].old
               PROVE  \/ counting'[k].n >= Cardinality(Pending')
                      \/ \E j \in DOMAIN counting' :
                           \/ ~counting'[j].read
                           \/ /\ j > k /\ counting'[j].read /\ ~counting'[j].old
                              /\ counting'[j].n >= Cardinality(Pending')
    BY DEF CountOK, Good, Enough
  <2>1. k \in DOMAIN rest /\ rest[k].read /\ ~rest[k].old /\ ~(k < i) /\ counting'[k].n = rest[k].n
    BY <1>6
  <2>2. k \in Nat /\ k >= i /\ Was(i, k) = k + 1
    BY <1>3, <1>5, <2>1 DEF Was
  <2>3. /\ k + 1 \in DOMAIN counting /\ counting[k + 1].read /\ ~counting[k + 1].old
        /\ counting'[k].n = counting[k + 1].n
    BY <1>5, <2>1, <2>2
  <2>4. CASE Enough(counting[k + 1].n)
    <3>1. Pending' = Pending
      BY <1>2 DEF Pending
    <3>2. counting[k + 1].n >= Cardinality(Pending)
      BY <2>4 DEF Enough
    <3>3. counting'[k].n >= Cardinality(Pending')
      BY <2>3, <3>1, <3>2
    <3> QED BY <3>3
  <2>5. CASE \E m \in DOMAIN counting : ~counting[m].read \/ (m > k + 1 /\ Good(counting[m]))
    <3>1. PICK m \in DOMAIN counting : ~counting[m].read \/ (m > k + 1 /\ Good(counting[m]))
      BY <2>5
    <3>2. m # i
      BY <1>1, <1>2, <1>3, <2>2, <3>1
    <3>3. CASE ~counting[m].read
      <4>1. Now(m) \in DOMAIN counting' /\ ~counting'[Now(m)].read
        BY <1>7, <3>2, <3>3
      <4> HIDE DEF Now
      <4> QED BY <4>1
    <3>4. CASE m > k + 1 /\ Good(counting[m])
      <4>1. Now(m) \in DOMAIN counting' /\ Now(m) > k
        BY <1>3, <1>7, <2>2, <3>2, <3>4
      <4>2. m > i
        BY <1>3, <2>2, <3>4
      <4>3. counting'[Now(m)].read /\ ~counting'[Now(m)].old /\ counting'[Now(m)].n >= Cardinality(Pending')
        BY <1>7, <1>8, <3>2, <3>4, <4>2 DEF Good, Enough
      <4> HIDE DEF Now
      <4> QED BY <4>1, <4>3
    <3> QED BY <3>1, <3>3, <3>4
  <2> QED BY <2>3, <2>4, <2>5 DEF IInv, CountOK
<1>11. /\ Stay(calls, calls') /\ misled \cup wrong \subseteq misled' /\ mail' \in [Clients -> Seq(Event)]
       /\ mail'["user"] = mail["user"] /\ Hearing("admin", e, calls)
  <2> HIDE DEF wrong
  <2> QED BY <1>2, <1>4, AdminHears
<1>12. misled' \subseteq Loads
  <2>1. wrong \subseteq Loads
    BY DEF Loads
  <2> HIDE DEF wrong
  <2>2. \A c \in Clients : ViewsOf[c] \subseteq Loads
    BY DEF ViewsOf, Clients, Loads
  <2>3. misled \subseteq Loads
    BY <1>2 DEF TypeOK
  <2> QED BY <1>2, <2>1, <2>2, <2>3 DEF Emit
<1>13. \/ "admin" \in up /\ Newest("admin", e)
       \/ "admin" \notin up /\ mail'["admin"] = mail["admin"] /\ ViewsOf["admin"] \subseteq misled' /\ Late("admin", e, calls)
  <2>1. "admin" \in Clients
    BY DEF Clients
  <2> QED BY <1>2, <1>4, <1>11, <2>1, HearsOrMisses
\* Its own number is on its way when the admin hears.
<1>14. ASSUME Newest("admin", e)
       PROVE  /\ KeepsNumber
              /\ Enough(sent.n) => \E m \in DOMAIN mail'["admin"] :
                   /\ Number(m)' /\ Enough(mail["admin"][m].n)'
                   /\ \A j \in DOMAIN mail'["admin"] : Number(j)' => j <= m
  <2>0. PICK n : n = Len(mail["admin"]) + 1
    OBVIOUS
  <2>1. /\ n \in DOMAIN mail'["admin"] /\ mail'["admin"][n] = e /\ \A j \in DOMAIN mail'["admin"] : j <= n
    BY <1>14, <2>0 DEF Newest
  <2>2. Number(n)'
    BY <1>4, <2>1 DEF Number
  <2>3. KeepsNumber
    BY <2>1, <2>2 DEF KeepsNumber, Numbered, Number
  <2>4. Enough(sent.n) => Enough(mail["admin"][n].n)'
    <3>1. mail'["admin"][n].n = sent.n /\ Pending' = Pending
      BY <1>2, <1>4, <2>1 DEF Pending
    <3> QED BY <3>1 DEF Enough
  <2> QED BY <2>1, <2>2, <2>3, <2>4 DEF Number, Enough
<1>15. BadgeOK'
  <2>1. CASE "badge" \in misled'
    BY <2>1 DEF BadgeOK
  <2>2. CASE "badge" \notin misled'
    <3>1. ~sent.old
      BY <1>11, <2>2
    <3>2. Newest("admin", e)
      BY <1>13, <2>2 DEF ViewsOf, Clients
    <3>3. \/ Enough(sent.n)
          \/ \E m \in DOMAIN counting : ~counting[m].read \/ (m > i /\ Good(counting[m]))
      BY <1>1, <1>2, <3>1 DEF IInv, CountOK
    <3>4. CASE Enough(sent.n)
      BY <1>14, <3>2, <3>4 DEF BadgeOK
    <3>5. CASE Recounts'
      BY <3>5 DEF BadgeOK
    <3> QED BY <1>9, <3>3, <3>4, <3>5
  <2> QED BY <2>1, <2>2
<1>16. /\ mail'["admin"] = mail["admin"] \/ ("admin" \in up /\ \E f \in Event : f.kind = "count" /\ Newest("admin", f))
       /\ \/ KeepsNumber
          \/ \A j \in DOMAIN calls : calls[j].who = "admin" /\ calls[j].stage = "answered" /\ calls[j].kind \in Loads => calls'[j].old
  BY <1>4, <1>13, <1>14 DEF Late
<1>17. misled \subseteq misled'
  BY <1>11
<1> QED BY <1>2, <1>6, <1>10, <1>11, <1>12, <1>15, <1>16, <1>17, Counted DEF IInv

-----------------------------------------------------------------------------
(* A client hears the first event on its way.                              *)
\* What the other events still say.
LEMMA TailHeard ==
  ASSUME TypeOK, NEW c \in Clients, mail[c] # << >>, mail'[c] = Tail(mail[c])
  PROVE  LET e == mail[c][1] IN
         /\ \A x : (Told(c, x)' => Told(c, x)) /\ (Told(c, x) => Told(c, x)' \/ Says(e, x))
         /\ \A x, t : /\ LastWord(c, x, t) => LastWord(c, x, t)'
                      /\ LastWord(c, x, t) /\ Says(e, x) => e.to = t \/ Told(c, x)'
         /\ c = "user" => (Approval => Approval' \/ (e.kind = "updated" /\ e.to = "approved"))
         /\ c = "admin" => (News => News' \/ e.kind = "new")
         /\ c = "admin" => \A k : (\E i \in DOMAIN mail["admin"] : Contradicts(mail["admin"][i], k))
                                  => \/ (\E i \in DOMAIN mail["admin"] : Contradicts(mail["admin"][i], k))'
                                     \/ Contradicts(e, k)
<1>1. PICK e : e = mail[c][1]
  OBVIOUS
<1>2. mail[c] \in Seq(Event)
  BY DEF TypeOK
<1>3. /\ 1 \in DOMAIN mail[c] /\ DOMAIN mail[c] \subseteq Nat /\ DOMAIN mail'[c] \subseteq Nat
      /\ \A k \in DOMAIN mail'[c] : mail'[c][k] = mail[c][k + 1] /\ k + 1 \in DOMAIN mail[c]
      /\ \A k \in DOMAIN mail[c] \ {1} : k - 1 \in DOMAIN mail'[c] /\ mail'[c][k - 1] = mail[c][k]
      /\ \A k \in DOMAIN mail[c] : k >= 1
  <2>1. PICK s, t : s = mail[c] /\ t = Tail(s)
    OBVIOUS
  <2>2. s \in Seq(Event) /\ s # << >>
    BY <1>2, <2>1
  <2>3. /\ t \in Seq(Event) /\ Len(s) >= 1
        /\ \A k \in DOMAIN t : t[k] = s[k + 1] /\ k + 1 \in DOMAIN s
        /\ \A k \in DOMAIN s \ {1} : k - 1 \in DOMAIN t /\ t[k - 1] = s[k]
    BY <2>1, <2>2, TailOf
  <2>4. DOMAIN s = 1..Len(s) /\ DOMAIN t = 1..Len(t) /\ Len(s) \in Nat /\ Len(t) \in Nat
    BY <2>2, <2>3
  <2>5. 1 \in DOMAIN s /\ DOMAIN s \subseteq Nat /\ DOMAIN t \subseteq Nat /\ \A k \in DOMAIN s : k >= 1
    BY <2>3, <2>4
  <2> QED BY <2>1, <2>3, <2>5
<1>5. ASSUME NEW x
      PROVE  (Told(c, x)' => Told(c, x)) /\ (Told(c, x) => Told(c, x)' \/ Says(e, x))
  <2>1. Told(c, x)' => Told(c, x)
    BY <1>3 DEF Told
  <2>2. ASSUME Told(c, x), ~Says(e, x)
        PROVE  Told(c, x)'
    <3>1. PICK i \in DOMAIN mail[c] : mail[c][i].kind = "updated" /\ mail[c][i].r = x
      BY <2>2 DEF Told
    <3>2. i # 1
      BY <1>1, <2>2, <3>1 DEF Says
    <3>3. i - 1 \in DOMAIN mail'[c] /\ mail'[c][i - 1] = mail[c][i]
      BY <1>3, <3>2
    <3>4. PICK j : j = i - 1
      OBVIOUS
    <3> QED BY <3>1, <3>3, <3>4 DEF Told
  <2> QED BY <2>1, <2>2
<1>6. ASSUME NEW x, NEW t, LastWord(c, x, t)
      PROVE  LastWord(c, x, t)' /\ (Says(e, x) => e.to = t \/ Told(c, x)')
  <2>1. LastWord(c, x, t)'
    <3> SUFFICES ASSUME NEW i \in DOMAIN mail'[c], Says(mail'[c][i], x)
                 PROVE  \E j \in DOMAIN mail'[c] : j >= i /\ Says(mail'[c][j], x) /\ mail'[c][j].to = t
      BY DEF LastWord, Says
    <3>1. i \in Nat /\ i + 1 \in DOMAIN mail[c] /\ Says(mail[c][i + 1], x)
      BY <1>3
    <3>2. PICK j \in DOMAIN mail[c] : j >= i + 1 /\ Says(mail[c][j], x) /\ mail[c][j].to = t
      BY <1>6, <3>1 DEF LastWord
    <3>3. j \in Nat /\ j # 1 /\ j - 1 >= i
      <4>1. j \in Nat /\ i >= 1
        <5>1. i \in Nat /\ i # 0
          <6>1. i + 1 # 1
            <7>1. DOMAIN mail'[c] = 1..Len(mail'[c])
              BY <1>2, TailOf
            <7> QED BY <3>1, <7>1
          <6> QED BY <3>1, <6>1
        <5> QED BY <1>3, <5>1
      <4> QED BY <3>1, <3>2, <4>1
    <3>4. j - 1 \in DOMAIN mail'[c] /\ mail'[c][j - 1] = mail[c][j]
      BY <1>3, <3>3
    <3> QED BY <3>2, <3>3, <3>4
  <2>2. ASSUME Says(e, x), e.to # t
        PROVE  Told(c, x)'
    <3>1. PICK j \in DOMAIN mail[c] : Says(mail[c][j], x) /\ mail[c][j].to = t
      BY <1>1, <1>3, <1>6, <2>2 DEF LastWord
    <3>2. j # 1
      BY <1>1, <2>2, <3>1
    <3>3. j - 1 \in DOMAIN mail'[c] /\ mail'[c][j - 1] = mail[c][j]
      BY <1>3, <3>2
    <3>4. PICK k : k = j - 1
      OBVIOUS
    <3> QED BY <3>1, <3>3, <3>4 DEF Told, Says
  <2> QED BY <2>1, <2>2
<1>7. ASSUME c = "user", Approval, ~(e.kind = "updated" /\ e.to = "approved")
      PROVE  Approval'
  <2>1. PICK i \in DOMAIN mail[c] : mail[c][i].kind = "updated" /\ mail[c][i].to = "approved"
    BY <1>7 DEF Approval
  <2>2. i # 1
    BY <1>1, <1>7, <2>1
  <2>3. PICK j : j = i - 1
    OBVIOUS
  <2>4. j \in DOMAIN mail'[c] /\ mail'[c][j] = mail[c][i]
    BY <1>3, <2>2, <2>3
  <2> QED BY <1>7, <2>1, <2>4 DEF Approval
<1>8. ASSUME c = "admin", News, e.kind # "new"
      PROVE  News'
  <2>1. PICK i \in DOMAIN mail[c] : mail[c][i].kind = "new"
    BY <1>8 DEF News
  <2>2. i # 1
    BY <1>1, <1>8, <2>1
  <2>3. PICK j : j = i - 1
    OBVIOUS
  <2>4. j \in DOMAIN mail'[c] /\ mail'[c][j] = mail[c][i]
    BY <1>3, <2>2, <2>3
  <2> QED BY <1>8, <2>1, <2>4 DEF News
<1>9. ASSUME c = "admin", NEW k, NEW i \in DOMAIN mail["admin"], Contradicts(mail["admin"][i], k), ~Contradicts(e, k)
      PROVE  (\E j \in DOMAIN mail["admin"] : Contradicts(mail["admin"][j], k))'
  <2>1. i # 1
    BY <1>1, <1>9
  <2>2. PICK j : j = i - 1
    OBVIOUS
  <2>3. j \in DOMAIN mail'["admin"] /\ Contradicts(mail'["admin"][j], k)
    BY <1>3, <1>9, <2>1, <2>2
  <2> QED BY <2>3 DEF Contradicts
<1> QED BY <1>1, <1>5, <1>6, <1>7, <1>8, <1>9

\* What becomes of the calls: the answers the event overtakes are old, and the
\* event may make its client load something.
Overtakes(c, e, q, m) ==
  /\ Stays(q, m)
  /\ q.who = c /\ q.stage = "answered" /\ (q.kind \in Loads \/ Contradicts(e, q)) => m.old
Heard(c, e) ==
  /\ calls' \in Seq(Call) /\ Alone' /\ \A i \in DOMAIN calls : Goes(i)
  /\ \A j \in DOMAIN calls' : \/ \E i \in DOMAIN calls : Overtakes(c, e, calls[i], calls'[j])
                              \/ calls'[j].stage = "sent" /\ CallOK(calls'[j])

LEMMA HeardOnly ==
  ASSUME IInv, NEW c, NEW e, NEW E, \A k : Contradicts(e, k) => \E f \in E : Contradicts(f, k),
         calls' = Overtaken(calls, {c}, E)
  PROVE  Heard(c, e)
<1>1. calls \in Seq(Call) /\ Alone
  BY Types DEF IInv
<1>2. /\ Stay(calls, calls')
      /\ \A i \in DOMAIN calls :
           calls[i].who \in {c} /\ calls[i].stage = "answered"
             /\ (calls[i].kind \in Loads \/ \E f \in E : Contradicts(f, calls[i])) => calls'[i].old
  BY <1>1, AreOvertaken
<1>3. calls' \in Seq(Call) /\ Alone' /\ \A i \in DOMAIN calls : Goes(i)
  BY <1>1, <1>2, AllStay
<1>4. \A j \in DOMAIN calls' : j \in DOMAIN calls /\ Overtakes(c, e, calls[j], calls'[j])
  BY <1>2 DEF Stay, Overtakes
<1> QED BY <1>3, <1>4 DEF Heard

LEMMA HeardAndLoads ==
  ASSUME IInv, NEW c, NEW e, NEW E, \A k : Contradicts(e, k) => \E f \in E : Contradicts(f, k),
         NEW cs, cs = Overtaken(calls, {c}, E),
         NEW d \in Clients, NEW kind \in ViewsOf[d], NEW filter \in Filters, Send(cs \o Asked(d, kind, {}, filter))
  PROVE  Heard(c, e) /\ \E j \in DOMAIN calls' : calls'[j].kind = kind
<1>1. calls \in Seq(Call) /\ Alone
  BY Types DEF IInv
<1>2. /\ Stay(calls, cs) /\ cs \in Seq(Call)
      /\ \A i \in DOMAIN calls :
           calls[i].who \in {c} /\ calls[i].stage = "answered"
             /\ (calls[i].kind \in Loads \/ \E f \in E : Contradicts(f, calls[i])) => cs[i].old
  BY <1>1, AreOvertaken DEF Stay
<1>3. kind \in Loads
  BY DEF ViewsOf, Clients, Loads
<1>4. PICK new : new = Asking(d, kind, {}, filter)
  OBVIOUS
<1>5. Adds(cs, new)
  BY <1>2, <1>3, <1>4, SendsOne
<1>6. new.kind = kind /\ new.stage = "sent" /\ CallOK(new)
  BY <1>3, <1>4 DEF Asking, CallOK, Loads, Acts, Decisions
<1>7. \A i \in DOMAIN calls : ~Alike(new, calls[i])
  BY <1>3, <1>6, LoadsUnlike
<1>8. /\ calls' \in Seq(Call) /\ Alone' /\ \A i \in DOMAIN calls : Goes(i)
      /\ \E j \in DOMAIN calls' : calls'[j] = new
  BY <1>1, <1>2, <1>5, <1>7, Adding
<1>9. \A j \in DOMAIN calls' : (j \in DOMAIN calls /\ Overtakes(c, e, calls[j], calls'[j])) \/ calls'[j] = new
  BY <1>2, <1>5 DEF Stay, Adds, Overtakes
<1> QED BY <1>6, <1>8, <1>9 DEF Heard

\* The mail, the calls and the tables after c heard an event.
LEMMA Hearsay ==
  ASSUME IInv, UNCHANGED <<server, up, turns, misled>>, NEW c \in Clients, Hears(c), NEW e, e = mail[c][1], Heard(c, e)
  PROVE  /\ mail' \in [Clients -> Seq(Event)] /\ mail'[c] = Tail(mail[c]) /\ \A d \in Clients : d # c => mail'[d] = mail[d]
         /\ MailOK' /\ Deciding' /\ CallsOK' /\ AllBring' /\ CountOK'
         /\ Keeps("balance") /\ Keeps("rows")
         /\ e \in Event /\ (e.kind = "updated" => status[e.r] # Absent)
<1>1. /\ UNCHANGED Tables /\ counting' = counting /\ TypeOK /\ mail \in [Clients -> Seq(Event)]
      /\ mail[c] # << >> /\ Clients = {"user", "admin"}
  BY Types DEF server, Tables, IInv, Hears, Clients
<1>2. /\ mail'[c] = Tail(mail[c]) /\ \A d \in Clients : d # c => mail'[d] = mail[d]
      /\ mail' \in [Clients -> Seq(Event)]
  BY <1>1 DEF Hears
<1>3. 1 \in DOMAIN mail[c] /\ e \in Event /\ (e.kind = "updated" => status[e.r] # Absent)
  <2>1. mail[c] \in Seq(Event)
    BY <1>1
  <2>2. 1 \in DOMAIN mail[c]
    BY <1>1, <2>1
  <2> QED BY <2>1, <2>2 DEF IInv, MailOK
<1>4. /\ \A x : (Told(c, x)' => Told(c, x)) /\ (Told(c, x) => Told(c, x)' \/ Says(e, x))
      /\ \A x, t : LastWord(c, x, t) => LastWord(c, x, t)'
      /\ c = "admin" => \A k : (\E i \in DOMAIN mail["admin"] : Contradicts(mail["admin"][i], k))
                               => \/ (\E i \in DOMAIN mail["admin"] : Contradicts(mail["admin"][i], k))'
                                  \/ Contradicts(e, k)
  BY <1>1, <1>2, TailHeard
<1>5. MailOK'
  <2>1. ASSUME NEW i \in DOMAIN mail'[c]
        PROVE  \E j \in DOMAIN mail[c] : mail'[c][i] = mail[c][j]
    <3>1. PICK s, t : s = mail[c] /\ t = mail'[c]
      OBVIOUS
    <3>2. s \in Seq(Event) /\ s # << >> /\ t = Tail(s)
      BY <1>1, <1>2, <3>1
    <3>3. \A k \in DOMAIN t : t[k] = s[k + 1] /\ k + 1 \in DOMAIN s
      BY <3>2, TailOf
    <3> QED BY <2>1, <3>1, <3>3
  <2>2. c \in up
    BY <1>1 DEF IInv, MailOK
  <2>3. \A d \in Clients : \A i \in DOMAIN mail'[d] : \E j \in DOMAIN mail[d] : mail'[d][i] = mail[d][j]
    BY <1>2, <2>1
  <2>4. up' = up /\ status' = status
    BY DEF server
  <2> QED BY <1>1, <1>2, <2>2, <2>3, <2>4 DEF IInv, MailOK
<1>6. Deciding' /\ CallsOK' /\ AllBring'
  <2>1. ASSUME NEW j \in DOMAIN calls'
        PROVE  \E m : m = calls'[j] /\
                 \/ \E i \in DOMAIN calls : \E q : q = calls[i] /\ LateOrKept(q, m)
                 \/ CallOK(m) /\ m.stage = "sent"
    <3>1. PICK m : m = calls'[j]
      OBVIOUS
    <3>2. CASE \E i \in DOMAIN calls : Overtakes(c, e, calls[i], m)
      <4>0. PICK i \in DOMAIN calls : Overtakes(c, e, calls[i], m)
        BY <3>2
      <4>1. PICK q : q = calls[i] /\ Overtakes(c, e, q, m)
        BY <4>0
      <4>2. q \in Call /\ CallOK(q) /\ q.who \in {"user", "admin"}
        BY <1>1, <4>1, Types DEF IInv, CallsOK, Call
      <4>3. q.stage = "answered" /\ q.kind \in Loads => m.old \/ Keeping(q.who)
        <5>1. c # "user" => Keeping("user")
          BY <1>1, <1>2, UserKeeps
        <5>2. c # "admin" => Keeping("admin")
          BY <1>1, <1>2, AdminKeeps
        <5> QED BY <4>1, <4>2, <5>1, <5>2 DEF Overtakes
      <4>4. q.stage = "answered" /\ q.kind \in Decisions => m.old \/ (Borne(q) => Borne(q)')
        <5> SUFFICES ASSUME q.stage = "answered", q.kind \in Decisions, ~m.old, Borne(q)
                     PROVE  Borne(q)'
          OBVIOUS
        <5>1. q.who = "admin"
          BY <4>2 DEF CallOK
        <5>2. (\E f \in DOMAIN mail["admin"] : Contradicts(mail["admin"][f], q))
              => (\E f \in DOMAIN mail["admin"] : Contradicts(mail["admin"][f], q))'
          <6>1. CASE c = "admin"
            BY <1>4, <4>1, <5>1, <6>1 DEF Overtakes
          <6>2. CASE c # "admin"
            BY <1>1, <1>2, <6>2 DEF Contradicts
          <6> QED BY <6>1, <6>2
        <5> QED BY <1>1, <5>2 DEF Borne, Tables, Contradicts
      <4> QED BY <3>1, <4>1, <4>3, <4>4 DEF LateOrKept, Overtakes
    <3>3. CASE m.stage = "sent" /\ CallOK(m)
      BY <3>1, <3>3
    <3> QED BY <3>1, <3>2, <3>3 DEF Heard
  <2>2. \A d \in Clients, x \in Requests : \A t : LastWord(d, x, t) => LastWord(d, x, t)'
    <3> TAKE d \in Clients, x \in Requests
    <3>1. CASE d = c
      BY <1>4, <3>1
    <3>2. CASE d # c
      BY <1>2, <3>2 DEF LastWord
    <3> QED BY <3>1, <3>2
  <2> QED BY <1>1, <2>1, <2>2, TablesStand DEF Heard
<1>7. CountOK'
  BY <1>1, TablesSame DEF IInv, CountOK, Good
<1>8. Keeps("balance") /\ Keeps("rows")
  BY GoesKeeps DEF Heard
<1> QED BY <1>2, <1>3, <1>5, <1>6, <1>7, <1>8

LEMMA UserIsTold ==
  ASSUME IInv, UserHears
  PROVE  IInv'
<1>1. PICK e : e = mail["user"][1]
  OBVIOUS
<1>2. "user" \in Clients /\ mail["user"] \in Seq(Event) /\ mail["user"] # << >> /\ First("user") = e
  <2>1. "user" \in Clients /\ mail["user"] \in Seq(Event) /\ mail["user"] # << >>
    BY DEF Clients, IInv, TypeOK, UserHears, Hears
  <2> QED BY <1>1, <2>1 DEF First
<1>3. e \in Event /\ e.kind = "updated" /\ e.r \in Requests /\ e.to \in Statuses
  <2>1. 1 \in DOMAIN mail["user"]
    BY <1>2
  <2>2. e \in Event /\ e.kind = "updated"
    BY <1>1, <1>2, <2>1 DEF IInv, MailOK
  <2> QED BY <2>2 DEF Event
<1>4. PICK cs : cs = Overtaken(calls, {"user"}, {e})
  OBVIOUS
<1>5. /\ Hears("user") /\ InList(e.r, e.to) /\ UNCHANGED <<server, desk, up, turns, misled>>
      /\ IF e.to = "approved" THEN Send(cs \o Ask("user", "balance")) ELSE Send(cs)
  BY <1>2, <1>4 DEF UserHears
<1>6. Heard("user", e) /\ (e.to = "approved" => \E j \in DOMAIN calls' : calls'[j].kind = "balance")
  <2>1. CASE e.to = "approved"
    <3>1. Send(cs \o Asked("user", "balance", {}, "any"))
      BY <1>5, <2>1 DEF Ask
    <3>2. "balance" \in ViewsOf["user"] /\ "any" \in Filters
      BY <1>2 DEF ViewsOf, Filters
    <3>3. \A k : Contradicts(e, k) => \E f \in {e} : Contradicts(f, k)
      OBVIOUS
    <3> QED BY <1>2, <1>4, <3>1, <3>2, <3>3, HeardAndLoads
  <2>2. CASE e.to # "approved"
    <3>1. calls' = Overtaken(calls, {"user"}, {e})
      BY <1>4, <1>5, <2>2 DEF Send
    <3>2. \A k : Contradicts(e, k) => \E f \in {e} : Contradicts(f, k)
      OBVIOUS
    <3> QED BY <2>2, <3>1, <3>2, HeardOnly
  <2> QED BY <2>1, <2>2
<1>7. /\ mail' \in [Clients -> Seq(Event)] /\ mail'["user"] = Tail(mail["user"])
      /\ \A d \in Clients : d # "user" => mail'[d] = mail[d]
      /\ MailOK' /\ Deciding' /\ CallsOK' /\ AllBring' /\ CountOK' /\ Keeps("balance") /\ Keeps("rows")
  BY <1>1, <1>2, <1>5, <1>6, Hearsay
<1>8. UNCHANGED Tables /\ counting' = counting /\ desk' = desk /\ misled' = misled /\ TypeOK
  BY <1>5 DEF server, Tables, IInv
<1>9. RowsOK' /\ BadgeOK'
  <2>1. mail'["admin"] = mail["admin"]
    BY <1>7 DEF Clients
  <2> QED BY <1>7, <1>8, <2>1, AdminStands
<1>10. /\ page' \in [list : [Requests -> Statuses \cup {Absent}], balance : SUBSET Requests]
       /\ page'.balance = page.balance
       /\ \A x \in Requests : page'.list[x] = IF x = e.r THEN e.to ELSE page.list[x]
  <2>1. page \in [list : [Requests -> Statuses \cup {Absent}], balance : SUBSET Requests]
    BY <1>8 DEF TypeOK
  <2> QED BY <1>3, <1>5, <2>1 DEF InList
<1>11. /\ \A x : (Told("user", x)' => Told("user", x)) /\ (Told("user", x) => Told("user", x)' \/ Says(e, x))
       /\ \A x, t : /\ LastWord("user", x, t) => LastWord("user", x, t)'
                    /\ LastWord("user", x, t) /\ Says(e, x) => e.to = t \/ Told("user", x)'
       /\ Approval => Approval' \/ e.to = "approved"
  BY <1>1, <1>2, <1>3, <1>7, <1>8, TailHeard
<1>12. ListOK'
  <2> SUFFICES ASSUME "list" \notin misled, NEW x \in Requests
               PROVE  LastWord("user", x, Target(x))' /\ Right("user", x, page.list[x])'
    BY <1>8 DEF ListOK
  <2>1. PICK t, s : t = Target(x) /\ s = page'.list[x]
    OBVIOUS
  <2>2. LastWord("user", x, t) /\ (Told("user", x) \/ page.list[x] \in {Absent, t})
    BY <2>1 DEF IInv, ListOK, Right
  <2>3. Target(x)' = t
    BY <1>8, <2>1, TablesSame
  <2>4. Told("user", x)' \/ s \in {Absent, t}
    <3>1. CASE x = e.r
      BY <1>3, <1>10, <1>11, <2>1, <2>2, <3>1 DEF Says
    <3>2. CASE x # e.r
      BY <1>10, <1>11, <2>1, <2>2, <3>2 DEF Says
    <3> QED BY <3>1, <3>2
  <2>5. LastWord("user", x, t)'
    BY <1>11, <2>2
  <2>6. LastWord("user", x, Target(x))'
    BY <2>3, <2>5 DEF LastWord
  <2> QED BY <2>1, <2>3, <2>4, <2>6 DEF Right
<1>13. BalanceOK'
  <2>1. CASE e.to = "approved"
    BY <1>6, <2>1 DEF BalanceOK
  <2>2. CASE e.to # "approved"
    <3>1. Approval => Approval'
      BY <1>11, <2>2
    <3>2. \A B : Counts(B) => Counts(B)'
      BY <1>8, TablesSame
    <3>3. KeepsCounts
      BY <3>1, <3>2 DEF KeepsCounts
    <3> QED BY <1>7, <1>8, <1>10, <3>3, BalanceKept DEF IInv
  <2> QED BY <2>1, <2>2
<1>14. TypeOK'
  BY <1>5, <1>6, <1>7, <1>8, <1>10 DEF TypeOK, Heard, server
<1> QED BY <1>6, <1>7, <1>9, <1>12, <1>13, <1>14 DEF IInv, Heard

\* What the rows and the badge are after the admin heard e.
DeskHears(e) ==
  /\ desk' \in [ filter : Filters, rows : [Requests -> Statuses \cup {Absent}], review : SUBSET Requests, badge : Nat ]
  /\ desk'.filter = desk.filter
  /\ \A x \in Requests : IF Says(e, x) THEN desk'.rows[x] \in {Absent, e.to} ELSE desk'.rows[x] = desk.rows[x]
  /\ e.kind = "new" => \E j \in DOMAIN calls' : calls'[j].kind = "rows"
  /\ IF e.kind = "count" THEN desk'.badge = e.n ELSE desk'.badge >= desk.badge

LEMMA BadgeIsTold ==
  ASSUME IInv, UNCHANGED <<server, misled>>, Hears("admin"), NEW e, e = mail["admin"][1], DeskHears(e)
  PROVE  BadgeOK'
<1>1. PICK s, t : s = mail["admin"] /\ t = mail'["admin"]
  OBVIOUS
<1>2. s \in Seq(Event) /\ s # << >> /\ t = Tail(s)
  BY <1>1 DEF IInv, TypeOK, Hears, Clients
<1>3. /\ Len(s) >= 1 /\ Len(t) = Len(s) - 1 /\ t \in Seq(Event)
      /\ \A k \in DOMAIN t : t[k] = s[k + 1] /\ k + 1 \in DOMAIN s
      /\ \A k \in DOMAIN s \ {1} : k - 1 \in DOMAIN t /\ t[k - 1] = s[k]
  BY <1>2, TailOf
<1>4. DOMAIN s = 1..Len(s) /\ Len(s) \in Nat /\ DOMAIN t = 1..Len(t) /\ 1 \in DOMAIN s /\ e = s[1] /\ e \in Event
  BY <1>1, <1>2, <1>3
<1>5. UNCHANGED Tables /\ counting' = counting /\ misled' = misled
  BY DEF server, Tables
<1>6. Pending' = Pending /\ Cardinality(Pending) \in Nat
  <2>1. Pending \subseteq Requests
    BY DEF Pending
  <2> QED BY <1>5, <2>1, WalletDeskAssumption, FS_Subset, FS_CardinalityType, TablesSame
<1>7. Recounts' = Recounts
  BY <1>5, TablesSame DEF Recounts, Good
<1>8. SUFFICES ASSUME "badge" \notin misled, ~Recounts
               PROVE  \/ \E i \in DOMAIN t : /\ t[i].kind = "count" /\ t[i].n >= Cardinality(Pending)
                                             /\ \A j \in DOMAIN t : t[j].kind = "count" => j <= i
                      \/ (\A i \in DOMAIN t : t[i].kind # "count") /\ desk'.badge >= Cardinality(Pending)
  <2>1. ASSUME NEW i
        PROVE  Enough(mail["admin"][i].n)' <=> t[i].n >= Cardinality(Pending)
    BY <1>1, <1>6 DEF Enough
  <2>2. Enough(desk.badge)' <=> desk'.badge >= Cardinality(Pending)
    BY <1>6 DEF Enough
  <2> QED BY <1>1, <1>5, <1>7, <2>1, <2>2 DEF BadgeOK, Number
<1>9. CASE \E i \in DOMAIN s : /\ s[i].kind = "count" /\ s[i].n >= Cardinality(Pending)
                               /\ \A j \in DOMAIN s : s[j].kind = "count" => j <= i
  <2>1. PICK i \in DOMAIN s : /\ s[i].kind = "count" /\ s[i].n >= Cardinality(Pending)
                              /\ \A j \in DOMAIN s : s[j].kind = "count" => j <= i
    BY <1>9
  <2>2. CASE i = 1
    <3>1. \A j \in DOMAIN t : t[j].kind # "count"
      BY <1>3, <1>4, <2>1, <2>2
    <3>2. desk'.badge >= Cardinality(Pending)
      BY <1>4, <2>1, <2>2 DEF DeskHears
    <3> QED BY <3>1, <3>2
  <2>3. CASE i # 1
    <3>1. i - 1 \in DOMAIN t /\ t[i - 1] = s[i]
      BY <1>3, <2>3
    <3>2. \A j \in DOMAIN t : t[j].kind = "count" => j <= i - 1
      BY <1>3, <1>4, <2>1
    <3> QED BY <2>1, <3>1, <3>2
  <2> QED BY <2>2, <2>3
<1>10. CASE (\A i \in DOMAIN s : s[i].kind # "count") /\ desk.badge >= Cardinality(Pending)
  <2>1. \A i \in DOMAIN t : t[i].kind # "count"
    BY <1>3, <1>10
  <2>2. e.kind # "count"
    BY <1>4, <1>10
  <2>3. desk'.badge >= desk.badge /\ desk'.badge \in Nat /\ desk.badge \in Nat
    BY <2>2 DEF DeskHears, IInv, TypeOK
  <2>4. desk'.badge >= Cardinality(Pending)
    BY <1>6, <1>10, <2>3
  <2> QED BY <2>1, <2>4
<1>11. \/ \E i \in DOMAIN s : /\ s[i].kind = "count" /\ s[i].n >= Cardinality(Pending)
                              /\ \A j \in DOMAIN s : s[j].kind = "count" => j <= i
       \/ (\A i \in DOMAIN s : s[i].kind # "count") /\ desk.badge >= Cardinality(Pending)
  BY <1>1, <1>8 DEF IInv, BadgeOK, Number, Enough
<1> QED BY <1>9, <1>10, <1>11

LEMMA RowsAreTold ==
  ASSUME IInv, UNCHANGED <<server, misled>>, Hears("admin"), NEW e, e = mail["admin"][1], DeskHears(e),
         mail'["admin"] = Tail(mail["admin"]), Keeps("rows")
  PROVE  RowsOK'
<1>1. /\ UNCHANGED Tables /\ misled' = misled /\ TypeOK /\ "admin" \in Clients /\ mail["admin"] # << >>
      /\ 1 \in DOMAIN mail["admin"]
  <2>1. mail["admin"] \in Seq(Event) /\ mail["admin"] # << >>
    BY DEF IInv, TypeOK, Clients, Hears
  <2>2. 1 \in DOMAIN mail["admin"]
    BY <2>1
  <2> QED BY <2>1, <2>2 DEF server, Tables, IInv, Clients
<1>2. /\ \A x : (Told("admin", x)' => Told("admin", x)) /\ (Told("admin", x) => Told("admin", x)' \/ Says(e, x))
      /\ \A x, t : /\ LastWord("admin", x, t) => LastWord("admin", x, t)'
                   /\ LastWord("admin", x, t) /\ Says(e, x) => e.to = t \/ Told("admin", x)'
      /\ News => News' \/ e.kind = "new"
  BY <1>1, TailHeard
<1> SUFFICES ASSUME "rows" \notin misled
             PROVE  /\ \A x \in Requests : LastWord("admin", x, Target(x))' /\ Right("admin", x, desk.rows[x])'
                                           /\ (Told("admin", x) => ~Open(x))'
                    /\ Wants(desk.filter)' => \/ (News \/ Covers(desk.rows))'
                                              \/ \E j \in DOMAIN calls' : calls'[j].kind = "rows"
  BY <1>1 DEF RowsOK
<1>3. ASSUME NEW x \in Requests
      PROVE  LastWord("admin", x, Target(x))' /\ Right("admin", x, desk.rows[x])' /\ (Told("admin", x) => ~Open(x))'
  <2>1. PICK t, s : t = Target(x) /\ s = desk'.rows[x]
    OBVIOUS
  <2>2. LastWord("admin", x, t) /\ (Told("admin", x) \/ desk.rows[x] \in {Absent, t}) /\ (Told("admin", x) => ~Open(x))
    BY <2>1 DEF IInv, RowsOK, Right
  <2>3. Target(x)' = t /\ Open(x)' = Open(x)
    BY <1>1, <2>1, TablesSame
  <2>4. Told("admin", x)' \/ s \in {Absent, t}
    <3>1. CASE Says(e, x)
      BY <1>2, <2>1, <2>2, <3>1 DEF DeskHears
    <3>2. CASE ~Says(e, x)
      BY <1>2, <2>1, <2>2, <3>2 DEF DeskHears
    <3> QED BY <3>1, <3>2
  <2>5. LastWord("admin", x, t)'
    BY <1>2, <2>2
  <2>6. LastWord("admin", x, Target(x))'
    BY <2>3, <2>5 DEF LastWord
  <2>7. Right("admin", x, desk.rows[x])'
    BY <2>1, <2>3, <2>4 DEF Right
  <2> QED BY <1>2, <2>2, <2>3, <2>6, <2>7
<1>4. ASSUME Wants(desk.filter)'
      PROVE  (News \/ Covers(desk.rows))' \/ \E j \in DOMAIN calls' : calls'[j].kind = "rows"
  <2>1. News \/ (\E j \in DOMAIN calls : calls[j].kind = "rows") \/ Covers(desk.rows)
    BY <1>4 DEF IInv, RowsOK, Wants, DeskHears
  <2>2. CASE News
    BY <1>2, <2>2 DEF DeskHears
  <2>3. CASE \E j \in DOMAIN calls : calls[j].kind = "rows"
    BY <2>3 DEF Keeps
  <2>4. CASE Covers(desk.rows)
    <3>1. \A x \in Requests : Says(e, x) => ~Open(x)
      <4>1. \A x \in Requests : Says(e, x) => Told("admin", x)
        BY <1>1 DEF Says, Told
      <4> QED BY <4>1 DEF IInv, RowsOK
    <3>2. \A x \in Requests : Open(x) => desk'.rows[x] # Absent
      BY <2>4, <3>1 DEF Covers, DeskHears
    <3>3. \A x \in Requests : Open(x)' = Open(x)
      BY <1>1, TablesSame
    <3> QED BY <3>2, <3>3 DEF Covers
  <2> QED BY <2>1, <2>2, <2>3, <2>4
<1> QED BY <1>3, <1>4

LEMMA AdminIsTold ==
  ASSUME IInv, UNCHANGED <<server, page, up, turns, misled>>, Hears("admin"), NEW e, e = mail["admin"][1],
         Heard("admin", e), DeskHears(e)
  PROVE  IInv'
<1>1. /\ mail' \in [Clients -> Seq(Event)] /\ mail'["admin"] = Tail(mail["admin"])
      /\ \A d \in Clients : d # "admin" => mail'[d] = mail[d]
      /\ MailOK' /\ Deciding' /\ CallsOK' /\ AllBring' /\ CountOK' /\ Keeps("balance") /\ Keeps("rows")
  <2>1. "admin" \in Clients /\ UNCHANGED <<server, up, turns, misled>>
    BY DEF Clients
  <2> QED BY <2>1, Hearsay
<1>2. UNCHANGED Tables /\ page' = page /\ misled' = misled /\ TypeOK /\ UNCHANGED <<server, misled>>
  BY DEF server, Tables, IInv
<1>3. ListOK' /\ BalanceOK'
  <2>1. mail'["user"] = mail["user"]
    BY <1>1 DEF Clients
  <2> QED BY <1>1, <1>2, <2>1, UserStands
<1>4. RowsOK'
  BY <1>1, <1>2, RowsAreTold
<1>5. BadgeOK'
  BY <1>2, BadgeIsTold
<1>6. TypeOK'
  BY <1>1, <1>2 DEF TypeOK, Heard, server, DeskHears
<1> QED BY <1>1, <1>3, <1>4, <1>5, <1>6 DEF IInv, Heard

\* The event the admin hears next.
LEMMA AdminsFirst ==
  ASSUME IInv, Hears("admin"), NEW e, e = mail["admin"][1]
  PROVE  /\ First("admin") = e /\ e \in Event
         /\ desk \in [ filter : Filters, rows : [Requests -> Statuses \cup {Absent}], review : SUBSET Requests, badge : Nat ]
<1>1. mail["admin"] \in Seq(Event) /\ mail["admin"] # << >>
  BY DEF IInv, TypeOK, Clients, Hears
<1>2. 1 \in DOMAIN mail["admin"]
  BY <1>1
<1> QED BY <1>1, <1>2 DEF First, IInv, TypeOK

LEMMA AdminIsUpdated ==
  ASSUME IInv, AdminHearsUpdated
  PROVE  IInv'
<1>1. PICK e : e = mail["admin"][1]
  OBVIOUS
<1>2. /\ UNCHANGED <<server, page, up, turns, misled>> /\ Hears("admin") /\ First("admin").kind = "updated"
      /\ desk' = [desk EXCEPT !.rows = RowsAfter(First("admin").r, First("admin").to)]
      /\ calls' = Overtaken(calls, {"admin"}, {First("admin")})
  BY DEF AdminHearsUpdated
<1>3. /\ First("admin") = e /\ e \in Event
      /\ desk \in [ filter : Filters, rows : [Requests -> Statuses \cup {Absent}], review : SUBSET Requests, badge : Nat ]
  BY <1>1, <1>2, AdminsFirst
<1>4. e.kind = "updated" /\ e.r \in Requests /\ e.to \in Statuses
  BY <1>2, <1>3 DEF Event
<1>5. Heard("admin", e)
  <2>1. calls' = Overtaken(calls, {"admin"}, {e}) /\ \A k : Contradicts(e, k) => \E f \in {e} : Contradicts(f, k)
    BY <1>2, <1>3
  <2> QED BY <2>1, HeardOnly
<1>6. DeskHears(e)
  <2>1. /\ RowsAfter(e.r, e.to) \in [Requests -> Statuses \cup {Absent}]
        /\ \A x \in Requests : IF Says(e, x) THEN RowsAfter(e.r, e.to)[x] \in {Absent, e.to}
                               ELSE RowsAfter(e.r, e.to)[x] = desk.rows[x]
    BY <1>3, <1>4 DEF RowsAfter, Says
  <2>2. desk' = [desk EXCEPT !.rows = RowsAfter(e.r, e.to)]
    BY <1>2, <1>3
  <2>3. PICK R : R = RowsAfter(e.r, e.to)
    OBVIOUS
  <2>4. /\ desk' \in [ filter : Filters, rows : [Requests -> Statuses \cup {Absent}], review : SUBSET Requests, badge : Nat ]
        /\ desk'.rows = R /\ desk'.filter = desk.filter /\ desk'.badge = desk.badge /\ desk.badge \in Nat
    BY <1>3, <2>1, <2>2, <2>3
  <2> QED BY <1>4, <2>1, <2>3, <2>4 DEF DeskHears
<1> QED BY <1>1, <1>2, <1>5, <1>6, AdminIsTold

LEMMA AdminIsToldOfNew ==
  ASSUME IInv, AdminHearsNew
  PROVE  IInv'
<1>1. PICK e : e = mail["admin"][1]
  OBVIOUS
<1>2. /\ UNCHANGED <<server, page, up, turns, misled>> /\ Hears("admin") /\ First("admin").kind = "new"
      /\ desk' = [desk EXCEPT !.badge = @ + 1]
      /\ Send(Passed(calls, {"admin"}) \o AskRows(desk.filter))
  BY DEF AdminHearsNew
<1>3. /\ First("admin") = e /\ e.kind = "new"
      /\ desk \in [ filter : Filters, rows : [Requests -> Statuses \cup {Absent}], review : SUBSET Requests, badge : Nat ]
  BY <1>1, <1>2, AdminsFirst
<1>4. Heard("admin", e) /\ \E j \in DOMAIN calls' : calls'[j].kind = "rows"
  <2>1. PICK cs : cs = Overtaken(calls, {"admin"}, {})
    OBVIOUS
  <2>2. Send(cs \o Asked("admin", "rows", {}, desk.filter))
    BY <1>2, <2>1 DEF Passed, AskRows
  <2>3. \A k : Contradicts(e, k) => \E f \in {} : Contradicts(f, k)
    BY <1>3 DEF Contradicts
  <2>4. "admin" \in Clients /\ "rows" \in ViewsOf["admin"] /\ desk.filter \in Filters
    BY <1>3 DEF ViewsOf, Clients
  <2> QED BY <2>1, <2>2, <2>3, <2>4, HeardAndLoads
<1>5. DeskHears(e)
  <2>1. \A x : ~Says(e, x)
    BY <1>3 DEF Says
  <2>2. /\ desk' \in [ filter : Filters, rows : [Requests -> Statuses \cup {Absent}], review : SUBSET Requests, badge : Nat ]
        /\ desk'.rows = desk.rows /\ desk'.filter = desk.filter /\ desk'.badge >= desk.badge
    BY <1>2, <1>3
  <2> QED BY <1>3, <1>4, <2>1, <2>2 DEF DeskHears
<1> QED BY <1>1, <1>2, <1>4, <1>5, AdminIsTold

LEMMA AdminIsToldOfCount ==
  ASSUME IInv, AdminHearsCount
  PROVE  IInv'
<1>1. PICK e : e = mail["admin"][1]
  OBVIOUS
<1>2. /\ UNCHANGED <<server, page, up, turns, misled>> /\ Hears("admin") /\ First("admin").kind = "count"
      /\ desk' = [desk EXCEPT !.badge = First("admin").n]
      /\ calls' = Overtaken(calls, {"admin"}, {})
  BY DEF AdminHearsCount, Passed
<1>3. /\ First("admin") = e /\ e.kind = "count" /\ e \in Event
      /\ desk \in [ filter : Filters, rows : [Requests -> Statuses \cup {Absent}], review : SUBSET Requests, badge : Nat ]
  BY <1>1, <1>2, AdminsFirst
<1>4. Heard("admin", e)
  <2>1. \A k : Contradicts(e, k) => \E f \in {} : Contradicts(f, k)
    BY <1>3 DEF Contradicts
  <2> QED BY <1>2, <2>1, HeardOnly
<1>5. DeskHears(e)
  <2>1. \A x : ~Says(e, x)
    BY <1>3 DEF Says
  <2>2. e.n \in Nat
    BY <1>3 DEF Event
  <2>3. /\ desk' \in [ filter : Filters, rows : [Requests -> Statuses \cup {Absent}], review : SUBSET Requests, badge : Nat ]
        /\ desk'.rows = desk.rows /\ desk'.filter = desk.filter /\ desk'.badge = e.n
    BY <1>2, <1>3, <2>2
  <2> QED BY <1>3, <2>1, <2>3 DEF DeskHears
<1> QED BY <1>1, <1>2, <1>4, <1>5, AdminIsTold

-----------------------------------------------------------------------------
(* A socket breaks: its client misses what was on its way.                 *)
LEMMA Breaks ==
  ASSUME IInv, NEW c \in Clients, Break(c)
  PROVE  IInv'
<1>1. /\ Turn /\ up' = up \ {c} /\ mail' = [mail EXCEPT ![c] = << >>]
      /\ misled' = IF mail[c] = << >> THEN misled ELSE misled \cup ViewsOf[c]
      /\ calls' = IF mail[c] = << >> THEN calls ELSE Overtaken(calls, {c}, Range(mail[c]))
      /\ UNCHANGED <<server, page, desk>>
  BY DEF Break
<1>2. /\ TypeOK /\ Alone /\ calls \in Seq(Call) /\ mail \in [Clients -> Seq(Event)] /\ Clients = {"user", "admin"}
      /\ UNCHANGED Tables /\ counting' = counting
  BY <1>1, Types DEF IInv, Clients, server, Tables
<1>3. /\ mail' \in [Clients -> Seq(Event)] /\ mail'[c] = << >> /\ \A d \in Clients : d # c => mail'[d] = mail[d]
  <2>1. << >> \in Seq(Event)
    OBVIOUS
  <2> QED BY <1>1, <1>2, <2>1
<1>4. /\ Stay(calls, calls')
      /\ \/ mail[c] = << >>
         \/ \A i \in DOMAIN calls :
              calls[i].who = c /\ calls[i].stage = "answered"
                /\ (calls[i].kind \in Loads \/ \E f \in Range(mail[c]) : Contradicts(f, calls[i])) => calls'[i].old
  <2>1. CASE mail[c] = << >>
    BY <1>1, <1>2, <2>1, StayItself
  <2>2. CASE mail[c] # << >>
    BY <1>1, <1>2, <2>2, AreOvertaken
  <2> QED BY <2>1, <2>2
<1>5. calls' \in Seq(Call) /\ Alone' /\ (\A i \in DOMAIN calls : Goes(i)) /\ Keeps("balance") /\ Keeps("rows")
  BY <1>2, <1>4, AllStay, GoesKeeps
<1>6. misled \subseteq misled' /\ (mail[c] = << >> \/ ViewsOf[c] \subseteq misled')
  BY <1>1
<1>7. ListOK' /\ BalanceOK'
  <2>1. CASE mail'["user"] = mail["user"]
    BY <1>1, <1>2, <1>5, <1>6, <2>1, UserStands
  <2>2. CASE mail'["user"] # mail["user"]
    <3>1. {"list", "balance"} \subseteq misled'
      BY <1>2, <1>3, <1>6, <2>2 DEF ViewsOf
    <3> QED BY <3>1 DEF ListOK, BalanceOK
  <2> QED BY <2>1, <2>2
<1>8. RowsOK' /\ BadgeOK'
  <2>1. CASE mail'["admin"] = mail["admin"]
    BY <1>1, <1>2, <1>5, <1>6, <2>1, AdminStands
  <2>2. CASE mail'["admin"] # mail["admin"]
    <3>1. {"rows", "badge"} \subseteq misled'
      BY <1>2, <1>3, <1>6, <2>2 DEF ViewsOf
    <3> QED BY <3>1 DEF RowsOK, BadgeOK
  <2> QED BY <2>1, <2>2
<1>9. Deciding' /\ CallsOK' /\ AllBring'
  <2>1. ASSUME NEW j \in DOMAIN calls'
        PROVE  \E m : m = calls'[j] /\ \E i \in DOMAIN calls : \E q : q = calls[i] /\ LateOrKept(q, m)
    <3>1. PICK m, q : m = calls'[j] /\ q = calls[j]
      OBVIOUS
    <3>2. j \in DOMAIN calls /\ Stays(q, m)
      BY <1>4, <3>1 DEF Stay
    <3>3. q \in Call /\ CallOK(q) /\ q.who \in {"user", "admin"}
      BY <1>2, <3>1, <3>2, Types DEF IInv, CallsOK, Call
    <3>4. \/ mail[c] = << >>
          \/ q.who = c /\ q.stage = "answered"
               /\ (q.kind \in Loads \/ \E f \in Range(mail[c]) : Contradicts(f, q)) => m.old
      BY <1>4, <3>1, <3>2
    <3>5. q.stage = "answered" /\ q.kind \in Loads => m.old \/ Keeping(q.who)
      <4>1. mail[c] = << >> \/ c # "user" => Keeping("user")
        BY <1>2, <1>3, UserKeeps
      <4>2. mail[c] = << >> \/ c # "admin" => Keeping("admin")
        BY <1>2, <1>3, AdminKeeps
      <4> QED BY <3>3, <3>4, <4>1, <4>2
    <3>6. q.stage = "answered" /\ q.kind \in Decisions => m.old \/ (Borne(q) => Borne(q)')
      <4> SUFFICES ASSUME q.stage = "answered", q.kind \in Decisions, ~m.old, Borne(q)
                   PROVE  Borne(q)'
        OBVIOUS
      <4>1. q.who = "admin"
        BY <3>3 DEF CallOK
      <4>2. (\E f \in DOMAIN mail["admin"] : Contradicts(mail["admin"][f], q))
            => (\E f \in DOMAIN mail["admin"] : Contradicts(mail["admin"][f], q))'
        <5>1. CASE mail'["admin"] = mail["admin"]
          BY <5>1 DEF Contradicts
        <5>2. CASE mail'["admin"] # mail["admin"]
          <6>1. c = "admin" /\ mail[c] # << >>
            BY <1>2, <1>3, <5>2
          <6>2. ~\E f \in Range(mail["admin"]) : Contradicts(f, q)
            BY <3>4, <4>1, <6>1
          <6>3. \A f \in DOMAIN mail["admin"] : mail["admin"][f] \in Range(mail["admin"])
            BY DEF Range
          <6> QED BY <6>2, <6>3
        <5> QED BY <5>1, <5>2
      <4> QED BY <1>2, <4>2 DEF Borne, Tables, Contradicts
    <3> QED BY <3>1, <3>2, <3>5, <3>6 DEF LateOrKept
  <2>2. \A d \in Clients, x \in Requests : \A t : LastWord(d, x, t) => LastWord(d, x, t)'
    <3> TAKE d \in Clients, x \in Requests
    <3>1. CASE d = c
      BY <1>3, <3>1 DEF LastWord
    <3>2. CASE d # c
      BY <1>3, <3>2 DEF LastWord
    <3> QED BY <3>1, <3>2
  <2> QED BY <1>2, <1>5, <2>1, <2>2, TablesStand
<1>10. MailOK'
  <2>1. \A d \in Clients : mail'[d] = << >> \/ mail'[d] = mail[d]
    BY <1>3
  <2>2. \A d \in Clients : d \notin up' => mail'[d] = << >>
    BY <1>1, <1>3, <2>1 DEF IInv, MailOK
  <2>3. \A d \in Clients : \A i \in DOMAIN mail'[d] : mail'[d] = mail[d]
    BY <2>1
  <2> QED BY <1>2, <2>2, <2>3 DEF IInv, MailOK, Tables
<1>11. CountOK'
  BY <1>2, TablesSame DEF IInv, CountOK, Good
<1>12. TypeOK'
  <2>1. turns' \in 0..MaxTurns
    BY <1>1, <1>2, Turns
  <2>2. misled' \subseteq Loads
    BY <1>1, <1>2 DEF TypeOK, ViewsOf, Loads
  <2> QED BY <1>1, <1>2, <1>3, <1>5, <2>1, <2>2 DEF TypeOK, server
<1> QED BY <1>5, <1>7, <1>8, <1>9, <1>10, <1>11, <1>12 DEF IInv

-----------------------------------------------------------------------------
(* The invariant and what follows.                                         *)
LEMMA InitOK ==
  ASSUME Init
  PROVE  IInv
<1>1. Cardinality(Requests) \in Nat /\ MaxTurns \in Nat /\ IsFiniteSet(Requests)
  BY WalletDeskAssumption, FS_CardinalityType
<1>2. NoRows \in [Requests -> Statuses \cup {Absent}]
  BY DEF NoRows
<1>3. Pending = {}
  BY DEF Init, Pending, NoRows, Absent
<1>4. TypeOK
  <2>1. mail \in [Clients -> Seq(Event)] /\ calls \in Seq(Call)
    BY DEF Init
  <2>2. counting \in Seq([read : BOOLEAN, n : 0..Cardinality(Requests), old : BOOLEAN])
    BY DEF Init
  <2>3. desk \in [ filter : Filters, rows : [Requests -> Statuses \cup {Absent}], review : SUBSET Requests, badge : Nat ]
    BY <1>2 DEF Init, Filters
  <2>4. /\ DOMAIN deciding = {}
    BY DEF Init
  <2> QED BY <1>1, <1>2, <2>1, <2>2, <2>3, <2>4 DEF TypeOK, Init
<1>5. DOMAIN deciding = {} /\ DOMAIN calls = {} /\ DOMAIN counting = {} /\ \A c \in Clients : DOMAIN mail[c] = {}
  BY DEF Init
<1>6. MailOK /\ Alone /\ Deciding /\ CallsOK /\ AllBring
  BY <1>5 DEF MailOK, Alone, Deciding, CallsOK, AllBring, Init, Clients
<1>7. \A c \in Clients : \A r : ~Told(c, r) /\ \A s : LastWord(c, r, s)
  BY <1>5 DEF Told, LastWord
<1>8. ListOK /\ BalanceOK
  BY <1>5, <1>7 DEF ListOK, BalanceOK, Right, Counts, Init, NoRows, Clients
<1>9. RowsOK
  BY <1>5, <1>7 DEF RowsOK, Right, Covers, Open, Init, NoRows, Absent, Clients
<1>10. CountOK /\ BadgeOK
  <2>1. Enough(desk.badge)
    BY <1>3, FS_EmptySet DEF Enough, Init
  <2> QED BY <1>5, <2>1 DEF CountOK, BadgeOK, Clients
<1> QED BY <1>4, <1>6, <1>8, <1>9, <1>10 DEF IInv

LEMMA StuttersOK ==
  ASSUME IInv, UNCHANGED vars
  PROVE  IInv'
<1>1. calls' = calls /\ UNCHANGED World /\ up \subseteq up' /\ Still
  BY DEF vars, World, Still, server
<1>2. TypeOK'
  BY DEF vars, server, IInv, TypeOK
<1>3. Stay(calls, calls')
  BY <1>1, Types, StayItself DEF IInv
<1>4. Alone' /\ (\A j \in DOMAIN calls' : Came(calls'[j])) /\ \A i \in DOMAIN calls : Goes(i)
  BY <1>3, AllStay DEF IInv
<1> QED BY <1>1, <1>2, <1>4, QuietStep

LEMMA Inductive ==
  ASSUME IInv, [Next]_vars
  PROVE  IInv'
<1>1. ASSUME People
      PROVE  IInv'
  <2>1. CASE OpenWallet
    BY <2>1, UserOpens
  <2>2. CASE OpenDesk
    BY <2>2, AdminOpens
  <2>3. ASSUME NEW r \in Requests, Submit(r) \/ CancelRow(r) \/ StartReview(r) \/ \E d \in Decisions : Decide(r, d)
        PROVE  IInv'
    BY <2>3, Submits, Cancels, Reviews, Decides
  <2>4. ASSUME NEW f \in Filters, SetFilter(f)
        PROVE  IInv'
    BY <2>4, NewFilter
  <2> QED BY <1>1, <2>1, <2>2, <2>3, <2>4 DEF People
<1>2. ASSUME Server
      PROVE  IInv'
  <2>1. ASSUME NEW i \in DOMAIN calls,
               Create(i) \/ CancelReads(i) \/ CancelSaves(i) \/ Notify(i) \/ Refuse(i) \/ Read(i)
        PROVE  IInv'
    BY <2>1, Creates, Checks, Saves, Notifies, Refuses, Reads
  <2>2. ASSUME NEW r \in DOMAIN deciding, Commit(r)
        PROVE  IInv'
    BY <2>2, Commits
  <2>3. ASSUME NEW i \in DOMAIN counting, Count(i) \/ Broadcast(i)
        PROVE  IInv'
    BY <2>3, CountsAgain, Broadcasts
  <2> QED BY <1>2, <2>1, <2>2, <2>3 DEF Server
<1>3. ASSUME Screens
      PROVE  IInv'
  <2>1. CASE UserHears
    BY <2>1, UserIsTold
  <2>2. CASE AdminHearsUpdated
    BY <2>2, AdminIsUpdated
  <2>3. CASE AdminHearsNew
    BY <2>3, AdminIsToldOfNew
  <2>4. CASE AdminHearsCount
    BY <2>4, AdminIsToldOfCount
  <2>5. ASSUME NEW i \in DOMAIN calls, TakeLoad(i) \/ TakeAct(i) \/ TakeFailure(i)
        PROVE  IInv'
    BY <2>5, ShowsLoad, ShowsAct, Fails
  <2> QED BY <1>3, <2>1, <2>2, <2>3, <2>4, <2>5 DEF Screens
<1>4. ASSUME Trouble
      PROVE  IInv'
  <2>1. ASSUME NEW r \in DOMAIN deciding, Rollback(r)
        PROVE  IInv'
    BY <2>1, RollsBack
  <2>2. ASSUME NEW i \in DOMAIN calls, Lose(i)
        PROVE  IInv'
    BY <2>2, Loses
  <2>3. ASSUME NEW c \in Clients, Break(c) \/ Reconnect(c)
        PROVE  IInv'
    BY <2>3, Breaks, Reconnects
  <2> QED BY <1>4, <2>1, <2>2, <2>3 DEF Trouble
<1> QED BY <1>1, <1>2, <1>3, <1>4, StuttersOK DEF Next

\* The inductive invariant holds in every state.
THEOREM Invariant == Spec => []IInv
<1>1. Init => IInv
  BY InitOK
<1>2. IInv /\ [Next]_vars => IInv'
  BY Inductive
<1> QED BY <1>1, <1>2, PTL DEF Spec

\* Tables, calls, events and pages keep their types.
THEOREM TypeCorrect == Spec => []TypeOK
<1>1. IInv => TypeOK
  BY DEF IInv
<1> QED BY <1>1, Invariant, PTL

\* When nothing is on its way no event is to correct a view, and nobody decides.
LEMMA AtRest ==
  ASSUME IInv, Quiet
  PROVE  /\ DOMAIN calls = {} /\ DOMAIN counting = {} /\ DOMAIN deciding = {}
         /\ \A c \in Clients : DOMAIN mail[c] = {}
         /\ \A c \in Clients, r \in Requests : ~Told(c, r) /\ Target(r) = status[r]
         /\ ~Approval /\ ~News /\ ~Recounts
<1>1. /\ DOMAIN calls = {} /\ DOMAIN counting = {} /\ DOMAIN deciding = {}
      /\ \A c \in Clients : DOMAIN mail[c] = {}
  BY DEF Quiet
<1>2. "user" \in Clients /\ "admin" \in Clients
  BY DEF Clients
<1> QED BY <1>1, <1>2 DEF Told, Target, Approval, News, Recounts

\* Once everything has arrived, /wallet shows each request as it stands and the
\* balance that counts what was credited, unless the page missed an event or
\* loaded too early: for any number of requests and in any order of answers.
THEOREM UserSees == Spec => []UserSeesHisRequests
<1>1. ASSUME IInv
      PROVE  UserSeesHisRequests
  <2> SUFFICES ASSUME Quiet
               PROVE  /\ "list" \notin misled => Agrees(page.list)
                      /\ "balance" \notin misled => page.balance = credited
    BY DEF UserSeesHisRequests
  <2>1. /\ DOMAIN calls = {} /\ ~Approval
        /\ \A r \in Requests : ~Told("user", r) /\ Target(r) = status[r]
    BY <1>1, AtRest DEF Clients
  <2> QED BY <1>1, <2>1 DEF IInv, ListOK, Right, Agrees, BalanceOK, Counts
<1> QED BY <1>1, Invariant, PTL

\* Then the rows of /admin/wallet-requests offer no request that is decided and,
\* under the filters that show them, miss no pending one.
THEOREM DeskShows == Spec => []DeskShowsPending
<1>1. ASSUME IInv
      PROVE  DeskShowsPending
  <2> SUFFICES ASSUME Quiet, "rows" \notin misled
               PROVE  /\ Agrees(desk.rows)
                      /\ desk.filter \in {"any", "pending"} => \A r \in Pending : desk.rows[r] # Absent
    BY DEF DeskShowsPending
  <2>1. /\ DOMAIN calls = {} /\ DOMAIN deciding = {} /\ ~News
        /\ \A r \in Requests : ~Told("admin", r) /\ Target(r) = status[r]
    BY <1>1, AtRest DEF Clients
  <2>2. Agrees(desk.rows)
    BY <1>1, <2>1 DEF IInv, RowsOK, Right, Agrees
  <2>3. desk.filter \in {"any", "pending"} => \A r \in Pending : desk.rows[r] # Absent
    BY <1>1, <2>1 DEF IInv, RowsOK, Wants, Covers, Open, Pending
  <2> QED BY <2>2, <2>3
<1> QED BY <1>1, Invariant, PTL

\* Then the badge of the layout shows at least as many requests as are pending.
THEOREM BadgeHides == Spec => []BadgeNeverHidesRequest
<1>1. ASSUME IInv
      PROVE  BadgeNeverHidesRequest
  <2> SUFFICES ASSUME Quiet, "badge" \notin misled
               PROVE  desk.badge >= Cardinality(Pending)
    BY DEF BadgeNeverHidesRequest
  <2>1. ~Recounts /\ DOMAIN mail["admin"] = {}
    BY <1>1, AtRest DEF Clients
  <2> QED BY <1>1, <2>1 DEF IInv, BadgeOK, Enough
<1> QED BY <1>1, Invariant, PTL
=============================================================================
