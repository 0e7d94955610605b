--------------------------- MODULE BackOfficeProofs ---------------------------
(***************************************************************************)
(* Proofs about BackOffice: its types, the freshness of the guard, the     *)
(* settings, the last admin and the reopening of accounts, for any number  *)
(* of accounts, handlers and calls.                                        *)
(***************************************************************************)
EXTENDS BackOffice, FiniteSetTheorems, TLAPS

(* The inductive invariant.                                                *)
\* From the SELECT of a setting to the cache.
Storing == {"absent", "differs", "same", "stored"}
\* What the call of a handler settles, wherever the handler has come to.
Asked(h) ==
  /\ h.at <= clock
  /\ h.kind \in OfAdmins => h.actor \in known
  /\ h.kind \notin {"signup", "facebook", "bootstrap"} => h.target \in known
  /\ h.kind = "bootstrap" => h.target = Bootstrap
  /\ h.stage \in {"found", "diffed"} => h.target \in known
  /\ h.stage \in Storing => h.kind = "setting"

\* Whom the guard let pass, and whom it is about to.
Passed(h) ==
  /\ h.kind \in OfAdmins /\ h.stage \notin {"arrived", "looked"} => h.at < admin_at[h.actor] + TTL
  /\ h.stage = "looked" /\ Active(h.copy) => h.at <= admin_at[h.actor]

\* A handler nobody has crossed saves what it found with its own change, and nothing else.
OnOthers == {"promote", "demote", "suspend", "unsuspend", "delete"}
Standing == {"admin", "suspended", "deleted"}
Copied(h) ==
  h.stage \in {"found", "diffed"} =>
    /\ h.kind \in OnOthers => h.target # h.actor
    /\ h.kind = "bootstrap" => h.copy.admin /\ ~h.copy.suspended /\ ~h.copy.deleted
    /\ h.kind = "bootstrap" /\ h.stage = "diffed" /\ ~h.crossed =>
         \A f \in Standing \ h.writes : row[h.target][f] = h.copy[f]
    /\ h.kind # "bootstrap" /\ ~h.crossed =>
         /\ h.copy = Changed(h.kind, row[h.target])
         /\ h.stage = "diffed" => h.writes = { f \in Fields : h.copy[f] # row[h.target][f] }

Trusted == \A a \in Accounts : MayPass(trust[a]) => trust[a].until <= admin_at[a] + TTL
Dated == \A a \in Accounts : admin_at[a] <= clock /\ (Active(row[a]) => admin_at[a] = clock)
Stored(i) == handlers[i].stage = "stored"
\* The value of handler i goes into the cache without being written any more.
Caches(i) == handlers[i].stage \in {"same", "stored"}
Settled ==
  "setting" \notin raced =>
    /\ \A i \in DOMAIN handlers : Caches(i) => handlers[i].value = setting.row
    /\ (\A i \in DOMAIN handlers : ~Stored(i)) => setting.cache = setting.row

IInv ==
  /\ TypeOK
  /\ \A i \in DOMAIN handlers : Asked(handlers[i]) /\ Passed(handlers[i]) /\ Copied(handlers[i])
  /\ Trusted /\ Dated /\ Settled
  /\ AnAdminRemains

-----------------------------------------------------------------------------
(* Sequences.                                                              *)
\* One element replaced.
LEMMA OneReplaced ==
  ASSUME NEW S, NEW s \in Seq(S), NEW i \in DOMAIN s, NEW e \in S, NEW t, t = [s EXCEPT ![i] = e]
  PROVE  /\ t \in Seq(S) /\ Len(t) = Len(s) /\ DOMAIN t = DOMAIN s
         /\ t[i] = e /\ \A k \in DOMAIN s \ {i} : t[k] = s[k]
OBVIOUS

\* One element appended.
LEMMA OneAppended ==
  ASSUME NEW S, NEW s \in Seq(S), NEW e \in S, NEW t, t = Append(s, e)
  PROVE  /\ t \in Seq(S) /\ Len(t) = Len(s) + 1 /\ DOMAIN t = DOMAIN s \cup {Len(s) + 1}
         /\ t[Len(s) + 1] = e /\ \A k \in DOMAIN s : t[k] = s[k]
OBVIOUS

\* Where element k was before element i was removed.
Was(i, k) == IF k < i THEN k ELSE k + 1
\* One element removed: the others keep their order.
LEMMA OneRemoved ==
  ASSUME NEW S, NEW s \in Seq(S), NEW i \in DOMAIN s, NEW t, t = RemoveAt(s, i)
  PROVE  /\ t \in Seq(S) /\ Len(t) = Len(s) - 1
         /\ \A k \in DOMAIN t : t[k] = s[Was(i, k)] /\ Was(i, k) \in DOMAIN s
         /\ \A j \in DOMAIN s \ {i} : \E k \in DOMAIN t : t[k] = s[j]
<1> DEFINE u == SubSeq(s, 1, i - 1)
           v == SubSeq(s, i + 1, Len(s))
<1>1. i \in 1..Len(s) /\ Len(s) \in Nat
  OBVIOUS
<1>2. u \in Seq(S) /\ Len(u) = i - 1 /\ \A k \in 1..(i - 1) : u[k] = s[k]
  BY <1>1
<1>3. v \in Seq(S) /\ Len(v) = Len(s) - i /\ \A k \in 1..(Len(s) - i) : v[k] = s[i + k]
  BY <1>1
<1>4. t = u \o v
  BY DEF RemoveAt
<1> HIDE DEF u, v
<1>5. t \in Seq(S) /\ Len(t) = Len(s) - 1
  BY <1>1, <1>2, <1>3, <1>4
<1>6. ASSUME NEW k \in DOMAIN t
      PROVE  /\ t[k] = s[IF k < i THEN k ELSE k + 1]
             /\ (IF k < i THEN k ELSE k + 1) \in DOMAIN s
  <2>1. k \in 1..(Len(s) - 1)
    BY <1>5
  <2>2. CASE k < i
    BY <2>1, <2>2, <1>1, <1>2, <1>3, <1>4
  <2>3. CASE ~(k < i)
    <3> DEFINE m == k - (i - 1)
    <3>1. t[k] = v[m]
      BY <2>1, <2>3, <1>1, <1>2, <1>3, <1>4
    <3>2. m \in 1..(Len(s) - i) /\ i + m = k + 1 /\ k + 1 \in 1..Len(s)
      BY <2>1, <2>3, <1>1
    <3> HIDE DEF m
    <3>3. v[m] = s[k + 1]
      BY <3>2, <1>3
    <3> QED BY <3>1, <3>2, <3>3, <2>3
  <2> QED BY <2>2, <2>3
<1>7. ASSUME NEW j \in DOMAIN s \ {i}
      PROVE  \E k \in DOMAIN t : t[k] = s[j]
  <2> DEFINE k == IF j < i THEN j ELSE j - 1
  <2>1. k \in DOMAIN t /\ (IF k < i THEN k ELSE k + 1) = j
    BY <1>1, <1>5
  <2> HIDE DEF k
  <2> QED BY <2>1, <1>6
<1> QED BY <1>5, <1>6, <1>7 DEF Was

\* The elements at some positions, in the order SetToSeq gives them.
LEMMA SomeKept ==
  ASSUME NEW S, NEW s \in Seq(S), NEW I \in SUBSET DOMAIN s,
         NEW t, t = [k \in DOMAIN SetToSeq(I) |-> s[SetToSeq(I)[k]]]
  PROVE  /\ t \in Seq(S) /\ Len(t) <= Len(s)
         /\ \A k \in DOMAIN t : \E i \in I : t[k] = s[i]
<1>1. IsFiniteSet(DOMAIN s) /\ Cardinality(DOMAIN s) = Len(s)
  <2> DEFINE n == Len(s)
  <2>1. DOMAIN s = 1..n /\ n \in Nat
    OBVIOUS
  <2> HIDE DEF n
  <2>2. IsFiniteSet(1..n) /\ Cardinality(1..n) = IF 1 > n THEN 0 ELSE n - 1 + 1
    <3>1. 1 \in Int /\ n \in Int
      BY <2>1
    <3> QED BY <3>1, FS_Interval, Zenon
  <2>3. Cardinality(1..n) = n
    BY <2>1, <2>2
  <2> QED BY <2>1, <2>2, <2>3 DEF n
<1>2. IsFiniteSet(I) /\ Cardinality(I) <= Len(s) /\ Cardinality(I) \in Nat
  BY <1>1, FS_Subset, FS_CardinalityType
<1>3. \E f \in [1..Cardinality(I) -> I] : IsInjective(f)
  <2>1. ExistsBijection(1..Cardinality(I), I)
    BY <1>2, FS_CardinalityType
  <2> QED BY <2>1 DEF ExistsBijection, Bijection, Injection, IsInjective
<1> DEFINE those == SetToSeq(I)
<1>4. those \in [1..Cardinality(I) -> I]
  BY <1>3 DEF SetToSeq
<1>4a. t = [k \in DOMAIN those |-> s[those[k]]]
  OBVIOUS
<1> HIDE DEF those
<1>5. \A k \in DOMAIN t : those[k] \in I /\ t[k] = s[those[k]] /\ t[k] \in S
  BY <1>4, <1>4a
<1>6. DOMAIN t = 1..Cardinality(I)
  BY <1>4, <1>4a
<1>7. t \in Seq(S) /\ Len(t) = Cardinality(I)
  BY <1>2, <1>5, <1>6
<1> QED BY <1>2, <1>5, <1>7
-----------------------------------------------------------------------------
(* What the kinds of calls change.                                         *)
Kinds == OfAdmins \cup OfUsers \cup {"bootstrap"}
\* Sets, kind by kind.
LEMMA WhatKindsSet ==
  /\ Sets["promote"] = [admin |-> TRUE] /\ Sets["demote"] = [admin |-> FALSE]
  /\ Sets["suspend"] = [suspended |-> TRUE] /\ Sets["unsuspend"] = [suspended |-> FALSE]
  /\ Sets["delete"] = [deleted |-> TRUE]
  /\ \A kind \in {"enable", "mode_on", "vehicle"} : Sets[kind] = [driver |-> TRUE]
  /\ \A kind \in {"disable", "mode_off"} : Sets[kind] = [driver |-> FALSE]
  /\ Sets["facebook"] = [linked |-> TRUE]
  /\ \A kind \in {"profile", "signup", "setting"} : Sets[kind] = << >>
  /\ Sets["bootstrap"] = [admin |-> TRUE, suspended |-> FALSE, deleted |-> FALSE]
BY DEF Sets
\* A changed row is a row.
LEMMA ChangedType ==
  ASSUME NEW kind \in Kinds, NEW r \in Row
  PROVE  Changed(kind, r) \in Row
<1>1. ASSUME NEW f \in Fields, f \in DOMAIN Sets[kind]
      PROVE  Sets[kind][f] \in BOOLEAN
  <2>1. Sets[kind][f] = TRUE \/ Sets[kind][f] = FALSE
    BY <1>1, WhatKindsSet DEF Kinds, OfAdmins, OfUsers
  <2> QED BY <2>1, Zenon
<1>2. \A f \in Fields : r[f] \in BOOLEAN
  BY DEF Row
<1> DEFINE w(f) == IF f \in DOMAIN Sets[kind] THEN Sets[kind][f] ELSE r[f]
<1>3. \A f \in Fields : w(f) \in BOOLEAN
  BY <1>1, <1>2
<1>4. Changed(kind, r) = [f \in Fields |-> w(f)]
  BY DEF Changed
<1> HIDE DEF w
<1> QED BY <1>3, <1>4 DEF Row
\* Which kinds touch what makes an active admin.
LEMMA ChangedFields ==
  ASSUME NEW kind \in Kinds, NEW r \in Row
  PROVE  /\ kind \notin {"promote", "demote", "bootstrap"} => Changed(kind, r).admin = r.admin
         /\ kind \notin {"suspend", "unsuspend", "bootstrap"} => Changed(kind, r).suspended = r.suspended
         /\ kind \notin {"delete", "bootstrap"} => Changed(kind, r).deleted = r.deleted
         /\ kind = "suspend" => Changed(kind, r).suspended
         /\ kind = "delete" => Changed(kind, r).deleted
         /\ kind = "bootstrap" => /\ Changed(kind, r).admin
                                  /\ ~Changed(kind, r).suspended /\ ~Changed(kind, r).deleted
<1>1. \A f \in Fields : Changed(kind, r)[f] = IF f \in DOMAIN Sets[kind] THEN Sets[kind][f] ELSE r[f]
  BY DEF Changed
<1>2. kind \notin {"promote", "demote", "bootstrap"} => "admin" \notin DOMAIN Sets[kind]
  BY WhatKindsSet DEF Kinds, OfAdmins, OfUsers
<1>3. kind \notin {"suspend", "unsuspend", "bootstrap"} => "suspended" \notin DOMAIN Sets[kind]
  BY WhatKindsSet DEF Kinds, OfAdmins, OfUsers
<1>4. kind \notin {"delete", "bootstrap"} => "deleted" \notin DOMAIN Sets[kind]
  BY WhatKindsSet DEF Kinds, OfAdmins, OfUsers
<1>5. kind = "suspend" => Changed(kind, r).suspended
  BY <1>1, WhatKindsSet DEF Fields
<1>6. kind = "delete" => Changed(kind, r).deleted
  BY <1>1, WhatKindsSet DEF Fields
<1>7. kind = "bootstrap" => /\ Changed(kind, r).admin
                            /\ ~Changed(kind, r).suspended /\ ~Changed(kind, r).deleted
  BY <1>1, WhatKindsSet DEF Fields
<1> QED BY <1>1, <1>2, <1>3, <1>4, <1>5, <1>6, <1>7 DEF Fields

-----------------------------------------------------------------------------
(* Types.                                                                  *)
Stages == {"arrived", "looked", "guarded", "found", "new", "diffed",
           "absent", "differs", "same", "stored", "saved"}
\* A handler that moves on is a handler.
LEMMA HandlerAt ==
  ASSUME NEW h \in Handler, NEW s \in Stages, NEW c \in Row, NEW w \in SUBSET Fields
  PROVE  /\ [h EXCEPT !.stage = s] \in Handler
         /\ [h EXCEPT !.stage = s, !.copy = c] \in Handler
         /\ [h EXCEPT !.stage = s, !.writes = w] \in Handler
         /\ [h EXCEPT !.stage = s, !.copy = c, !.writes = w] \in Handler
         /\ [h EXCEPT !.crossed = TRUE] \in Handler
BY DEF Handler, Stages
LEMMA BlankType == Blank \in Row
BY DEF Blank, Row

\* A call that comes is well typed.
LEMMA StartedType ==
  ASSUME TypeOK, NEW kind \in Kinds, NEW a \in Accounts, NEW b \in Accounts,
         NEW v \in Values \cup {Default}, NEW s \in Stages, Starts(kind, a, b, v, s)
  PROVE  /\ handlers' \in Seq(Handler) /\ Len(handlers') <= MaxHandlers
         /\ made' \in 0..MaxCalls
<1> DEFINE h == [ kind |-> kind, actor |-> a, target |-> b, value |-> v, at |-> clock, stage |-> s,
                  copy |-> Blank, writes |-> {}, crossed |-> FALSE ]
<1>1. h \in Handler
  BY BlankType DEF TypeOK, Handler, Kinds, Stages
<1>2. handlers' = Append(handlers, h)
  BY DEF Starts
<1> HIDE DEF h
<1> QED BY <1>1, <1>2, OneAppended, BackOfficeAssumption DEF Starts, TypeOK

LEMMA ReplacedType ==
  ASSUME TypeOK, NEW i \in DOMAIN handlers, NEW h \in Handler, Replace(i, h)
  PROVE  handlers' \in Seq(Handler) /\ Len(handlers') <= MaxHandlers
BY OneReplaced DEF Replace, TypeOK
LEMMA LeftType ==
  ASSUME TypeOK, NEW i \in DOMAIN handlers, Leave(i)
  PROVE  handlers' \in Seq(Handler) /\ Len(handlers') <= MaxHandlers
BY OneRemoved, BackOfficeAssumption DEF Leave, TypeOK
\* So are the handlers after a save.
LEMMA SavedType ==
  ASSUME TypeOK, NEW i \in DOMAIN handlers
  PROVE  AfterSave(i, handlers[i]) \in Seq(Handler) /\ Len(AfterSave(i, handlers[i])) = Len(handlers)
<1>1. \A j \in DOMAIN handlers : handlers[j] \in Handler
  BY DEF TypeOK
<1>2. [handlers[i] EXCEPT !.stage = "saved", !.copy = Blank, !.writes = {}] \in Handler
  BY <1>1, HandlerAt, BlankType DEF Stages
<1>3. \A j \in DOMAIN handlers : [handlers[j] EXCEPT !.crossed = TRUE] \in Handler
  <2> TAKE j \in DOMAIN handlers
  <2> QED BY <1>1 DEF Handler
<1>4. \A j \in DOMAIN handlers : AfterSave(i, handlers[i])[j] \in Handler
  BY <1>1, <1>2, <1>3 DEF AfterSave
<1>5. DOMAIN handlers = 1..Len(handlers) /\ Len(handlers) \in Nat
  BY DEF TypeOK
<1> DEFINE t == AfterSave(i, handlers[i])
<1>6. t = [j \in DOMAIN t |-> t[j]] /\ DOMAIN t = 1..Len(handlers)
  BY <1>5 DEF AfterSave
<1>7. \A j \in 1..Len(handlers) : t[j] \in Handler
  BY <1>4, <1>5
<1> HIDE DEF t
<1>8. t \in [1..Len(handlers) -> Handler]
  BY <1>6, <1>7
<1>9. t \in Seq(Handler) /\ Len(t) = Len(handlers)
  BY <1>8, <1>5
<1> QED BY <1>9 DEF t

\* What a restart leaves of the handlers.
LEMMA OutlivingType ==
  ASSUME handlers \in Seq(Handler)
  PROVE  /\ Outliving \in Seq(Handler) /\ Len(Outliving) <= Len(handlers)
         /\ \A k \in DOMAIN Outliving : \E i \in DOMAIN handlers :
              Outliving[k] = handlers[i] /\ handlers[i].kind = "bootstrap"
<1>1. OfScript \in SUBSET DOMAIN handlers /\ \A i \in OfScript : handlers[i].kind = "bootstrap"
  BY DEF OfScript
<1>2. Outliving = [k \in DOMAIN SetToSeq(OfScript) |-> handlers[SetToSeq(OfScript)[k]]]
  BY DEF Outliving
<1> HIDE DEF OfScript
<1>3. /\ Outliving \in Seq(Handler) /\ Len(Outliving) <= Len(handlers)
      /\ \A k \in DOMAIN Outliving : \E i \in OfScript : Outliving[k] = handlers[i]
  BY <1>1, <1>2, SomeKept
<1> QED BY <1>1, <1>3

LEMMA RowsType ==
  ASSUME TypeOK, NEW rs \in [Accounts -> Row], NEW now \in 0..MaxTime, Rows(rs, now)
  PROVE  row' \in [Accounts -> Row] /\ admin_at' \in [Accounts -> 0..MaxTime]
BY DEF Rows, TypeOK

LEMMA TypeInit == Init => TypeOK
<1> SUFFICES ASSUME Init PROVE TypeOK
  OBVIOUS
<1>1. row \in [Accounts -> Row]
  BY BlankType DEF Init, Row, Blank, Fields
<1>2. trust \in [Accounts -> Trust]
  BY DEF Init, Trust, Nobody
<1>3. admin_at \in [Accounts -> 0..MaxTime] /\ clock \in 0..MaxTime /\ made \in 0..MaxCalls
  BY BackOfficeAssumption DEF Init
<1>4. handlers \in Seq(Handler) /\ Len(handlers) <= MaxHandlers
  BY BackOfficeAssumption DEF Init
<1> QED BY <1>1, <1>2, <1>3, <1>4, BackOfficeAssumption DEF Init, TypeOK

\* Every action keeps the types.
LEMMA TypeStep ==
  ASSUME TypeOK, \A i \in DOMAIN handlers : Asked(handlers[i]), [Next]_vars
  PROVE  TypeOK'
<1>0. \A i \in DOMAIN handlers : handlers[i] \in Handler
  BY DEF TypeOK
<1>1. ASSUME NEW a \in Accounts, NEW b \in Accounts, NEW kind \in OfAdmins,
             NEW v \in Values \cup {Default}, CallAdmin(kind, a, b, v)
      PROVE  TypeOK'
  <2>1. PICK s \in Stages : Starts(kind, a, b, v, s)
    BY <1>1 DEF CallAdmin, Stages
  <2> QED BY <2>1, <1>1, StartedType DEF CallAdmin, TypeOK, Kinds
<1>2. ASSUME NEW a \in Accounts, NEW kind \in OfUsers, CallUser(kind, a)
      PROVE  TypeOK'
  <2>1. Starts(kind, a, a, Default, "guarded")
    BY <1>2 DEF CallUser
  <2> QED BY <2>1, <1>2, StartedType DEF CallUser, TypeOK, Kinds, Stages
<1>3. ASSUME NEW a \in Accounts, DeleteVehicle(a)
      PROVE  TypeOK'
  BY <1>3, BackOfficeAssumption DEF DeleteVehicle, TypeOK
<1>4. ASSUME NEW i \in DOMAIN handlers, Look(i)
      PROVE  TypeOK'
  <2>1. row[handlers[i].actor] \in Row
    BY <1>0 DEF TypeOK, Handler
  <2>2. [handlers[i] EXCEPT !.stage = "looked", !.copy = row[handlers[i].actor]] \in Handler
    BY <2>1, <1>0, HandlerAt DEF Stages
  <2> QED BY <2>2, <1>4, ReplacedType DEF Look, TypeOK
<1>5. ASSUME NEW i \in DOMAIN handlers, Judge(i)
      PROVE  TypeOK'
  <2> DEFINE h == handlers[i]
             t == IF h.copy.deleted THEN Nobody
                  ELSE [admin |-> h.copy.admin, suspended |-> h.copy.suspended, until |-> Until(h)]
             g == [h EXCEPT !.stage = "guarded", !.copy = Blank]
  <2>1. t \in Trust
    <3>1. Until(h) \in Nat /\ h.copy.admin \in BOOLEAN /\ h.copy.suspended \in BOOLEAN
      BY <1>0, BackOfficeAssumption DEF Handler, Until, Row, Fields
    <3> QED BY <3>1 DEF Trust, Nobody
  <2>2. g \in Handler
    BY <1>0, HandlerAt, BlankType DEF Stages
  <2>3. trust' = [trust EXCEPT ![h.actor] = t] /\ (Replace(i, g) \/ Leave(i))
    BY <1>5 DEF Judge
  <2>4. UNCHANGED <<row, known, garage, setting, clock, made, admin_at, raced>>
    BY <1>5 DEF Judge
  <2> HIDE DEF t, g
  <2>5. trust' \in [Accounts -> Trust]
    BY <2>1, <2>3 DEF TypeOK
  <2>6. handlers' \in Seq(Handler) /\ Len(handlers') <= MaxHandlers
    BY <2>2, <2>3, ReplacedType, LeftType
  <2> QED BY <2>4, <2>5, <2>6 DEF TypeOK
<1>6. ASSUME NEW i \in DOMAIN handlers, Find(i)
      PROVE  TypeOK'
  <2> DEFINE h == handlers[i]
             r == row[h.target]
  <2>1. h \in Handler /\ r \in Row /\ h.kind \in Kinds /\ h.target \in Accounts
    BY <1>0 DEF TypeOK, Handler, Kinds
  <2>2. [h EXCEPT !.stage = "new"] \in Handler
    BY <2>1, HandlerAt, BlankType DEF Stages
  <2>3. [h EXCEPT !.stage = "found", !.copy = Changed(h.kind, r)] \in Handler
    BY <2>1, HandlerAt, ChangedType DEF Stages
  <2>4. handlers' \in Seq(Handler) /\ Len(handlers') <= MaxHandlers
    BY <1>6, <2>2, <2>3, ReplacedType, LeftType DEF Find
  <2>5. garage' \subseteq known
    <3>1. h.kind = "vehicle" => h.target \in known
      BY DEF Asked
    <3> QED BY <3>1, <1>6 DEF Find, TypeOK
  <2> QED BY <1>6, <2>4, <2>5 DEF Find, TypeOK
<1>7. ASSUME NEW i \in DOMAIN handlers, Create(i)
      PROVE  TypeOK'
  <2> DEFINE h == handlers[i]
             rs == [row EXCEPT ![h.target] = Changed(h.kind, Blank)]
  <2>1. h.kind \in Kinds /\ h.target \in Accounts
    BY <1>0 DEF Handler, Kinds
  <2>2. rs \in [Accounts -> Row]
    BY <2>1, ChangedType, BlankType DEF TypeOK
  <2>3. UNCHANGED <<row, admin_at>> \/ Rows(rs, clock)
    BY <1>7 DEF Create
  <2> HIDE DEF rs
  <2>4. row' \in [Accounts -> Row] /\ admin_at' \in [Accounts -> 0..MaxTime]
    BY <2>2, <2>3, RowsType DEF TypeOK
  <2>5. handlers' \in Seq(Handler) /\ Len(handlers') <= MaxHandlers
    BY <1>7, LeftType DEF Create
  <2> QED BY <1>7, <2>1, <2>4, <2>5 DEF Create, TypeOK
<1>8. ASSUME NEW i \in DOMAIN handlers, Diff(i)
      PROVE  TypeOK'
  <2> DEFINE w == { f \in Fields : handlers[i].copy[f] # row[handlers[i].target][f] }
  <2>1. [handlers[i] EXCEPT !.stage = "diffed", !.writes = w] \in Handler
    BY <1>0, HandlerAt, BlankType DEF Stages
  <2> QED BY <2>1, <1>8, ReplacedType DEF Diff, TypeOK
<1>9. ASSUME NEW i \in DOMAIN handlers, Save(i)
      PROVE  TypeOK'
  <2> DEFINE h == handlers[i]
             r == [f \in Fields |-> IF f \in h.writes THEN h.copy[f] ELSE row[h.target][f]]
             rs == [row EXCEPT ![h.target] = r]
  <2>1. h \in Handler /\ h.target \in Accounts /\ h.copy \in Row /\ row[h.target] \in Row
    BY <1>0 DEF Handler, TypeOK
  <2>2. r \in Row
    <3>1. \A f \in Fields : h.copy[f] \in BOOLEAN /\ row[h.target][f] \in BOOLEAN
      BY <2>1 DEF Row
    <3> QED BY <3>1 DEF Row
  <2>3. Rows(rs, clock)
    BY <1>9 DEF Save
  <2> HIDE DEF r
  <2>4. rs \in [Accounts -> Row]
    BY <2>2 DEF TypeOK
  <2> HIDE DEF rs
  <2>5. row' \in [Accounts -> Row] /\ admin_at' \in [Accounts -> 0..MaxTime]
    BY <2>3, <2>4, RowsType DEF TypeOK
  <2>6. handlers' \in Seq(Handler) /\ Len(handlers') <= MaxHandlers
    <3>1. handlers' = AfterSave(i, handlers[i])
      BY <1>9 DEF Save
    <3> QED BY <3>1, SavedType DEF TypeOK
  <2>7. garage' \subseteq known
    <3>1. h.kind = "vehicle" => h.target \in known
      BY DEF Asked
    <3> QED BY <3>1, <1>9 DEF Save, TypeOK
  <2>8. raced' \subseteq {"account", "setting"}
    BY <1>9 DEF Save, TypeOK
  <2>9. UNCHANGED <<known, setting, trust, clock, made>>
    BY <1>9 DEF Save
  <2> QED BY <2>5, <2>6, <2>7, <2>8, <2>9 DEF TypeOK
<1>10. ASSUME NEW i \in DOMAIN handlers, DiffSetting(i) \/ SaveSetting(i)
       PROVE  TypeOK'
  <2>1. \A stage \in Stages : [handlers[i] EXCEPT !.stage = stage] \in Handler
    <3>1. handlers[i] \in Handler
      BY <1>0
    <3> QED BY <3>1 DEF Handler, Stages
  <2>2. (\E stage \in Stages : Replace(i, [handlers[i] EXCEPT !.stage = stage])) \/ Leave(i)
    BY <1>10 DEF DiffSetting, SaveSetting, Stages
  <2>3. handlers' \in Seq(Handler) /\ Len(handlers') <= MaxHandlers
    BY <2>1, <2>2, ReplacedType, LeftType
  <2>4. handlers[i].value \in Values \cup {Default}
    BY <1>0 DEF Handler
  <2>5. setting' = setting \/ setting' = [setting EXCEPT !.there = TRUE, !.row = handlers[i].value]
    BY <1>10 DEF DiffSetting, SaveSetting
  <2>6. setting' \in [there : BOOLEAN, row : Values \cup {Default}, cache : Values \cup {Default}]
    BY <2>4, <2>5 DEF TypeOK
  <2>7. raced' \subseteq {"account", "setting"} /\ UNCHANGED <<row, known, garage, trust, clock, made, admin_at>>
    BY <1>10 DEF DiffSetting, SaveSetting, TypeOK
  <2> QED BY <2>3, <2>6, <2>7 DEF TypeOK
<1>11. ASSUME NEW i \in DOMAIN handlers, CacheSetting(i)
       PROVE  TypeOK'
  <2>1. [handlers[i] EXCEPT !.stage = "saved"] \in Handler
    BY <1>0, HandlerAt, BlankType DEF Stages
  <2>2. handlers' \in Seq(Handler) /\ Len(handlers') <= MaxHandlers
    BY <2>1, <1>11, ReplacedType DEF CacheSetting
  <2>3. handlers[i].value \in Values \cup {Default}
    BY <1>0 DEF Handler
  <2>4. setting' \in [there : BOOLEAN, row : Values \cup {Default}, cache : Values \cup {Default}]
    BY <2>3, <1>11 DEF CacheSetting, TypeOK
  <2> QED BY <2>2, <2>4, <1>11 DEF CacheSetting, TypeOK
<1>12. ASSUME NEW i \in DOMAIN handlers, Record(i)
       PROVE  TypeOK'
  BY <1>12, LeftType DEF Record, TypeOK
<1>13. ASSUME NEW i \in DOMAIN handlers, Fail(i)
       PROVE  TypeOK'
  <2>1. raced' \subseteq {"account", "setting"}
    BY <1>13 DEF Fail, TypeOK
  <2> QED BY <2>1, <1>13, LeftType DEF Fail, TypeOK
<1>14. CASE RunScript
  <2>1. Starts("bootstrap", Bootstrap, Bootstrap, Default, "guarded")
    BY <1>14 DEF RunScript
  <2> QED BY <2>1, <1>14, StartedType, BackOfficeAssumption DEF RunScript, TypeOK, Kinds, Stages
<1>15. CASE Restart
  <2>1. handlers' \in Seq(Handler) /\ Len(handlers') <= MaxHandlers
    <3>1. handlers' = Outliving
      BY <1>15 DEF Restart
    <3>2. Len(handlers) \in Nat /\ Len(handlers) <= MaxHandlers /\ MaxHandlers \in Nat
      BY BackOfficeAssumption DEF TypeOK
    <3>3. handlers' \in Seq(Handler) /\ Len(handlers') <= Len(handlers)
      BY <3>1, OutlivingType DEF TypeOK
    <3> QED BY <3>2, <3>3
  <2>2. /\ row' \in [Accounts -> Row] /\ admin_at' \in [Accounts -> 0..MaxTime]
        /\ known' \in SUBSET Accounts /\ known \subseteq known'
    <3> DEFINE rs == [row EXCEPT ![Bootstrap] = Changed("bootstrap", row[Bootstrap])]
    <3>1. rs \in [Accounts -> Row]
      BY ChangedType, BackOfficeAssumption DEF TypeOK, Kinds
    <3>2. UNCHANGED <<row, known, admin_at>> \/ (known' = known \cup {Bootstrap} /\ Rows(rs, clock))
      BY <1>15 DEF Restart, BootstrapAdmin
    <3> HIDE DEF rs
    <3> QED BY <3>1, <3>2, RowsType, BackOfficeAssumption DEF TypeOK
  <2>3. trust' \in [Accounts -> Trust]
    BY <1>15 DEF Restart, Trust, Nobody
  <2>4. /\ setting' \in [there : BOOLEAN, row : Values \cup {Default}, cache : Values \cup {Default}]
        /\ raced' \subseteq {"account", "setting"}
    BY <1>15 DEF Restart, Hydrate, TypeOK
  <2>5. made' \in 0..MaxCalls /\ UNCHANGED <<garage, clock>>
    BY <1>15, BackOfficeAssumption DEF Restart, TypeOK
  <2> QED BY <2>1, <2>2, <2>3, <2>4, <2>5 DEF TypeOK
<1>16. CASE Tick
  <2>1. clock' \in 0..MaxTime /\ clock' = clock + 1 /\ Rows(row, clock + 1)
    BY <1>16, BackOfficeAssumption DEF Tick, TypeOK
  <2>2. row' \in [Accounts -> Row] /\ admin_at' \in [Accounts -> 0..MaxTime]
    BY <2>1, RowsType DEF TypeOK
  <2> QED BY <2>1, <2>2, <1>16 DEF Tick, TypeOK
<1>17. CASE UNCHANGED vars
  BY <1>17 DEF vars, TypeOK
<1> QED
  BY <1>1, <1>2, <1>3, <1>4, <1>5, <1>6, <1>7, <1>8, <1>9, <1>10, <1>11, <1>12, <1>13, <1>14,
     <1>15, <1>16, <1>17 DEF Next, Serve

-----------------------------------------------------------------------------
(* What a step may do to a handler.                                        *)
Arrives(h) ==
  /\ h.at = clock /\ h.stage \in {"arrived", "guarded"}
  /\ h.kind \in OfAdmins => h.actor \in known
  /\ h.kind \notin {"signup", "facebook", "bootstrap"} => h.target \in known
  /\ h.kind = "bootstrap" => h.target = Bootstrap
  /\ h.kind \in OfAdmins /\ h.stage = "guarded" => MayPass(trust[h.actor]) /\ clock < trust[h.actor].until
Becomes(h, g) ==
  \/ g = h
  \/ h.stage = "arrived" /\ g = [h EXCEPT !.stage = "looked", !.copy = row[h.actor]]
  \/ h.stage = "looked" /\ Active(h.copy) /\ g = [h EXCEPT !.stage = "guarded", !.copy = Blank]
  \/ h.stage = "guarded" /\ h.kind # "setting" /\ g = [h EXCEPT !.stage = "new"]
  \/ /\ h.stage = "guarded" /\ h.kind # "setting" /\ h.target \in known /\ Accepts(h, row[h.target])
     /\ g = [h EXCEPT !.stage = "found", !.copy = Changed(h.kind, row[h.target])]
  \/ /\ h.stage = "found"
     /\ g = [h EXCEPT !.stage = "diffed", !.writes = { f \in Fields : h.copy[f] # row[h.target][f] }]
  \/ h.stage = "diffed" /\ g = [h EXCEPT !.stage = "saved", !.copy = Blank, !.writes = {}]
  \/ h.stage \in {"found", "diffed"} /\ g = [h EXCEPT !.crossed = TRUE]
  \/ h.stage = "guarded" /\ h.kind = "setting" /\ \E s \in Storing : g = [h EXCEPT !.stage = s]
  \/ h.stage \in Storing /\ g = [h EXCEPT !.stage = "stored"]
  \/ h.stage = "stored" /\ g = [h EXCEPT !.stage = "saved"]
Flow == \A k \in DOMAIN handlers' :
          Arrives(handlers'[k]) \/ \E i \in DOMAIN handlers : Becomes(handlers[i], handlers'[k])

\* What a handler keeps on its way, and where it was before it is where it is.
LEMMA BecomesWhat ==
  ASSUME NEW h \in Handler, NEW g, Becomes(h, g)
  PROVE  /\ g.at = h.at /\ g.kind = h.kind /\ g.actor = h.actor /\ g.target = h.target /\ g.value = h.value
         /\ g.stage = "looked" =>
              \/ h.stage = "looked" /\ g.copy = h.copy
              \/ h.stage = "arrived" /\ g.copy = row[h.actor]
         /\ g.stage \notin {"arrived", "looked"} =>
              h.stage \notin {"arrived", "looked"} \/ (h.stage = "looked" /\ Active(h.copy))
         /\ g.stage \in {"found", "diffed"} => h.stage \in {"found", "diffed"} \/ h.target \in known
         /\ g.stage \in Storing => h.stage \in Storing \/ h.kind = "setting"
<1>1. CASE g = h
  BY <1>1
<1>2. CASE h.stage = "arrived" /\ g = [h EXCEPT !.stage = "looked", !.copy = row[h.actor]]
  BY <1>2 DEF Handler, Storing
<1>3. CASE h.stage = "looked" /\ Active(h.copy) /\ g = [h EXCEPT !.stage = "guarded", !.copy = Blank]
  BY <1>3 DEF Handler, Storing
<1>4. CASE h.stage = "guarded" /\ g = [h EXCEPT !.stage = "new"]
  BY <1>4 DEF Handler, Storing
<1>5. CASE /\ h.stage = "guarded" /\ h.target \in known
           /\ g = [h EXCEPT !.stage = "found", !.copy = Changed(h.kind, row[h.target])]
  BY <1>5 DEF Handler, Storing
<1>6. CASE h.stage = "found" /\ \E w : g = [h EXCEPT !.stage = "diffed", !.writes = w]
  BY <1>6 DEF Handler, Storing
<1>7. CASE h.stage = "diffed" /\ g = [h EXCEPT !.stage = "saved", !.copy = Blank, !.writes = {}]
  BY <1>7 DEF Handler, Storing
<1>8. CASE h.stage \in {"found", "diffed"} /\ g = [h EXCEPT !.crossed = TRUE]
  BY <1>8 DEF Handler, Storing
<1>9. ASSUME h.stage = "guarded", h.kind = "setting", NEW s \in Storing, g = [h EXCEPT !.stage = s]
      PROVE  g.stage = s /\ g.at = h.at /\ g.kind = h.kind /\ g.actor = h.actor
             /\ g.target = h.target /\ g.value = h.value
  BY <1>9 DEF Handler, Storing
<1>11. CASE h.stage \in Storing /\ g = [h EXCEPT !.stage = "stored"]
  BY <1>11 DEF Handler, Storing
<1>10. CASE h.stage = "stored" /\ g = [h EXCEPT !.stage = "saved"]
  BY <1>10 DEF Handler, Storing
<1> QED BY <1>1, <1>2, <1>3, <1>4, <1>5, <1>6, <1>7, <1>8, <1>9, <1>10, <1>11 DEF Becomes, Storing

LEMMA ReplacedFlow ==
  ASSUME TypeOK, NEW i \in DOMAIN handlers, NEW h \in Handler, Replace(i, h), Becomes(handlers[i], h)
  PROVE  Flow
<1>1. /\ DOMAIN handlers' = DOMAIN handlers
      /\ handlers'[i] = h /\ \A k \in DOMAIN handlers \ {i} : handlers'[k] = handlers[k]
  BY OneReplaced DEF Replace, TypeOK
<1>2. \A k \in DOMAIN handlers : Becomes(handlers[k], handlers[k])
  BY DEF Becomes
<1> QED BY <1>1, <1>2 DEF Flow

LEMMA LeftFlow ==
  ASSUME TypeOK, NEW i \in DOMAIN handlers, Leave(i)
  PROVE  Flow
<1>1. \A k \in DOMAIN handlers' : \E j \in DOMAIN handlers : handlers'[k] = handlers[j]
  <2>1. \A k \in DOMAIN handlers' : handlers'[k] = handlers[Was(i, k)] /\ Was(i, k) \in DOMAIN handlers
    BY OneRemoved DEF Leave, TypeOK
  <2> QED BY <2>1
<1> QED BY <1>1 DEF Flow, Becomes

LEMMA StartedFlow ==
  ASSUME TypeOK, NEW kind \in Kinds, NEW a \in Accounts, NEW b \in Accounts,
         NEW v \in Values \cup {Default}, NEW s \in {"arrived", "guarded"}, Starts(kind, a, b, v, s),
         kind \in OfAdmins => a \in known,
         kind \notin {"signup", "facebook", "bootstrap"} => b \in known,
         kind = "bootstrap" => b = Bootstrap,
         kind \in OfAdmins /\ s = "guarded" => MayPass(trust[a]) /\ clock < trust[a].until
  PROVE  Flow
<1> DEFINE h == [ kind |-> kind, actor |-> a, target |-> b, value |-> v, at |-> clock, stage |-> s,
                  copy |-> Blank, writes |-> {}, crossed |-> FALSE ]
<1>1. h \in Handler
  BY BlankType DEF TypeOK, Handler, Kinds
<1>2. handlers' = Append(handlers, h)
  BY DEF Starts
<1>3. Arrives(h)
  BY DEF Arrives
<1> HIDE DEF h
<1>4. /\ DOMAIN handlers' = DOMAIN handlers \cup {Len(handlers) + 1}
      /\ handlers'[Len(handlers) + 1] = h /\ \A k \in DOMAIN handlers : handlers'[k] = handlers[k]
  BY <1>1, <1>2, OneAppended DEF TypeOK
<1>5. \A k \in DOMAIN handlers : Becomes(handlers[k], handlers[k])
  BY DEF Becomes
<1> QED BY <1>3, <1>4, <1>5 DEF Flow

\* Whatever the step, a handler of the new state is one of the old that moved on, or has just arrived.
LEMMA EveryFlow ==
  ASSUME TypeOK, [Next]_vars
  PROVE  Flow
<1>0. \A i \in DOMAIN handlers : handlers[i] \in Handler
  BY DEF TypeOK
<1>1. ASSUME NEW a \in Accounts, NEW b \in Accounts, NEW kind \in OfAdmins,
             NEW v \in Values \cup {Default}, CallAdmin(kind, a, b, v)
      PROVE  Flow
  <2>1. kind \in Kinds /\ kind # "bootstrap" /\ a \in known /\ b \in known
    BY <1>1 DEF CallAdmin, Kinds, OfAdmins
  <2>2. CASE trust[a].until > clock
    <3>1. MayPass(trust[a]) /\ Starts(kind, a, b, v, "guarded") /\ clock < trust[a].until
      BY <1>1, <2>2 DEF CallAdmin, TypeOK, Trust
    <3> QED BY <2>1, <3>1, StartedFlow
  <2>3. CASE ~(trust[a].until > clock)
    <3>1. Starts(kind, a, b, v, "arrived")
      BY <1>1, <2>3 DEF CallAdmin
    <3> QED BY <2>1, <3>1, StartedFlow
  <2> QED BY <2>2, <2>3
<1>2. ASSUME NEW a \in Accounts, NEW kind \in OfUsers, CallUser(kind, a)
      PROVE  Flow
  <2>1. kind \in Kinds /\ kind # "bootstrap" /\ kind \notin OfAdmins
    BY DEF Kinds, OfAdmins, OfUsers
  <2>2. Starts(kind, a, a, Default, "guarded") /\ (kind \notin {"signup", "facebook"} => a \in known)
    BY <1>2 DEF CallUser
  <2> QED BY <2>1, <2>2, StartedFlow
<1>3. ASSUME UNCHANGED handlers
      PROVE  Flow
  BY <1>3 DEF Flow, Becomes
<1>4. ASSUME NEW i \in DOMAIN handlers, Look(i)
      PROVE  Flow
  <2> DEFINE g == [handlers[i] EXCEPT !.stage = "looked", !.copy = row[handlers[i].actor]]
  <2>1. g \in Handler
    <3>1. row[handlers[i].actor] \in Row
      BY <1>0 DEF TypeOK, Handler
    <3> QED BY <3>1, <1>0, HandlerAt DEF Stages
  <2>2. Becomes(handlers[i], g) /\ Replace(i, g)
    BY <1>4 DEF Look, Becomes
  <2> QED BY <2>1, <2>2, ReplacedFlow
<1>5. ASSUME NEW i \in DOMAIN handlers, Judge(i)
      PROVE  Flow
  <2> DEFINE h == handlers[i]
             g == [h EXCEPT !.stage = "guarded", !.copy = Blank]
  <2>1. g \in Handler
    BY <1>0, HandlerAt, BlankType DEF Stages
  <2>2. CASE Active(h.copy)
    <3>1. Becomes(h, g)
      BY <2>2, <1>5 DEF Judge, Becomes
    <3>2. Replace(i, g) \/ Leave(i)
      BY <1>5 DEF Judge
    <3> QED BY <2>1, <3>1, <3>2, ReplacedFlow, LeftFlow
  <2>3. CASE ~Active(h.copy)
    <3>1. Leave(i)
      BY <1>5, <2>3 DEF Judge, Active, MayPass, Nobody
    <3> QED BY <3>1, LeftFlow
  <2> QED BY <2>2, <2>3
<1>6. ASSUME NEW i \in DOMAIN handlers, Find(i)
      PROVE  Flow
  <2> DEFINE h == handlers[i]
             new == [h EXCEPT !.stage = "new"]
             found == [h EXCEPT !.stage = "found", !.copy = Changed(h.kind, row[h.target])]
  <2>1. new \in Handler /\ found \in Handler
    <3>1. h.kind \in Kinds /\ row[h.target] \in Row
      BY <1>0 DEF TypeOK, Handler, Kinds
    <3> QED BY <3>1, <1>0, HandlerAt, ChangedType, BlankType DEF Stages
  <2>2. CASE h.target \notin known
    <3>1. Replace(i, new) /\ Becomes(h, new)
      BY <1>6, <2>2 DEF Find, Becomes
    <3> QED BY <2>1, <3>1, ReplacedFlow
  <2>3. CASE h.target \in known /\ Accepts(h, row[h.target])
    <3>1. Leave(i) \/ Replace(i, found)
      BY <1>6, <2>3 DEF Find
    <3>2. Becomes(h, found)
      BY <1>6, <2>3 DEF Find, Becomes
    <3> QED BY <2>1, <3>1, <3>2, ReplacedFlow, LeftFlow
  <2>4. CASE h.target \in known /\ ~Accepts(h, row[h.target])
    <3>1. Leave(i)
      BY <1>6, <2>4 DEF Find
    <3> QED BY <3>1, LeftFlow
  <2> QED BY <2>2, <2>3, <2>4
<1>7. ASSUME NEW i \in DOMAIN handlers, Leave(i)
      PROVE  Flow
  BY <1>7, LeftFlow
<1>8. ASSUME NEW i \in DOMAIN handlers, Diff(i)
      PROVE  Flow
  <2> DEFINE w == { f \in Fields : handlers[i].copy[f] # row[handlers[i].target][f] }
             g == [handlers[i] EXCEPT !.stage = "diffed", !.writes = w]
  <2>1. g \in Handler
    BY <1>0, HandlerAt, BlankType DEF Stages
  <2>2. Becomes(handlers[i], g) /\ Replace(i, g)
    BY <1>8 DEF Diff, Becomes
  <2> QED BY <2>1, <2>2, ReplacedFlow
<1>9. ASSUME NEW i \in DOMAIN handlers, Save(i)
      PROVE  Flow
  <2>1. handlers' = AfterSave(i, handlers[i]) /\ handlers[i].stage = "diffed"
    BY <1>9 DEF Save
  <2>2. ASSUME NEW j \in DOMAIN handlers
        PROVE  Becomes(handlers[j], handlers'[j])
    BY <2>1 DEF AfterSave, Becomes
  <2>3. DOMAIN handlers' = DOMAIN handlers
    BY <2>1 DEF AfterSave
  <2> QED BY <2>2, <2>3 DEF Flow
<1>10. ASSUME NEW i \in DOMAIN handlers, DiffSetting(i) \/ SaveSetting(i)
       PROVE  Flow
  <2>1. \A s \in Storing : [handlers[i] EXCEPT !.stage = s] \in Handler
    BY <1>0, HandlerAt, BlankType DEF Stages, Storing
  <2>2. \/ Leave(i)
        \/ \E s \in Storing : /\ Becomes(handlers[i], [handlers[i] EXCEPT !.stage = s])
                              /\ Replace(i, [handlers[i] EXCEPT !.stage = s])
    <3>1. CASE DiffSetting(i)
      <4>1. /\ handlers[i].stage = "guarded" /\ handlers[i].kind = "setting"
            /\ \E s \in Storing : Replace(i, [handlers[i] EXCEPT !.stage = s])
        BY <3>1 DEF DiffSetting, Storing
      <4> QED BY <4>1 DEF Becomes
    <3>2. CASE SaveSetting(i)
      <4>1. /\ handlers[i].stage \in Storing
            /\ Leave(i) \/ Replace(i, [handlers[i] EXCEPT !.stage = "stored"])
        BY <3>2 DEF SaveSetting, Storing
      <4> QED BY <4>1 DEF Becomes, Storing
    <3> QED BY <3>1, <3>2, <1>10
  <2> QED BY <2>1, <2>2, ReplacedFlow, LeftFlow
<1>11. ASSUME NEW i \in DOMAIN handlers, CacheSetting(i)
       PROVE  Flow
  <2> DEFINE g == [handlers[i] EXCEPT !.stage = "saved"]
  <2>1. g \in Handler
    BY <1>0, HandlerAt, BlankType DEF Stages
  <2>2. Becomes(handlers[i], g) /\ Replace(i, g)
    BY <1>11 DEF CacheSetting, Becomes
  <2> QED BY <2>1, <2>2, ReplacedFlow
<1>12. CASE RunScript
  <2>1. Starts("bootstrap", Bootstrap, Bootstrap, Default, "guarded")
    BY <1>12 DEF RunScript
  <2>2. "bootstrap" \in Kinds /\ "bootstrap" \notin OfAdmins
    BY DEF Kinds, OfAdmins
  <2> QED BY <2>1, <2>2, StartedFlow, BackOfficeAssumption
<1>13. CASE Restart
  <2>1. \A k \in DOMAIN handlers' : \E i \in DOMAIN handlers : handlers'[k] = handlers[i]
    BY <1>13, OutlivingType DEF Restart, TypeOK
  <2> QED BY <2>1 DEF Flow, Becomes
<1> QED
  <2>1. ASSUME NEW i \in DOMAIN handlers, Create(i) \/ Record(i) \/ Fail(i)
        PROVE  Leave(i)
    BY <2>1 DEF Create, Record, Fail
  <2>2. ASSUME Tick \/ (\E a \in Accounts : DeleteVehicle(a)) \/ UNCHANGED vars
        PROVE  UNCHANGED handlers
    BY <2>2 DEF Tick, DeleteVehicle, vars
  <2> QED
    BY <1>1, <1>2, <1>3, <1>4, <1>5, <1>6, <1>7, <1>8, <1>9, <1>10, <1>11, <1>12, <1>13, <2>1, <2>2
    DEF Next, Serve

-----------------------------------------------------------------------------
(* Time, and who is an admin.                                              *)
LEMMA RowsDated ==
  ASSUME TypeOK, Dated, NEW rs, NEW now \in Nat, clock <= now, clock' = now, Rows(rs, now)
  PROVE  Dated' /\ \A a \in Accounts : admin_at[a] <= admin_at'[a]
<1>1. \A a \in Accounts :
        admin_at'[a] = IF Active(row[a]) \/ Active(rs[a]) THEN now ELSE admin_at[a]
  BY DEF Rows
<1>2. \A a \in Accounts : admin_at[a] \in Nat /\ admin_at[a] <= clock
  BY DEF TypeOK, Dated
<1>3. row' = rs /\ clock \in Nat
  BY DEF Rows, TypeOK
<1> QED BY <1>1, <1>2, <1>3 DEF Dated

\* Accounts, clock and the time of the last admin rights only grow.
LEMMA WorldStep ==
  ASSUME TypeOK, Dated, [Next]_vars
  PROVE  /\ known \subseteq known' /\ clock <= clock'
         /\ \A a \in Accounts : admin_at[a] <= admin_at'[a]
         /\ Dated'
<1>0. clock \in Nat /\ \A a \in Accounts : admin_at[a] \in Nat
  BY DEF TypeOK
<1> DEFINE World == /\ known \subseteq known' /\ clock <= clock'
                    /\ \A a \in Accounts : admin_at[a] <= admin_at'[a]
                    /\ Dated'
<1>1. ASSUME UNCHANGED <<row, known, clock, admin_at>>
      PROVE  World
  BY <1>0, <1>1 DEF Dated, Active
<1>2. ASSUME NEW i \in DOMAIN handlers, Create(i)
      PROVE  World
  <2>1. UNCHANGED <<row, admin_at>> \/ \E rs : Rows(rs, clock)
    BY <1>2 DEF Create
  <2>2. UNCHANGED clock /\ known \subseteq known'
    BY <1>2 DEF Create
  <2>3. CASE UNCHANGED <<row, admin_at>>
    BY <1>0, <2>2, <2>3 DEF Dated, Active
  <2>4. CASE \E rs : Rows(rs, clock)
    BY <1>0, <2>2, <2>4, RowsDated
  <2> QED BY <2>1, <2>3, <2>4
<1>3. ASSUME NEW i \in DOMAIN handlers, Save(i)
      PROVE  World
  <2>1. UNCHANGED <<clock, known>> /\ \E rs : Rows(rs, clock)
    BY <1>3 DEF Save
  <2> QED BY <1>0, <2>1, RowsDated
<1>4. CASE Restart
  <2>1. UNCHANGED clock
    BY <1>4 DEF Restart
  <2>2. CASE UNCHANGED <<row, known, admin_at>>
    BY <1>1, <2>1, <2>2
  <2>3. CASE known \subseteq known' /\ \E rs : Rows(rs, clock)
    BY <1>0, <2>1, <2>3, RowsDated
  <2> QED BY <1>4, <2>2, <2>3 DEF Restart, BootstrapAdmin
<1>5. CASE Tick
  <2>1. clock' = clock + 1 /\ UNCHANGED known /\ \E rs : Rows(rs, clock + 1)
    BY <1>5 DEF Tick
  <2> QED BY <1>0, <2>1, RowsDated
<1> QED
  <2>1. ASSUME NEW i \in DOMAIN handlers,
               Look(i) \/ Judge(i) \/ Find(i) \/ Diff(i) \/ DiffSetting(i) \/ SaveSetting(i)
               \/ CacheSetting(i) \/ Record(i) \/ Fail(i)
        PROVE  UNCHANGED <<row, known, clock, admin_at>>
    BY <2>1 DEF Look, Judge, Find, Diff, DiffSetting, SaveSetting, CacheSetting, Record, Fail
  <2>2. ASSUME NEW a \in Accounts, DeleteVehicle(a) \/ \E kind \in OfUsers : CallUser(kind, a)
        PROVE  UNCHANGED <<row, known, clock, admin_at>>
    BY <2>2 DEF DeleteVehicle, CallUser
  <2>3. ASSUME NEW a \in Accounts, NEW b \in Accounts, NEW kind \in OfAdmins,
               NEW v \in Values \cup {Default}, CallAdmin(kind, a, b, v)
        PROVE  UNCHANGED <<row, known, clock, admin_at>>
    BY <2>3 DEF CallAdmin
  <2>4. ASSUME RunScript \/ UNCHANGED vars
        PROVE  UNCHANGED <<row, known, clock, admin_at>>
    BY <2>4 DEF RunScript, vars
  <2> QED BY <1>1, <1>2, <1>3, <1>4, <1>5, <2>1, <2>2, <2>3, <2>4 DEF Next, Serve

-----------------------------------------------------------------------------
(* The guard.                                                              *)
\* What a call settled stays true of it.
LEMMA AskedStep ==
  ASSUME TypeOK, Dated, \A i \in DOMAIN handlers : Asked(handlers[i]), [Next]_vars
  PROVE  \A i \in DOMAIN handlers' : Asked(handlers[i])'
<1> SUFFICES ASSUME NEW k \in DOMAIN handlers'
             PROVE  Asked(handlers[k])'
  OBVIOUS
<1>1. known \subseteq known' /\ clock <= clock' /\ clock \in Nat /\ clock' \in Nat
  <2>1. TypeOK'
    BY TypeStep
  <2> QED BY <2>1, WorldStep DEF TypeOK
<1>2. CASE Arrives(handlers'[k])
  BY <1>1, <1>2 DEF Arrives, Asked, Storing
<1>3. ASSUME NEW i \in DOMAIN handlers, Becomes(handlers[i], handlers'[k])
      PROVE  Asked(handlers[k])'
  <2> DEFINE h == handlers[i]
             g == handlers'[k]
  <2>1. Asked(h) /\ h \in Handler /\ g \in Handler
    BY TypeStep DEF TypeOK
  <2>2. g.at = h.at /\ g.kind = h.kind /\ g.actor = h.actor /\ g.target = h.target
    BY <1>3, <2>1, BecomesWhat
  <2>3. /\ g.stage \in {"found", "diffed"} => h.stage \in {"found", "diffed"} \/ h.target \in known
        /\ g.stage \in Storing => h.stage \in Storing \/ h.kind = "setting"
    BY <1>3, <2>1, BecomesWhat
  <2>4. h.at \in Nat
    BY <2>1 DEF Handler
  <2> HIDE DEF h, g
  <2>5. /\ g.at <= clock'
        /\ g.kind \in OfAdmins => g.actor \in known'
        /\ g.kind \notin {"signup", "facebook", "bootstrap"} => g.target \in known'
        /\ g.kind = "bootstrap" => g.target = Bootstrap
        /\ g.stage \in {"found", "diffed"} => g.target \in known'
        /\ g.stage \in Storing => g.kind = "setting"
    BY <1>1, <2>1, <2>2, <2>3, <2>4 DEF Asked
  <2> QED BY <2>5 DEF Asked, g
<1> QED BY <1>2, <1>3, EveryFlow DEF Flow

\* The cache vouches for nobody longer than TTL after his rights.
LEMMA TrustedStep ==
  ASSUME TypeOK, Dated, Trusted, [Next]_vars,
         \A i \in DOMAIN handlers : Asked(handlers[i]) /\ Passed(handlers[i])
  PROVE  Trusted'
<1>0. /\ \A a \in Accounts : admin_at[a] <= admin_at'[a] /\ admin_at[a] \in Nat /\ admin_at'[a] \in Nat
      /\ TTL \in Nat
  <2>1. TypeOK'
    BY TypeStep
  <2>2. \A a \in Accounts : admin_at[a] \in Nat /\ admin_at'[a] \in Nat
    BY <2>1 DEF TypeOK
  <2>3. \A a \in Accounts : admin_at[a] <= admin_at'[a]
    BY WorldStep
  <2>4. TTL \in Nat \ {0} /\ clock \in Nat
    BY <2>1, BackOfficeAssumption DEF TypeOK
  <2> QED BY <2>2, <2>3, <2>4
<1>1. ASSUME UNCHANGED trust
      PROVE  Trusted'
  <2> SUFFICES ASSUME NEW a \in Accounts, MayPass(trust[a])
               PROVE  trust[a].until <= admin_at'[a] + TTL
    BY <1>1 DEF Trusted
  <2>1. trust[a].until <= admin_at[a] + TTL /\ trust[a].until \in Nat
    BY DEF Trusted, TypeOK, Trust
  <2> QED BY <2>1, <1>0
<1>2. ASSUME NEW i \in DOMAIN handlers, Judge(i)
      PROVE  Trusted'
  <2> DEFINE h == handlers[i]
             t == IF h.copy.deleted THEN Nobody
                  ELSE [admin |-> h.copy.admin, suspended |-> h.copy.suspended, until |-> Until(h)]
  <2>1. h \in Handler /\ h.stage = "looked" /\ trust' = [trust EXCEPT ![h.actor] = t] /\ UNCHANGED admin_at
    BY <1>2 DEF Judge, TypeOK
  <2>2. MayPass(t) => Active(h.copy) /\ t.until = h.at + TTL
    BY DEF MayPass, Active, Nobody, Until
  <2>3. Active(h.copy) => h.at <= admin_at[h.actor]
    BY <2>1 DEF Passed
  <2>4. h.at \in Nat /\ h.actor \in Accounts
    BY <2>1 DEF Handler
  <2>5. MayPass(t) => t.until <= admin_at[h.actor] + TTL
    BY <2>2, <2>3, <2>4, <1>0
  <2> HIDE DEF t
  <2>6. \A a \in Accounts : trust'[a] = IF a = h.actor THEN t ELSE trust[a]
    BY <2>1, <2>4 DEF TypeOK
  <2> QED BY <2>1, <2>5, <2>6 DEF Trusted
<1>3. CASE Restart
  BY <1>3 DEF Restart, Trusted, MayPass, Nobody
<1> QED
  <2>1. ASSUME NEW i \in DOMAIN handlers, Serve(i), ~Judge(i)
        PROVE  UNCHANGED trust
    BY <2>1 DEF Serve, Look, Find, Create, Diff, Save, DiffSetting, SaveSetting, CacheSetting, Record, Fail
  <2>2. ASSUME NEW a \in Accounts, DeleteVehicle(a) \/ \E kind \in OfUsers : CallUser(kind, a)
        PROVE  UNCHANGED trust
    BY <2>2 DEF DeleteVehicle, CallUser
  <2>3. ASSUME NEW a \in Accounts, NEW b \in Accounts, NEW kind \in OfAdmins,
               NEW v \in Values \cup {Default}, CallAdmin(kind, a, b, v)
        PROVE  UNCHANGED trust
    BY <2>3 DEF CallAdmin
  <2>4. ASSUME RunScript \/ Tick \/ UNCHANGED vars
        PROVE  UNCHANGED trust
    BY <2>4 DEF RunScript, Tick, vars
  <2> QED BY <1>1, <1>2, <1>3, <2>1, <2>2, <2>3, <2>4 DEF Next

\* Who passes the guard was an admin less than TTL before, whether the cache or the row said so.
LEMMA PassedStep ==
  ASSUME TypeOK, Dated, Trusted, [Next]_vars,
         \A i \in DOMAIN handlers : Asked(handlers[i]) /\ Passed(handlers[i])
  PROVE  \A i \in DOMAIN handlers' : Passed(handlers[i])'
<1> SUFFICES ASSUME NEW k \in DOMAIN handlers'
             PROVE  Passed(handlers[k])'
  OBVIOUS
<1> DEFINE g == handlers'[k]
<1>0. /\ \A a \in Accounts : admin_at[a] <= admin_at'[a] /\ admin_at[a] \in Nat /\ admin_at'[a] \in Nat
      /\ TTL \in Nat \ {0} /\ g \in Handler /\ clock \in Nat
  <2>1. TypeOK'
    BY TypeStep
  <2>2. \A a \in Accounts : admin_at[a] \in Nat /\ admin_at'[a] \in Nat
    BY <2>1 DEF TypeOK
  <2>3. \A a \in Accounts : admin_at[a] <= admin_at'[a]
    BY WorldStep
  <2>4. TTL \in Nat \ {0} /\ clock \in Nat /\ g \in Handler
    BY <2>1, BackOfficeAssumption DEF TypeOK
  <2> QED BY <2>2, <2>3, <2>4
<1>1. CASE Arrives(g)
  <2>1. g.stage \in {"arrived", "guarded"} /\ g.at = clock /\ g.actor \in Accounts /\ clock \in Nat
    BY <1>0, <1>1 DEF Arrives, Handler, TypeOK
  <2>2. ASSUME g.kind \in OfAdmins, g.stage = "guarded"
        PROVE  g.at < admin_at'[g.actor] + TTL
    <3>1. MayPass(trust[g.actor]) /\ clock < trust[g.actor].until
      BY <2>2, <1>1 DEF Arrives
    <3>2. trust[g.actor].until <= admin_at[g.actor] + TTL /\ trust[g.actor].until \in Nat
      BY <3>1, <2>1 DEF Trusted, TypeOK, Trust
    <3> QED BY <3>1, <3>2, <2>1, <1>0
  <2> QED BY <2>1, <2>2 DEF Passed
<1>2. ASSUME NEW i \in DOMAIN handlers, Becomes(handlers[i], g)
      PROVE  Passed(handlers[k])'
  <2> DEFINE h == handlers[i]
  <2>1. h \in Handler /\ Passed(h) /\ h.at <= clock
    BY DEF TypeOK, Asked
  <2>2. /\ g.at = h.at /\ g.kind = h.kind /\ g.actor = h.actor /\ h.at \in Nat /\ h.actor \in Accounts
    BY <1>2, <2>1, BecomesWhat DEF Handler
  <2>3. ASSUME g.stage = "looked", Active(g.copy)
        PROVE  g.at <= admin_at'[g.actor]
    <3>1. (h.stage = "looked" /\ g.copy = h.copy) \/ (h.stage = "arrived" /\ g.copy = row[h.actor])
      BY <1>2, <2>1, <2>3, BecomesWhat
    <3>2. CASE h.stage = "looked" /\ g.copy = h.copy
      BY <3>2, <2>1, <2>2, <2>3, <1>0 DEF Passed
    <3>3. CASE h.stage = "arrived" /\ g.copy = row[h.actor]
      <4>1. admin_at[h.actor] = clock
        BY <3>3, <2>2, <2>3 DEF Dated
      <4>2. h.at <= clock /\ clock \in Nat
        BY <2>1, <1>0
      <4>3. g.at <= admin_at'[h.actor]
        BY <4>1, <4>2, <2>2, <1>0
      <4> QED BY <4>3, <2>2
    <3> QED BY <3>1, <3>2, <3>3
  <2>4. ASSUME g.kind \in OfAdmins, g.stage \notin {"arrived", "looked"}
        PROVE  g.at < admin_at'[g.actor] + TTL
    <3>1. h.stage \notin {"arrived", "looked"} \/ (h.stage = "looked" /\ Active(h.copy))
      BY <1>2, <2>1, <2>4, BecomesWhat
    <3>2. h.at < admin_at[h.actor] + TTL
      BY <3>1, <2>1, <2>2, <2>4, <1>0 DEF Passed
    <3> QED BY <3>2, <2>2, <1>0
  <2> HIDE DEF g
  <2>5. /\ g.kind \in OfAdmins /\ g.stage \notin {"arrived", "looked"} => g.at < admin_at'[g.actor] + TTL
        /\ g.stage = "looked" /\ Active(g.copy) => g.at <= admin_at'[g.actor]
    BY <2>3, <2>4
  <2> QED BY <2>5 DEF Passed, Active, g
<1> QED BY <1>1, <1>2, EveryFlow DEF Flow

-----------------------------------------------------------------------------
(* What a handler saves.                                                   *)
\* The copy of a handler that moves on, over unchanged rows.
LEMMA CopiedBecomes ==
  ASSUME TypeOK, NEW h \in Handler, NEW g, Becomes(h, g), Copied(h)
  PROVE  Copied(g)
<1> DEFINE r == row[h.target]
<1>0. r \in Row /\ h.kind \in Kinds
  BY DEF TypeOK, Handler, Kinds
<1>1. CASE g = h
  BY <1>1
<1>2. CASE g.stage \notin {"found", "diffed"}
  BY <1>2 DEF Copied
<1>3. CASE /\ h.stage = "guarded" /\ Accepts(h, r)
           /\ g = [h EXCEPT !.stage = "found", !.copy = Changed(h.kind, r)]
  <2>1. /\ g.stage = "found" /\ g.copy = Changed(h.kind, r)
        /\ g.kind = h.kind /\ g.target = h.target /\ g.actor = h.actor
    BY <1>3 DEF Handler
  <2>2. h.kind \in OnOthers => h.target # h.actor
    BY <1>3 DEF Accepts, OnOthers
  <2>3. h.kind = "bootstrap" => LET c == Changed(h.kind, r) IN c.admin /\ ~c.suspended /\ ~c.deleted
    BY <1>0, ChangedFields
  <2> QED BY <2>1, <2>2, <2>3 DEF Copied
<1>4. CASE /\ h.stage = "found"
           /\ g = [h EXCEPT !.stage = "diffed", !.writes = { f \in Fields : h.copy[f] # r[f] }]
  <2>1. /\ g.stage = "diffed" /\ g.writes = { f \in Fields : h.copy[f] # r[f] } /\ g.crossed = h.crossed
        /\ g.copy = h.copy /\ g.kind = h.kind /\ g.target = h.target /\ g.actor = h.actor
    BY <1>4 DEF Handler
  <2>2. \A f \in Standing \ g.writes : r[f] = g.copy[f]
    BY <2>1 DEF Standing, Fields
  <2> QED BY <2>1, <2>2, <1>4 DEF Copied
<1>5. CASE h.stage \in {"found", "diffed"} /\ g = [h EXCEPT !.crossed = TRUE]
  <2>1. /\ g.stage = h.stage /\ g.crossed = TRUE
        /\ g.copy = h.copy /\ g.kind = h.kind /\ g.target = h.target /\ g.actor = h.actor
    BY <1>5 DEF Handler
  <2> QED BY <2>1, <1>5 DEF Copied
<1>6. CASE \/ g = [h EXCEPT !.stage = "looked", !.copy = row[h.actor]]
           \/ g = [h EXCEPT !.stage = "guarded", !.copy = Blank]
           \/ g = [h EXCEPT !.stage = "new"]
           \/ g = [h EXCEPT !.stage = "saved", !.copy = Blank, !.writes = {}]
           \/ \E s \in Storing \cup {"saved"} : g = [h EXCEPT !.stage = s]
  BY <1>2, <1>6 DEF Handler, Storing
<1> QED BY <1>1, <1>3, <1>4, <1>5, <1>6 DEF Becomes, Storing

\* Another save crosses the handlers whose row it writes; the boot only meets those of the script.
LEMMA CopiedStep ==
  ASSUME TypeOK, \A i \in DOMAIN handlers : Asked(handlers[i]) /\ Copied(handlers[i]), [Next]_vars
  PROVE  \A i \in DOMAIN handlers' : Copied(handlers[i])'
<1> SUFFICES ASSUME NEW k \in DOMAIN handlers'
             PROVE  Copied(handlers[k])'
  OBVIOUS
<1> DEFINE g == handlers'[k]
<1>0. \A i \in DOMAIN handlers : handlers[i] \in Handler
  BY DEF TypeOK
<1>1. ASSUME g.stage \notin {"found", "diffed"}
      PROVE  Copied(handlers[k])'
  BY <1>1 DEF Copied
<1>2. ASSUME Copied(g), row'[g.target] = row[g.target]
      PROVE  Copied(handlers[k])'
  BY <1>2 DEF Copied
<1>3. ASSUME UNCHANGED row
      PROVE  Copied(handlers[k])'
  <2>1. CASE Arrives(g)
    BY <2>1, <1>1 DEF Arrives
  <2>2. ASSUME NEW i \in DOMAIN handlers, Becomes(handlers[i], g)
        PROVE  Copied(handlers[k])'
    <3>1. Copied(g)
      BY <2>2, <1>0, CopiedBecomes
    <3> QED BY <3>1, <1>2, <1>3
  <2> QED BY <2>1, <2>2, EveryFlow DEF Flow
<1>4. ASSUME NEW i \in DOMAIN handlers, Create(i)
      PROVE  Copied(handlers[k])'
  <2>1. handlers'[k] = handlers[Was(i, k)] /\ Was(i, k) \in DOMAIN handlers
    BY <1>4, OneRemoved DEF Create, Leave, TypeOK
  <2>2. CASE g.stage \notin {"found", "diffed"}
    BY <2>2, <1>1
  <2>3. CASE g.stage \in {"found", "diffed"}
    <3>1. g.target \in known /\ Copied(g) /\ g.target \in Accounts
      BY <2>1, <2>3, <1>0 DEF Asked, Handler
    <3>2. UNCHANGED row \/ (handlers[i].target \notin known
                            /\ row' = [row EXCEPT ![handlers[i].target] = Changed(handlers[i].kind, Blank)])
      BY <1>4 DEF Create, Rows
    <3>3. row'[g.target] = row[g.target]
      BY <3>1, <3>2 DEF TypeOK
    <3> QED BY <3>1, <3>3, <1>2
  <2> QED BY <2>2, <2>3
<1>5. ASSUME NEW i \in DOMAIN handlers, Save(i)
      PROVE  Copied(handlers[k])'
  <2> DEFINE h == handlers[i]
             r == [f \in Fields |-> IF f \in h.writes THEN h.copy[f] ELSE row[h.target][f]]
  <2>1. handlers' = AfterSave(i, h) /\ row' = [row EXCEPT ![h.target] = r]
    BY <1>5 DEF Save, Rows
  <2>2. k \in DOMAIN handlers
    BY <2>1 DEF AfterSave
  <2>3. CASE k = i
    BY <2>1, <2>2, <2>3, <1>0, <1>1 DEF AfterSave, Handler
  <2>4. CASE /\ k # i /\ handlers[k].stage \in {"found", "diffed"}
             /\ handlers[k].target = h.target /\ h.writes # {}
    <3>1. g = [handlers[k] EXCEPT !.crossed = TRUE]
      BY <2>1, <2>2, <2>4 DEF AfterSave
    <3>2. /\ g.stage = handlers[k].stage /\ g.crossed = TRUE /\ g.copy = handlers[k].copy
          /\ g.kind = handlers[k].kind /\ g.target = handlers[k].target /\ g.actor = handlers[k].actor
      BY <3>1, <2>2, <1>0 DEF Handler
    <3> QED BY <2>2, <2>4, <3>2 DEF Copied
  <2>5. CASE k # i /\ ~ ( /\ handlers[k].stage \in {"found", "diffed"}
                          /\ handlers[k].target = h.target /\ h.writes # {} )
    <3>1. g = handlers[k]
      BY <2>1, <2>2, <2>5 DEF AfterSave
    <3>2. CASE g.stage \notin {"found", "diffed"}
      BY <3>2, <1>1
    <3>3. CASE g.target # h.target \/ h.writes = {}
      <4>1. g.target \in Accounts /\ row[h.target] \in Row
        BY <3>1, <2>2, <1>0 DEF Handler, TypeOK
      <4>2. h.writes = {} => r = row[h.target]
        BY <4>1 DEF Row
      <4> HIDE DEF r
      <4>3. row'[g.target] = row[g.target]
        BY <4>1, <4>2, <3>3, <2>1 DEF TypeOK
      <4> QED BY <4>3, <3>1, <2>2, <1>2
    <3> QED BY <3>1, <3>2, <3>3, <2>5
  <2> QED BY <2>3, <2>4, <2>5
<1>6. CASE Restart
  <2>1. PICK i \in DOMAIN handlers : handlers'[k] = handlers[i] /\ handlers[i].kind = "bootstrap"
    BY <1>6, OutlivingType DEF Restart, TypeOK
  <2>2. CASE g.stage \notin {"found", "diffed"}
    BY <2>2, <1>1
  <2>3. CASE g.stage \in {"found", "diffed"}
    <3>1. g.target = Bootstrap /\ Copied(g) /\ g.kind = "bootstrap"
      BY <2>1 DEF Asked
    <3>2. CASE UNCHANGED row
      BY <3>2, <1>3
    <3>3. CASE row' = [row EXCEPT ![Bootstrap] = Changed("bootstrap", row[Bootstrap])]
      <4> DEFINE c == Changed("bootstrap", row[Bootstrap])
      <4>1. row[Bootstrap] \in Row /\ "bootstrap" \in Kinds
        BY BackOfficeAssumption DEF TypeOK, Kinds
      <4>2. c \in Row /\ c.admin /\ ~c.suspended /\ ~c.deleted
        BY <4>1, ChangedFields, ChangedType
      <4> HIDE DEF c
      <4>3. row'[Bootstrap] = c
        BY <3>3, BackOfficeAssumption DEF TypeOK, c
      <4>4. g.copy \in Row /\ g.copy.admin /\ ~g.copy.suspended /\ ~g.copy.deleted
        BY <3>1, <2>1, <2>3, <1>0 DEF Copied, Handler
      <4>5. \A f \in Standing : c[f] = g.copy[f]
        BY <4>2, <4>4 DEF Standing, Row, Fields
      <4>6. \A f \in Standing : row'[g.target][f] = g.copy[f]
        BY <4>3, <4>5, <3>1
      <4> QED BY <4>4, <4>6, <3>1 DEF Copied, OnOthers
    <3> QED BY <3>2, <3>3, <1>6 DEF Restart, BootstrapAdmin, Rows
  <2> QED BY <2>2, <2>3
<1> QED
  <2>1. ASSUME NEW i \in DOMAIN handlers, Serve(i), ~Create(i), ~Save(i)
        PROVE  UNCHANGED row
    BY <2>1 DEF Serve, Look, Judge, Find, Diff, DiffSetting, SaveSetting, CacheSetting, Record, Fail
  <2>2. ASSUME NEW a \in Accounts, DeleteVehicle(a) \/ \E kind \in OfUsers : CallUser(kind, a)
        PROVE  UNCHANGED row
    BY <2>2 DEF DeleteVehicle, CallUser
  <2>3. ASSUME NEW a \in Accounts, NEW b \in Accounts, NEW kind \in OfAdmins,
               NEW v \in Values \cup {Default}, CallAdmin(kind, a, b, v)
        PROVE  UNCHANGED row
    BY <2>3 DEF CallAdmin
  <2>4. ASSUME RunScript \/ Tick \/ UNCHANGED vars
        PROVE  UNCHANGED row
    BY <2>4 DEF RunScript, Tick, Rows, vars
  <2> QED BY <1>3, <1>4, <1>5, <1>6, <2>1, <2>2, <2>3, <2>4 DEF Next

-----------------------------------------------------------------------------
(* The settings.                                                           *)
\* Handlers that only go, or come nearer to the cache, keep the settings settled.
LEMMA SettledUnder ==
  ASSUME Settled, UNCHANGED setting, "setting" \notin raced' => "setting" \notin raced, NEW was,
         \A k \in DOMAIN handlers' : handlers'[k].stage \in {"same", "stored"} =>
           /\ was[k] \in DOMAIN handlers /\ handlers[was[k]].stage \in {"same", "stored"}
           /\ handlers'[k].value = handlers[was[k]].value,
         \A j \in DOMAIN handlers : handlers[j].stage = "stored" =>
           \E k \in DOMAIN handlers' : handlers'[k].stage = "stored"
  PROVE  Settled'
BY DEF Settled, Stored, Caches

LEMMA SettledReplaced ==
  ASSUME TypeOK, Settled, UNCHANGED setting, "setting" \notin raced' => "setting" \notin raced,
         NEW i \in DOMAIN handlers, handlers[i].stage # "stored",
         NEW h \in Handler, h.stage # "stored", h.stage = "same" => h.value = setting.row, Replace(i, h)
  PROVE  Settled'
<1>1. /\ DOMAIN handlers' = DOMAIN handlers
      /\ handlers'[i] = h /\ \A k \in DOMAIN handlers \ {i} : handlers'[k] = handlers[k]
  BY OneReplaced DEF Replace, TypeOK
<1> QED BY <1>1 DEF Settled, Stored, Caches

LEMMA SettledLeft ==
  ASSUME TypeOK, Settled, UNCHANGED <<setting, raced>>,
         NEW i \in DOMAIN handlers, handlers[i].stage # "stored", Leave(i)
  PROVE  Settled'
<1>1. /\ \A k \in DOMAIN handlers' : handlers'[k] = handlers[Was(i, k)] /\ Was(i, k) \in DOMAIN handlers
      /\ \A j \in DOMAIN handlers \ {i} : \E k \in DOMAIN handlers' : handlers'[k] = handlers[j]
  BY OneRemoved DEF Leave, TypeOK
<1> DEFINE was == [k \in DOMAIN handlers' |-> Was(i, k)]
<1>2. \A k \in DOMAIN handlers' : was[k] = Was(i, k)
  OBVIOUS
<1> HIDE DEF was
<1>3. \A k \in DOMAIN handlers' : handlers'[k].stage \in {"same", "stored"} =>
         /\ was[k] \in DOMAIN handlers /\ handlers[was[k]].stage \in {"same", "stored"}
         /\ handlers'[k].value = handlers[was[k]].value
  BY <1>1, <1>2
<1>4. \A j \in DOMAIN handlers : handlers[j].stage = "stored" =>
         \E k \in DOMAIN handlers' : handlers'[k].stage = "stored"
  BY <1>1
<1>5. "setting" \notin raced' => "setting" \notin raced
  OBVIOUS
<1> QED BY <1>3, <1>4, <1>5, SettledUnder

LEMMA SettledStarted ==
  ASSUME TypeOK, Settled, UNCHANGED <<setting, raced>>,
         NEW kind \in Kinds, NEW a \in Accounts, NEW b \in Accounts,
         NEW v \in Values \cup {Default}, NEW s \in {"arrived", "guarded"}, Starts(kind, a, b, v, s)
  PROVE  Settled'
<1> DEFINE h == [ kind |-> kind, actor |-> a, target |-> b, value |-> v, at |-> clock, stage |-> s,
                  copy |-> Blank, writes |-> {}, crossed |-> FALSE ]
<1>1. h \in Handler /\ h.stage \notin {"same", "stored"}
  BY BlankType DEF TypeOK, Handler, Kinds
<1>2. handlers' = Append(handlers, h)
  BY DEF Starts
<1> HIDE DEF h
<1>3. /\ DOMAIN handlers' = DOMAIN handlers \cup {Len(handlers) + 1}
      /\ handlers'[Len(handlers) + 1] = h /\ \A k \in DOMAIN handlers : handlers'[k] = handlers[k]
  BY <1>1, <1>2, OneAppended DEF TypeOK
<1> QED BY <1>1, <1>3 DEF Settled, Stored, Caches

\* Updates that do not cross leave row and cache equal.
LEMMA SettledStep ==
  ASSUME TypeOK, Settled, \A i \in DOMAIN handlers : Asked(handlers[i]), [Next]_vars
  PROVE  Settled'
<1>0. \A i \in DOMAIN handlers : handlers[i] \in Handler
  BY DEF TypeOK
<1>1. ASSUME NEW a \in Accounts, NEW b \in Accounts, NEW kind \in OfAdmins,
             NEW v \in Values \cup {Default}, CallAdmin(kind, a, b, v)
      PROVE  Settled'
  <2>1. /\ \E s \in {"arrived", "guarded"} : Starts(kind, a, b, v, s)
        /\ UNCHANGED <<setting, raced>> /\ kind \in Kinds
    BY <1>1 DEF CallAdmin, Kinds
  <2> QED BY <2>1, SettledStarted
<1>2. ASSUME NEW a \in Accounts, NEW kind \in OfUsers, CallUser(kind, a)
      PROVE  Settled'
  <2>1. Starts(kind, a, a, Default, "guarded") /\ UNCHANGED <<setting, raced>> /\ kind \in Kinds
    BY <1>2 DEF CallUser, Kinds
  <2> QED BY <2>1, SettledStarted
<1>3. CASE RunScript
  <2>1. Starts("bootstrap", Bootstrap, Bootstrap, Default, "guarded") /\ UNCHANGED <<setting, raced>>
    BY <1>3 DEF RunScript
  <2> QED BY <2>1, SettledStarted, BackOfficeAssumption DEF Kinds
<1>4. ASSUME UNCHANGED <<handlers, setting, raced>>
      PROVE  Settled'
  BY <1>4 DEF Settled, Stored, Caches
<1>5. ASSUME NEW i \in DOMAIN handlers, Look(i)
      PROVE  Settled'
  <2> DEFINE g == [handlers[i] EXCEPT !.stage = "looked", !.copy = row[handlers[i].actor]]
  <2>1. row[handlers[i].actor] \in Row
    BY <1>0 DEF TypeOK, Handler
  <2>2. g \in Handler /\ g.stage = "looked"
    <3>1. g \in Handler
      BY <2>1, <1>0, HandlerAt DEF Stages
    <3>2. g.stage = "looked"
      BY <1>0 DEF Handler
    <3> QED BY <3>1, <3>2
  <2>3. Replace(i, g) /\ handlers[i].stage # "stored" /\ UNCHANGED <<setting, raced>>
    BY <1>5 DEF Look
  <2> QED BY <2>2, <2>3, SettledReplaced
<1>6. ASSUME NEW i \in DOMAIN handlers, Judge(i)
      PROVE  Settled'
  <2> DEFINE g == [handlers[i] EXCEPT !.stage = "guarded", !.copy = Blank]
  <2>1. g \in Handler /\ g.stage = "guarded"
    <3>1. g \in Handler
      BY <1>0, HandlerAt, BlankType DEF Stages
    <3>2. g.stage = "guarded"
      BY <1>0 DEF Handler
    <3> QED BY <3>1, <3>2
  <2>2. (Replace(i, g) \/ Leave(i)) /\ handlers[i].stage # "stored" /\ UNCHANGED <<setting, raced>>
    BY <1>6 DEF Judge
  <2> QED BY <2>1, <2>2, SettledReplaced, SettledLeft
<1>7. ASSUME NEW i \in DOMAIN handlers, Find(i)
      PROVE  Settled'
  <2> DEFINE h == handlers[i]
             new == [h EXCEPT !.stage = "new"]
             found == [h EXCEPT !.stage = "found", !.copy = Changed(h.kind, row[h.target])]
  <2>1. h.kind \in Kinds /\ row[h.target] \in Row
    BY <1>0 DEF TypeOK, Handler, Kinds
  <2>2. new \in Handler /\ new.stage = "new" /\ found \in Handler /\ found.stage = "found"
    <3>1. new \in Handler /\ found \in Handler
      BY <2>1, <1>0, HandlerAt, ChangedType, BlankType DEF Stages
    <3>2. new.stage = "new" /\ found.stage = "found"
      BY <1>0 DEF Handler
    <3> QED BY <3>1, <3>2
  <2>3. /\ Replace(i, new) \/ Replace(i, found) \/ Leave(i)
        /\ h.stage # "stored" /\ UNCHANGED <<setting, raced>>
    BY <1>7 DEF Find
  <2> QED BY <2>2, <2>3, SettledReplaced, SettledLeft
<1>8. ASSUME NEW i \in DOMAIN handlers, Diff(i)
      PROVE  Settled'
  <2> DEFINE w == { f \in Fields : handlers[i].copy[f] # row[handlers[i].target][f] }
             g == [handlers[i] EXCEPT !.stage = "diffed", !.writes = w]
  <2>1. g \in Handler /\ g.stage = "diffed"
    <3>1. g \in Handler
      BY <1>0, HandlerAt, BlankType DEF Stages
    <3>2. g.stage = "diffed"
      BY <1>0 DEF Handler
    <3> QED BY <3>1, <3>2
  <2>2. Replace(i, g) /\ handlers[i].stage # "stored" /\ UNCHANGED <<setting, raced>>
    BY <1>8 DEF Diff
  <2> QED BY <2>1, <2>2, SettledReplaced
<1>9. ASSUME NEW i \in DOMAIN handlers, Save(i)
      PROVE  Settled'
  <2>1. /\ handlers' = AfterSave(i, handlers[i]) /\ UNCHANGED setting
        /\ handlers[i].stage = "diffed" /\ ("setting" \notin raced' => "setting" \notin raced)
    BY <1>9 DEF Save
  <2>2. DOMAIN handlers' = DOMAIN handlers
    BY <2>1 DEF AfterSave
  <2>3. ASSUME NEW j \in DOMAIN handlers
        PROVE  /\ handlers'[j].stage \in {"same", "stored"} => handlers'[j].stage = handlers[j].stage
               /\ handlers[j].stage = "stored" => handlers'[j].stage = "stored"
               /\ handlers'[j].value = handlers[j].value
    <3>1. CASE j = i
      <4>1. handlers'[j] = [handlers[i] EXCEPT !.stage = "saved", !.copy = Blank, !.writes = {}]
        BY <3>1, <2>1 DEF AfterSave
      <4> QED BY <4>1, <3>1, <2>1, <1>0 DEF Handler
    <3>2. CASE j # i
      <4>1. handlers'[j] = handlers[j] \/ handlers'[j] = [handlers[j] EXCEPT !.crossed = TRUE]
        BY <3>2, <2>1 DEF AfterSave
      <4> QED BY <4>1, <1>0 DEF Handler
    <3> QED BY <3>1, <3>2
  <2> QED BY <2>1, <2>2, <2>3 DEF Settled, Stored, Caches
<1>10. ASSUME NEW i \in DOMAIN handlers, SaveSetting(i)
       PROVE  Settled'
  <2> DEFINE h == handlers[i]
             g == [h EXCEPT !.stage = "stored"]
  <2>1. g \in Handler /\ g.stage = "stored" /\ g.value = h.value
    <3>1. g \in Handler
      BY <1>0, HandlerAt, BlankType DEF Stages
    <3>2. g.stage = "stored" /\ g.value = h.value
      BY <1>0 DEF Handler
    <3> QED BY <3>1, <3>2
  <2>2. CASE h.stage = "absent" /\ setting.there
    <3>1. Leave(i) /\ UNCHANGED <<setting, raced>> /\ h.stage # "stored"
      BY <2>2, <1>10 DEF SaveSetting
    <3> QED BY <3>1, SettledLeft
  <2>3. CASE ~(h.stage = "absent" /\ setting.there)
    <3>1. /\ DOMAIN handlers' = DOMAIN handlers
          /\ handlers'[i] = g /\ \A k \in DOMAIN handlers \ {i} : handlers'[k] = handlers[k]
      <4>1. handlers' = [handlers EXCEPT ![i] = g] /\ handlers \in Seq(Handler)
        BY <2>3, <1>10 DEF SaveSetting, Replace, TypeOK
      <4> HIDE DEF g
      <4> QED BY <4>1, <2>1, OneReplaced
    <3>2. SUFFICES ASSUME "setting" \notin raced'
                   PROVE  \A k \in DOMAIN handlers : Caches(k)' => handlers'[k].value = setting'.row
      BY <2>1, <3>1 DEF Settled, Stored
    <3>3. CASE setting' = setting
      <4>1. "setting" \notin raced
        BY <3>2, <3>3, <1>10 DEF SaveSetting
      <4>2. h.value = setting.row
        <5>1. CASE h.stage = "same"
          BY <4>1, <5>1 DEF Settled, Caches
        <5>2. CASE h.stage # "same"
          <6>1. setting' = [setting EXCEPT !.there = TRUE, !.row = h.value]
            BY <5>2, <2>3, <1>10 DEF SaveSetting
          <6> QED BY <6>1, <3>3 DEF TypeOK
        <5> QED BY <5>1, <5>2
      <4> QED BY <4>1, <4>2, <3>1, <3>3, <2>1 DEF Settled, Caches
    <3>4. CASE setting' # setting
      <4>1. ~ Crosses(i) /\ setting'.row = h.value
        BY <3>2, <3>4, <1>10 DEF SaveSetting, TypeOK
      <4> QED BY <4>1, <3>1, <2>1 DEF Crosses, Caches
    <3> QED BY <3>3, <3>4
  <2> QED BY <2>2, <2>3
<1>15. ASSUME NEW i \in DOMAIN handlers, DiffSetting(i)
       PROVE  Settled'
  <2> DEFINE h == handlers[i]
             s == IF ~setting.there THEN "absent" ELSE IF setting.row = h.value THEN "same" ELSE "differs"
             g == [h EXCEPT !.stage = s]
  <2>1. s \in Stages /\ s # "stored" /\ (s = "same" => h.value = setting.row)
    BY DEF Stages
  <2>2. Replace(i, g) /\ h.stage # "stored" /\ UNCHANGED <<setting, raced>>
    BY <1>15 DEF DiffSetting
  <2> HIDE DEF s
  <2>3. g \in Handler /\ g.stage = s /\ g.value = h.value
    <3>1. g \in Handler
      BY <1>0, <2>1, HandlerAt, BlankType
    <3>2. g.stage = s /\ g.value = h.value
      BY <1>0 DEF Handler
    <3> QED BY <3>1, <3>2
  <2> HIDE DEF g, h
  <2> QED BY <2>1, <2>2, <2>3, SettledReplaced DEF h
<1>11. ASSUME NEW i \in DOMAIN handlers, CacheSetting(i)
       PROVE  Settled'
  <2> DEFINE g == [handlers[i] EXCEPT !.stage = "saved"]
  <2>1. g \in Handler /\ g.stage = "saved"
    <3>1. g \in Handler
      BY <1>0, HandlerAt, BlankType DEF Stages
    <3>2. g.stage = "saved"
      BY <1>0 DEF Handler
    <3> QED BY <3>1, <3>2
  <2>2. /\ DOMAIN handlers' = DOMAIN handlers
        /\ handlers'[i] = g /\ \A k \in DOMAIN handlers \ {i} : handlers'[k] = handlers[k]
    <3>1. handlers' = [handlers EXCEPT ![i] = g] /\ handlers \in Seq(Handler)
      BY <1>11 DEF CacheSetting, Replace, TypeOK
    <3> HIDE DEF g
    <3> QED BY <3>1, <2>1, OneReplaced
  <2>3. setting'.row = setting.row /\ setting'.cache = handlers[i].value /\ UNCHANGED raced /\ Stored(i)
    BY <1>11 DEF CacheSetting, TypeOK, Stored
  <2> HIDE DEF g
  <2> QED BY <2>1, <2>2, <2>3 DEF Settled, Stored, Caches
<1>12. ASSUME NEW i \in DOMAIN handlers, Create(i) \/ Record(i)
       PROVE  Settled'
  <2>1. Leave(i) /\ handlers[i].stage # "stored" /\ UNCHANGED <<setting, raced>>
    BY <1>12 DEF Create, Record
  <2> QED BY <2>1, SettledLeft
<1>13. ASSUME NEW i \in DOMAIN handlers, Fail(i)
       PROVE  Settled'
  <2>1. Leave(i) /\ UNCHANGED setting
    BY <1>13 DEF Fail
  <2>2. CASE handlers[i].stage = "stored"
    BY <2>2, <1>13 DEF Fail, Settled
  <2>3. CASE handlers[i].stage # "stored"
    BY <2>1, <2>3, <1>13, SettledLeft DEF Fail
  <2> QED BY <2>2, <2>3
<1>14. CASE Restart
  <2>1. \A k \in DOMAIN handlers' : handlers'[k].stage \notin Storing
    <3>1. \A k \in DOMAIN handlers' : \E i \in DOMAIN handlers :
            handlers'[k] = handlers[i] /\ handlers[i].kind = "bootstrap"
      BY <1>14, OutlivingType DEF Restart, TypeOK
    <3> QED BY <3>1 DEF Asked
  <2>2. "setting" \notin raced' => setting'.cache = setting'.row
    BY <1>14 DEF Restart, Hydrate, TypeOK
  <2> QED BY <2>1, <2>2 DEF Settled, Stored, Caches, Storing
<1> QED
  <2>1. ASSUME Tick \/ (\E a \in Accounts : DeleteVehicle(a)) \/ UNCHANGED vars
        PROVE  UNCHANGED <<handlers, setting, raced>>
    BY <2>1 DEF Tick, DeleteVehicle, vars
  <2> QED
    BY <1>1, <1>2, <1>3, <1>4, <1>5, <1>6, <1>7, <1>8, <1>9, <1>10, <1>11, <1>12, <1>13, <1>14, <1>15, <2>1
    DEF Next, Serve

-----------------------------------------------------------------------------
(* The rows.                                                               *)
SavedRow(h) == [f \in Fields |-> IF f \in h.writes THEN h.copy[f] ELSE row[h.target][f]]

\* What an uncrossed save writes.
LEMMA UncrossedSave ==
  ASSUME TypeOK, NEW h \in Handler, h.stage = "diffed", ~h.crossed, Copied(h)
  PROVE  /\ h.kind # "bootstrap" => SavedRow(h) = Changed(h.kind, row[h.target])
         /\ h.kind = "bootstrap" => Active(SavedRow(h))
<1> DEFINE r == row[h.target]
<1>0. r \in Row /\ h.kind \in Kinds /\ h.copy \in Row
  BY DEF TypeOK, Handler, Kinds
<1>1. ASSUME h.kind # "bootstrap"
      PROVE  SavedRow(h) = Changed(h.kind, r)
  <2>1. h.copy = Changed(h.kind, r) /\ h.writes = { f \in Fields : h.copy[f] # r[f] }
    BY <1>1 DEF Copied
  <2>2. \A f \in Fields : (IF f \in h.writes THEN h.copy[f] ELSE r[f]) = h.copy[f]
    BY <2>1
  <2>3. SavedRow(h) = [f \in Fields |-> h.copy[f]]
    BY <2>2 DEF SavedRow
  <2> QED BY <2>1, <2>3, <1>0 DEF Row
<1>2. ASSUME h.kind = "bootstrap"
      PROVE  Active(SavedRow(h))
  <2>1. h.copy.admin /\ ~h.copy.suspended /\ ~h.copy.deleted
    BY <1>2 DEF Copied
  <2>2. \A f \in Standing \ h.writes : r[f] = h.copy[f]
    BY <1>2 DEF Copied
  <2>3. \A f \in Standing : SavedRow(h)[f] = h.copy[f]
    BY <2>2 DEF SavedRow, Standing, Fields
  <2> QED BY <2>1, <2>3 DEF Active, Standing
<1> QED BY <1>1, <1>2

\* The row of an account that exists changes when a handler saves it, or with the boot.
LEMMA RowStep ==
  ASSUME TypeOK, [Next]_vars, NEW a \in known, row'[a] # row[a]
  PROVE  \/ \E i \in DOMAIN handlers : Save(i) /\ handlers[i].target = a
         \/ Restart /\ a = Bootstrap
<1>0. a \in Accounts /\ row \in [Accounts -> Row]
  BY DEF TypeOK
<1>1. ASSUME NEW i \in DOMAIN handlers, Create(i)
      PROVE  FALSE
  <2>1. UNCHANGED row \/ (handlers[i].target \notin known
                          /\ row' = [row EXCEPT ![handlers[i].target] = Changed(handlers[i].kind, Blank)])
    BY <1>1 DEF Create, Rows
  <2> QED BY <2>1, <1>0
<1>2. ASSUME NEW i \in DOMAIN handlers, Save(i)
      PROVE  handlers[i].target = a
  <2>1. row' = [row EXCEPT ![handlers[i].target] = SavedRow(handlers[i])]
    BY <1>2 DEF Save, Rows, SavedRow
  <2> QED BY <2>1, <1>0
<1>3. ASSUME Restart
      PROVE  a = Bootstrap
  <2>1. UNCHANGED row \/ row' = [row EXCEPT ![Bootstrap] = Changed("bootstrap", row[Bootstrap])]
    BY <1>3 DEF Restart, BootstrapAdmin, Rows
  <2> QED BY <2>1, <1>0
<1>4. ASSUME NEW i \in DOMAIN handlers, Serve(i), ~Create(i), ~Save(i)
      PROVE  FALSE
  BY <1>4 DEF Serve, Look, Judge, Find, Diff, DiffSetting, SaveSetting, CacheSetting, Record, Fail
<1>5. ASSUME NEW b \in Accounts, DeleteVehicle(b) \/ \E kind \in OfUsers : CallUser(kind, b)
      PROVE  FALSE
  BY <1>5 DEF DeleteVehicle, CallUser
<1>6. ASSUME NEW b \in Accounts, NEW c \in Accounts, NEW kind \in OfAdmins,
             NEW v \in Values \cup {Default}, CallAdmin(kind, b, c, v)
      PROVE  FALSE
  BY <1>6 DEF CallAdmin
<1>7. ASSUME RunScript \/ Tick \/ UNCHANGED vars
      PROVE  FALSE
  BY <1>7 DEF RunScript, Tick, Rows, vars
<1> QED BY <1>1, <1>2, <1>3, <1>4, <1>5, <1>6, <1>7 DEF Next

\* An account that was raced for is never forgotten.
LEMMA RacedStep ==
  ASSUME [Next]_vars, "account" \in raced
  PROVE  "account" \in raced'
BY DEF Next, Serve, vars, CallAdmin, DeleteVehicle, CallUser, Look, Judge, Find, Create, Diff, Save,
       DiffSetting, SaveSetting, CacheSetting, Record, Fail, RunScript, Restart, Hydrate, Tick

\* An uncrossed save by an active admin leaves one.
LEMMA AdminStep ==
  ASSUME TypeOK, Dated, AnAdminRemains, [Next]_vars,
         \A i \in DOMAIN handlers : Asked(handlers[i]) /\ Copied(handlers[i])
  PROVE  AnAdminRemains'
<1>0. known \subseteq known' /\ row \in [Accounts -> Row] /\ known \subseteq Accounts
  BY WorldStep DEF TypeOK
<1>1. SUFFICES ASSUME NEW a \in known, Active(row[a]), "account" \notin raced'
               PROVE  \E b \in known' : Active(row'[b])
  BY RacedStep DEF AnAdminRemains, Active
<1>2. CASE row'[a] = row[a]
  BY <1>0, <1>1, <1>2
<1>3. ASSUME NEW i \in DOMAIN handlers, Save(i), handlers[i].target = a
      PROVE  \E b \in known' : Active(row'[b])
  <2> DEFINE h == handlers[i]
             r == SavedRow(h)
  <2>1. h \in Handler /\ Asked(h) /\ Copied(h) /\ h.stage = "diffed"
    BY <1>3 DEF TypeOK, Save
  <2>2. ~h.crossed /\ (h.kind \in OfAdmins => Active(row[h.actor]))
    BY <1>1, <1>3 DEF Save
  <2>3. row' = [row EXCEPT ![a] = r]
    BY <1>3 DEF Save, Rows, SavedRow
  <2>4. /\ h.kind # "bootstrap" => r = Changed(h.kind, row[a])
        /\ h.kind = "bootstrap" => Active(r)
    BY <2>1, <2>2, <1>3, UncrossedSave
  <2>5. a \in Accounts /\ row[a] \in Row /\ h.kind \in Kinds
    BY <1>0, <2>1 DEF Handler, Kinds
  <2> HIDE DEF r
  <2>6. row'[a] = r /\ \A b \in Accounts \ {a} : row'[b] = row[b]
    BY <2>3, <2>5, <1>0
  <2>7. CASE h.kind = "bootstrap"
    BY <2>4, <2>6, <2>7, <1>0
  <2>8. CASE h.kind \in OnOthers
    <3>1. h.actor # a /\ h.actor \in known /\ Active(row[h.actor])
      BY <2>1, <2>2, <2>8, <1>3 DEF Copied, Asked, OnOthers, OfAdmins
    <3> QED BY <3>1, <2>6, <1>0
  <2>9. CASE h.kind \notin OnOthers \cup {"bootstrap"}
    <3>1. r.admin = row[a].admin /\ r.suspended = row[a].suspended /\ r.deleted = row[a].deleted
      BY <2>4, <2>5, <2>9, ChangedFields DEF OnOthers
    <3> QED BY <3>1, <2>6, <1>0, <1>1 DEF Active
  <2> QED BY <2>7, <2>8, <2>9
<1>4. ASSUME Restart, a = Bootstrap, row'[a] # row[a]
      PROVE  \E b \in known' : Active(row'[b])
  <2>1. row' = [row EXCEPT ![Bootstrap] = Changed("bootstrap", row[Bootstrap])]
    BY <1>4 DEF Restart, BootstrapAdmin, Rows
  <2>2. row'[a] = Changed("bootstrap", row[a]) /\ row[a] \in Row
    BY <2>1, <1>0, <1>4
  <2>3. Active(row'[a])
    BY <2>2, ChangedFields DEF Active, Kinds
  <2> QED BY <2>3, <1>0
<1> QED BY <1>2, <1>3, <1>4, RowStep

-----------------------------------------------------------------------------
(* The theorems.                                                           *)
LEMMA IInvInit == Init => IInv
<1> SUFFICES ASSUME Init PROVE IInv
  OBVIOUS
<1>1. handlers = << >> /\ DOMAIN handlers = {}
  BY DEF Init
<1>2. Trusted
  BY DEF Init, Trusted, MayPass, Nobody
<1>3. Dated
  <2>1. ASSUME NEW a \in Accounts, a # Bootstrap
        PROVE  ~Active(row[a])
    <3>1. row[a] = [Blank EXCEPT !["admin"] = FALSE]
      BY <2>1 DEF Init
    <3> QED BY <3>1 DEF Active, Blank, Fields
  <2> QED BY <2>1, BackOfficeAssumption DEF Init, Dated
<1>4. Settled
  BY <1>1 DEF Init, Settled
<1>5. AnAdminRemains
  BY BackOfficeAssumption DEF Init, AnAdminRemains, Active, Blank, Fields
<1> QED BY <1>1, <1>2, <1>3, <1>4, <1>5, TypeInit DEF IInv

\* The invariant is inductive.
LEMMA IInvStep == IInv /\ [Next]_vars => IInv'
BY TypeStep, AskedStep, PassedStep, CopiedStep, TrustedStep, WorldStep, SettledStep, AdminStep DEF IInv

\* The inductive invariant holds of every reachable state.
THEOREM Inductive == Spec => []IInv
BY IInvInit, IInvStep, PTL DEF Spec

\* Every variable keeps its type, whatever overlaps, fails or dies.
THEOREM TypeCorrect == Spec => []TypeOK
<1>1. IInv => TypeOK
  BY DEF IInv
<1> QED BY <1>1, Inductive, PTL

\* RolesGuard: nobody passes who was not an active admin less than TTL before his call.
THEOREM GuardFresh == Spec => []GuardIsFresh
<1>1. IInv => GuardIsFresh
  BY DEF IInv, Passed, GuardIsFresh
<1> QED BY <1>1, Inductive, PTL

\* AppSettingsService: memory and table agree once no written update waits for its answer, but for
\* the updates that crossed one of another value, lost an answer, or a boot without the table.
THEOREM SettingsAgreed == Spec => []SettingsAgree
<1>1. IInv => SettingsAgree
  BY DEF IInv, Settled, Stored, SettingsAgree
<1> QED BY <1>1, Inductive, PTL

\* The checks of AdminUsersService keep one admin, unless two handlers met.
THEOREM AdminRemains == Spec => []AnAdminRemains
<1>1. IInv => AnAdminRemains
  BY DEF IInv
<1> QED BY <1>1, Inductive, PTL

\* No save opens an account that was closed, but on purpose or over another's save.
THEOREM Reopened == Spec => ReopenedOnPurpose
<1>1. ASSUME IInv, [Next]_vars, NEW a \in known, Closed(a), ~Closed(a)'
      PROVE  \/ a = Bootstrap /\ Restart
             \/ \E i \in DOMAIN handlers :
                  /\ handlers[i].target = a
                  /\ handlers[i].stage = "diffed" /\ handlers'[i].stage = "saved"
                  /\ handlers[i].kind \in Reopens \/ handlers[i].crossed
  <2>1. row'[a] # row[a]
    BY <1>1 DEF Closed
  <2>2. ASSUME NEW i \in DOMAIN handlers, Save(i), handlers[i].target = a
        PROVE  /\ handlers[i].stage = "diffed" /\ handlers'[i].stage = "saved"
               /\ handlers[i].kind \in Reopens \/ handlers[i].crossed
    <3> DEFINE h == handlers[i]
    <3>1. h \in Handler /\ Copied(h) /\ h.stage = "diffed" /\ row[a] \in Row /\ a \in Accounts
      BY <1>1, <2>2 DEF IInv, TypeOK, Save
    <3>2. handlers'[i].stage = "saved"
      <4>1. handlers'[i] = [h EXCEPT !.stage = "saved", !.copy = Blank, !.writes = {}]
        BY <2>2 DEF Save, AfterSave
      <4> QED BY <4>1, <3>1 DEF Handler
    <3>3. ASSUME h.kind \notin Reopens, ~h.crossed
          PROVE  FALSE
      <4>1. h.kind # "bootstrap" /\ h.kind # "unsuspend" /\ h.kind \in Kinds
        BY <3>1, <3>3 DEF Reopens, Handler, Kinds
      <4>2. SavedRow(h) = Changed(h.kind, row[a])
        BY <3>1, <3>3, <4>1, <1>1, <2>2, UncrossedSave DEF IInv
      <4>3. row'[a] = Changed(h.kind, row[a])
        BY <4>2, <3>1, <1>1, <2>2 DEF Save, Rows, SavedRow, IInv, TypeOK
      <4>4. /\ Changed(h.kind, row[a]).suspended \/ Changed(h.kind, row[a]).suspended = row[a].suspended
            /\ Changed(h.kind, row[a]).deleted \/ Changed(h.kind, row[a]).deleted = row[a].deleted
        BY <4>1, <3>1, ChangedFields
      <4> QED BY <4>3, <4>4, <1>1 DEF Closed
    <3> QED BY <3>1, <3>2, <3>3
  <2> QED BY <2>1, <2>2, <1>1, RowStep DEF IInv
<1>2. IInv /\ [Next]_vars =>
        [\A a \in known : Closed(a) /\ ~Closed(a)' =>
           \/ a = Bootstrap /\ Restart
           \/ \E i \in DOMAIN handlers :
                /\ handlers[i].target = a
                /\ handlers[i].stage = "diffed" /\ handlers'[i].stage = "saved"
                /\ handlers[i].kind \in Reopens \/ handlers[i].crossed]_vars
  BY <1>1
<1> QED BY <1>2, Inductive, PTL DEF Spec, ReopenedOnPurpose
=============================================================================
