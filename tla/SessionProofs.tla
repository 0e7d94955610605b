----------------------------- MODULE SessionProofs -----------------------------
(***************************************************************************)
(* Proofs about Session: types, whose account a tab shows, its mode, and   *)
(* that nobody is logged in again behind his back, for any number of tabs, *)
(* accounts, logins and calls under way; and about Onboarding: types, one  *)
(* car a photo, its own plate, and a page that catches up with the server, *)
(* for any number of cars, photos, documents and requests under way.       *)
(***************************************************************************)
EXTENDS Session, Onboarding, FiniteSetTheorems, TLAPS

(* The inductive invariant.                                                *)
\* A token is one that was issued, or none.
Known(n) == n \in 0..Len(issued)
Stores == {storage} \cup { StoreOf(t) : t \in Tabs }
Holding == { s.token : s \in Stores }
\* What a call carries: a token of its own, and the account it was answered for.
CallOK(c) ==
  /\ Known(c.token) /\ Known(c.new)
  /\ c.kind # "login" => c.token # None /\ c.new = None
  /\ c.answer = "ok" => /\ c.user # Nobody
                        /\ c.kind = "login" => c.new # None /\ issued[c.new] = c.user.of
                        /\ c.kind # "login" => issued[c.token] = c.user.of
\* A token on its way to a tab is nobody's yet.
Fresh ==
  \A i \in DOMAIN calls : calls[i].new # None =>
    /\ calls[i].new \notin left \cup Holding
    /\ \A j \in DOMAIN calls : calls[j].new = calls[i].new => i = j

IInv ==
  /\ TypeOK
  /\ \A s \in Stores : Known(s.token)
  /\ \A n \in left : Known(n)
  /\ \A i \in DOMAIN calls : CallOK(calls[i])
  /\ Fresh
  /\ ScreenIsTheAccount
  /\ ModeIsCurrent

-----------------------------------------------------------------------------
(* Sequences.                                                              *)
\* One element replaced.
LEMMA OneReplaced ==
  ASSUME NEW S, NEW s \in Seq(S), NEW i \in DOMAIN s, NEW e \in S, NEW t, t = [s EXCEPT ![i] = e]
  PROVE  /\ t \in Seq(S) /\ Len(t) = Len(s) /\ DOMAIN t = DOMAIN s
         /\ t[i] = e /\ \A k \in DOMAIN s \ {i} : t[k] = s[k]
OBVIOUS

\* One element appended.
LEMMA OneAppended ==
  ASSUME NEW S, NEW s \in Seq(S), NEW e \in S, NEW t, t = Append(s, e)
  PROVE  /\ t \in Seq(S) /\ Len(t) = Len(s) + 1 /\ DOMAIN t = DOMAIN s \cup {Len(s) + 1}
         /\ t[Len(s) + 1] = e /\ \A k \in DOMAIN s : t[k] = s[k]
OBVIOUS

\* One element behind a sequence.
LEMMA OneBehind ==
  ASSUME NEW S, NEW s \in Seq(S), NEW e \in S, NEW t, t = s \o << e >>
  PROVE  /\ t \in Seq(S) /\ Len(t) = Len(s) + 1 /\ DOMAIN t = DOMAIN s \cup {Len(s) + 1}
         /\ t[Len(s) + 1] = e /\ \A k \in DOMAIN s : t[k] = s[k]
OBVIOUS

\* The members of a finite set of numbers in order: each comes once.
LEMMA AllInOrder ==
  ASSUME NEW I \in SUBSET Nat, IsFiniteSet(I), NEW o \in InOrder(I)
  PROVE  /\ o \in Seq(I)
         /\ \A k, m \in DOMAIN o : o[k] = o[m] => k = m
         /\ \A i \in I : \E k \in DOMAIN o : o[k] = i
<1> DEFINE n == Cardinality(I)
<1>1. n \in Nat
  BY FS_CardinalityType
<1>2. o \in [1..n -> I] /\ \A j, k \in 1..n : j < k => o[j] < o[k]
  BY DEF InOrder
<1> HIDE DEF n
<1>3. \A k, m \in 1..n : o[k] = o[m] => k = m
  <2>1. \A k \in 1..n : o[k] \in Nat
    BY <1>2
  <2> QED BY <1>1, <1>2, <2>1
<1> DEFINE R == { o[k] : k \in 1..n }
<1>4. R \subseteq I
  BY <1>2
<1>5. ExistsBijection(1..n, R)
  <2>1. o \in Bijection(1..n, R)
    BY <1>2, <1>3 DEF Bijection, Injection, Surjection, IsInjective
  <2> QED BY <2>1 DEF ExistsBijection
<1>6. Cardinality(R) = n
  BY <1>1, <1>4, <1>5, FS_Subset, FS_CountingElements
<1>7. R = I
  BY <1>4, <1>6, FS_Subset DEF n
<1>8. \A i \in I : \E k \in 1..n : o[k] = i
  BY <1>7
<1>9. o \in Seq(I) /\ DOMAIN o = 1..n
  BY <1>1, <1>2
<1> QED BY <1>3, <1>8, <1>9

\* Where element k was before element i was removed.
Was(i, k) == IF k < i THEN k ELSE k + 1
\* One element removed: the others keep their order.
LEMMA OneRemoved ==
  ASSUME NEW S, NEW s \in Seq(S), NEW i \in DOMAIN s, NEW t, t = RemoveAt(s, i)
  PROVE  /\ t \in Seq(S) /\ Len(t) = Len(s) - 1
         /\ \A k \in DOMAIN t : t[k] = s[Was(i, k)] /\ Was(i, k) \in DOMAIN s
         /\ \A j \in DOMAIN s \ {i} : \E k \in DOMAIN t : t[k] = s[j]
<1> DEFINE u == SubSeq(s, 1, i - 1)
           v == SubSeq(s, i + 1, Len(s))
<1>1. i \in 1..Len(s) /\ Len(s) \in Nat
  OBVIOUS
<1>2. u \in Seq(S) /\ Len(u) = i - 1 /\ \A k \in 1..(i - 1) : u[k] = s[k]
  BY <1>1
<1>3. v \in Seq(S) /\ Len(v) = Len(s) - i /\ \A k \in 1..(Len(s) - i) : v[k] = s[i + k]
  BY <1>1
<1>4. t = u \o v
  BY DEF RemoveAt
<1> HIDE DEF u, v
<1>5. t \in Seq(S) /\ Len(t) = Len(s) - 1
  BY <1>1, <1>2, <1>3, <1>4
<1>6. ASSUME NEW k \in DOMAIN t
      PROVE  /\ t[k] = s[IF k < i THEN k ELSE k + 1]
             /\ (IF k < i THEN k ELSE k + 1) \in DOMAIN s
  <2>1. k \in 1..(Len(s) - 1)
    BY <1>5
  <2>2. CASE k < i
    BY <2>1, <2>2, <1>1, <1>2, <1>3, <1>4
  <2>3. CASE ~(k < i)
    <3> DEFINE m == k - (i - 1)
    <3>1. t[k] = v[m]
      BY <2>1, <2>3, <1>1, <1>2, <1>3, <1>4
    <3>2. m \in 1..(Len(s) - i) /\ i + m = k + 1 /\ k + 1 \in 1..Len(s)
      BY <2>1, <2>3, <1>1
    <3> HIDE DEF m
    <3>3. v[m] = s[k + 1]
      BY <3>2, <1>3
    <3> QED BY <3>1, <3>2, <3>3, <2>3
  <2> QED BY <2>2, <2>3
<1>7. ASSUME NEW j \in DOMAIN s \ {i}
      PROVE  \E k \in DOMAIN t : t[k] = s[j]
  <2> DEFINE k == IF j < i THEN j ELSE j - 1
  <2>1. k \in DOMAIN t /\ (IF k < i THEN k ELSE k + 1) = j
    BY <1>1, <1>5
  <2> HIDE DEF k
  <2> QED BY <2>1, <1>6
<1> QED BY <1>5, <1>6, <1>7 DEF Was

\* The members of a finite set in the order SetToSeq gives them: each comes once.
LEMMA SomeOrder ==
  ASSUME NEW I, IsFiniteSet(I), NEW q, q = SetToSeq(I)
  PROVE  /\ q \in Seq(I) /\ Len(q) = Cardinality(I)
         /\ \A k, m \in DOMAIN q : q[k] = q[m] => k = m
         /\ \A i \in I : \E k \in DOMAIN q : q[k] = i
<1> DEFINE n == Cardinality(I)
<1>1. n \in Nat
  BY FS_CardinalityType
<1>2. \E f \in [1..n -> I] : IsInjective(f)
  <2>1. ExistsBijection(1..n, I)
    BY FS_CardinalityType
  <2> QED BY <2>1 DEF ExistsBijection, Bijection, Injection, IsInjective
<1>3. q \in [1..n -> I] /\ IsInjective(q)
  BY <1>2 DEF SetToSeq
<1> HIDE DEF n
<1>4. \A k, m \in 1..n : q[k] = q[m] => k = m
  BY <1>3 DEF IsInjective
<1> DEFINE R == { q[k] : k \in 1..n }
<1>5. R \subseteq I
  BY <1>3
<1>6. ExistsBijection(1..n, R)
  <2>1. q \in Bijection(1..n, R)
    BY <1>3, <1>4 DEF Bijection, Injection, Surjection, IsInjective
  <2> QED BY <2>1 DEF ExistsBijection
<1>7. Cardinality(R) = n
  BY <1>1, <1>5, <1>6, FS_Subset, FS_CountingElements
<1>8. R = I
  BY <1>5, <1>7, FS_Subset DEF n
<1>9. \A i \in I : \E k \in 1..n : q[k] = i
  BY <1>8
<1>10. q \in Seq(I) /\ Len(q) = n
  BY <1>1, <1>3
<1> QED BY <1>4, <1>9, <1>10 DEF n

-----------------------------------------------------------------------------
(* Which calls a step leaves, makes and changes.                           *)
\* Every call is one there was, and none comes twice.
SomeOf(o) ==
  /\ o \in [DOMAIN calls' -> DOMAIN calls]
  /\ \A k \in DOMAIN calls' : calls'[k] = calls[o[k]]
  /\ \A k, m \in DOMAIN calls' : o[k] = o[m] => k = m

\* A call is taken: the others remain.
LEMMA OneTaken ==
  ASSUME calls \in Seq(Call), NEW i \in DOMAIN calls, Taken(i)
  PROVE  /\ calls' \in Seq(Call) /\ Len(calls') = Len(calls) - 1
         /\ \E o : SomeOf(o) /\ (\A k \in DOMAIN calls' : o[k] # i)
         /\ \A j \in DOMAIN calls \ {i} : \E k \in DOMAIN calls' : calls'[k] = calls[j]
<1>1. /\ calls' \in Seq(Call) /\ Len(calls') = Len(calls) - 1
      /\ \A k \in DOMAIN calls' : calls'[k] = calls[Was(i, k)] /\ Was(i, k) \in DOMAIN calls
      /\ \A j \in DOMAIN calls \ {i} : \E k \in DOMAIN calls' : calls'[k] = calls[j]
  BY OneRemoved DEF Taken
<1> DEFINE o == [k \in DOMAIN calls' |-> Was(i, k)]
<1>2. \A k, m \in DOMAIN calls' : Was(i, k) = Was(i, m) => k = m
  <2>1. \A k \in DOMAIN calls' : k \in Nat
    BY <1>1
  <2> QED BY <2>1 DEF Was
<1>3. \A k \in DOMAIN calls' : Was(i, k) # i
  <2>1. \A k \in DOMAIN calls' : k \in Nat
    BY <1>1
  <2> QED BY <2>1 DEF Was
<1>4. SomeOf(o) /\ \A k \in DOMAIN calls' : o[k] # i
  BY <1>1, <1>2, <1>3 DEF SomeOf
<1> QED BY <1>1, <1>4

\* A page is loaded again: the calls of the other tabs remain.
LEMMA OthersRemain ==
  ASSUME calls \in Seq(Call), NEW t \in Tabs, calls' = Outliving(t)
  PROVE  /\ calls' \in Seq(Call) /\ Len(calls') <= Len(calls)
         /\ \E o : SomeOf(o)
         /\ \A j \in DOMAIN calls : calls[j].tab # t => \E k \in DOMAIN calls' : calls'[k] = calls[j]
<1> DEFINE I == OfOthers(t)
           q == SetToSeq(I)
           n == Len(calls)
<1>1. DOMAIN calls = 1..n /\ n \in Nat
  OBVIOUS
<1>2. I \in SUBSET (1..n) /\ \A j \in 1..n : calls[j].tab # t => j \in I
  BY <1>1 DEF OfOthers
<1>3. calls' = [k \in DOMAIN q |-> calls[q[k]]]
  BY DEF Outliving
<1>4. q = SetToSeq(I)
  OBVIOUS
<1> HIDE DEF I, q, n
<1>5. IsFiniteSet(1..n) /\ Cardinality(1..n) = IF 1 > n THEN 0 ELSE n - 1 + 1
  <2>1. 1 \in Int /\ n \in Int
    BY <1>1
  <2> QED BY <2>1, FS_Interval, Zenon
<1>6. IsFiniteSet(I) /\ Cardinality(I) <= n
  <2>1. Cardinality(1..n) = n
    BY <1>1, <1>5
  <2> QED BY <1>2, <1>5, <2>1, FS_Subset
<1>7. /\ q \in Seq(I) /\ Len(q) = Cardinality(I)
      /\ \A k, m \in DOMAIN q : q[k] = q[m] => k = m
      /\ \A i \in I : \E k \in DOMAIN q : q[k] = i
  BY <1>4, <1>6, SomeOrder
<1>8. DOMAIN q = 1..Len(q) /\ Len(q) \in Nat /\ \A k \in DOMAIN q : q[k] \in DOMAIN calls
  <2>1. DOMAIN q = 1..Len(q) /\ Len(q) \in Nat /\ \A k \in DOMAIN q : q[k] \in I
    BY <1>7
  <2>2. \A k \in DOMAIN q : q[k] \in DOMAIN calls
    BY <1>1, <1>2, <2>1, Zenon
  <2> QED BY <2>1, <2>2
<1>9. \A k \in 1..Len(q) : calls[q[k]] \in Call
  BY <1>8
<1>10. calls' \in [1..Len(q) -> Call]
  BY <1>3, <1>8, <1>9
<1>11. calls' \in Seq(Call) /\ Len(calls') = Len(q) /\ DOMAIN calls' = DOMAIN q
  BY <1>8, <1>10
<1>12. q \in [DOMAIN calls' -> DOMAIN calls]
  BY <1>7, <1>8, <1>11
<1>13. SomeOf(q)
  BY <1>3, <1>7, <1>11, <1>12 DEF SomeOf
<1>14. ASSUME NEW j \in DOMAIN calls, calls[j].tab # t
       PROVE  \E k \in DOMAIN calls' : calls'[k] = calls[j]
  <2>1. j \in I
    BY <1>1, <1>2, <1>14
  <2> QED BY <1>3, <1>7, <1>11, <2>1
<1> QED BY <1>6, <1>7, <1>11, <1>13, <1>14 DEF n

\* A call is made, or answered.
NewCall(t, kind, to) ==
  [ tab |-> t, kind |-> kind, token |-> tabs[t].token, to |-> to,
    answer |-> "none", user |-> Nobody, new |-> None ]
Verbs == {"login", "read", "save", "set"}
LEMMA OneMade ==
  ASSUME TypeOK, NEW t \in Tabs, NEW kind \in Verbs, NEW to \in BOOLEAN, Ask(t, kind, to)
  PROVE  LET n == NewCall(t, kind, to)
         IN  /\ calls' \in Seq(Call) /\ Len(calls') <= MaxCalls /\ n \in Call
             /\ DOMAIN calls' = DOMAIN calls \cup {Len(calls) + 1} /\ calls'[Len(calls) + 1] = n
             /\ \A k \in DOMAIN calls : calls'[k] = calls[k]
<1> DEFINE n == NewCall(t, kind, to)
<1>1. tabs[t].token \in Tokens
  BY DEF TypeOK, Tab
<1>2. None \in Tokens
  BY SessionAssumption DEF None, Tokens
<1>3. n \in Call
  BY <1>1, <1>2 DEF NewCall, Call, Verbs
<1>4. calls' = Append(calls, n) /\ Len(calls) < MaxCalls
  BY DEF Ask, NewCall
<1>5. calls \in Seq(Call) /\ MaxCalls \in Nat
  BY SessionAssumption DEF TypeOK
<1> HIDE DEF n
<1>6. /\ calls' \in Seq(Call) /\ Len(calls') <= MaxCalls
      /\ DOMAIN calls' = DOMAIN calls \cup {Len(calls) + 1} /\ calls'[Len(calls) + 1] = n
      /\ \A k \in DOMAIN calls : calls'[k] = calls[k]
  BY <1>3, <1>4, <1>5, OneAppended
<1> QED BY <1>3, <1>6 DEF n

AnsweredCall(i, answer, user, new) == [calls[i] EXCEPT !.answer = answer, !.user = user, !.new = new]
LEMMA OneAnswered ==
  ASSUME calls \in Seq(Call), NEW i \in DOMAIN calls, NEW answer \in {"ok", "refused", "401"},
         NEW user \in Users \cup {Nobody}, NEW new \in Tokens, Answer(i, answer, user, new)
  PROVE  LET c == AnsweredCall(i, answer, user, new)
         IN  /\ calls' \in Seq(Call) /\ Len(calls') = Len(calls) /\ c \in Call
             /\ DOMAIN calls' = DOMAIN calls /\ calls'[i] = c
             /\ c.tab = calls[i].tab /\ c.kind = calls[i].kind /\ c.token = calls[i].token
             /\ c.answer = answer /\ c.user = user /\ c.new = new
             /\ \A k \in DOMAIN calls \ {i} : calls'[k] = calls[k]
<1> DEFINE c == AnsweredCall(i, answer, user, new)
<1>1. calls[i] \in Call
  OBVIOUS
<1>2. /\ c \in Call
      /\ c.tab = calls[i].tab /\ c.kind = calls[i].kind /\ c.token = calls[i].token
      /\ c.answer = answer /\ c.user = user /\ c.new = new
  BY <1>1 DEF Call, AnsweredCall
<1>3. calls' = [calls EXCEPT ![i] = c]
  BY DEF Answer, AnsweredCall
<1> HIDE DEF c
<1>4. /\ calls' \in Seq(Call) /\ Len(calls') = Len(calls) /\ DOMAIN calls' = DOMAIN calls
      /\ calls'[i] = c /\ \A k \in DOMAIN calls \ {i} : calls'[k] = calls[k]
  BY <1>2, <1>3, OneReplaced
<1> QED BY <1>2, <1>4 DEF c

-----------------------------------------------------------------------------
(* Types.                                                                  *)
\* What is stored is a token or none, and who has one.
LEMMA HydratedType ==
  ASSUME TypeOK
  PROVE  /\ Empty \in Store /\ Hydrated \in Store
         /\ None \in Tokens /\ Nobody \notin Users
BY SessionAssumption DEF TypeOK, Hydrated, Empty, Store, Tokens, None, Nobody, Users

\* A page with a store on it is a tab.
LEMMA OnPageType ==
  ASSUME NEW s \in Store, NEW where \in Pages
  PROVE  OnPage(s, where) \in Tab
BY DEF OnPage, Store, Tab, Pages, Guest

\* So is a tab with another user on it.
LEMMA BesideType ==
  ASSUME NEW x \in Tab, NEW u \in Users \cup {Nobody}, NEW m \in BOOLEAN
  PROVE  [x EXCEPT !.user = u, !.mixed = m] \in Tab
BY DEF Tab

LEMMA StoreOfType ==
  ASSUME TypeOK, NEW t \in Tabs
  PROVE  tabs[t] \in Tab /\ StoreOf(t) \in Store
BY DEF TypeOK, Tab, Store, StoreOf

\* A call of the profile page, or of the login, is one of the kinds.
LEMMA AskedCall ==
  ASSUME TypeOK, NEW t \in Tabs,
         LogIn(t) \/ \E kind \in {"read", "save", "set"} : Profile(t, kind)
  PROVE  \E kind \in Verbs, to \in BOOLEAN :
           /\ Ask(t, kind, to)
           /\ kind # "login" => tabs[t].page = "profile"
<1>1. CASE LogIn(t)
  BY <1>1 DEF LogIn, Verbs
<1>2. ASSUME NEW kind \in {"read", "save", "set"}, Profile(t, kind)
      PROVE  \E to \in BOOLEAN : Ask(t, kind, to)
  <2>1. (~tabs[t].user.driver) \in BOOLEAN /\ FALSE \in BOOLEAN
    BY Zenon
  <2>2. Ask(t, kind, ~tabs[t].user.driver) \/ Ask(t, kind, FALSE)
    BY <1>2 DEF Profile
  <2> QED BY <2>1, <2>2
<1> QED BY <1>1, <1>2 DEF Profile, Verbs

\* Who is served: his account and his mode.
LEMMA ServedMe ==
  ASSUME TypeOK, NEW i \in DOMAIN calls, CallOK(calls[i]), ServeMe(i)
  PROVE  /\ calls[i].token \in DOMAIN issued /\ issued[calls[i].token] \in Accounts
         /\ \/ Answer(i, "401", Nobody, None) /\ UNCHANGED <<mode, behind>>
            \/ \E now \in BOOLEAN :
                 LET a == issued[calls[i].token] IN
                 /\ mode' = [mode EXCEPT ![a] = now]
                 /\ \/ /\ Answer(i, "ok", [of |-> a, driver |-> now], None)
                       /\ behind' = IF now = mode[a] THEN behind
                                    ELSE behind \cup { t \in Tabs : t # calls[i].tab \/ Unheard(i, t) }
                    \/ /\ Answer(i, "refused", Nobody, None)
                       /\ behind' = IF now = mode[a] THEN behind ELSE Tabs
<1> DEFINE c == calls[i]
           a == issued[c.token]
           now == IF c.kind = "set" THEN c.to ELSE mode[a]
<1>1. c \in Call /\ c.kind # "login" /\ issued \in Seq(Accounts) /\ mode \in [Accounts -> BOOLEAN]
  BY DEF TypeOK, ServeMe
<1>2. c.token \in 0..Len(issued) /\ c.token # 0
  BY <1>1 DEF CallOK, Known, None
<1>3. c.token \in DOMAIN issued /\ a \in Accounts
  BY <1>1, <1>2
<1>4. now \in BOOLEAN
  <2>1. c.to \in BOOLEAN /\ mode[a] \in BOOLEAN
    BY <1>1, <1>3 DEF Call
  <2> QED BY <2>1
<1>5. IF c.token \in dead
      THEN Answer(i, "401", Nobody, None) /\ UNCHANGED <<mode, behind>>
      ELSE /\ mode' = [mode EXCEPT ![a] = now]
           /\ \/ /\ Answer(i, "ok", [of |-> a, driver |-> now], None)
                 /\ behind' = IF now = mode[a] THEN behind
                              ELSE behind \cup { t \in Tabs : t # c.tab \/ Unheard(i, t) }
              \/ /\ Answer(i, "refused", Nobody, None)
                 /\ behind' = IF now = mode[a] THEN behind ELSE Tabs
  BY DEF ServeMe
<1> HIDE DEF now
<1> QED BY <1>3, <1>4, <1>5

\* Every action keeps the types.
LEMMA TypeStep ==
  ASSUME TypeOK, \A i \in DOMAIN calls : CallOK(calls[i]), [Next]_vars
  PROVE  TypeOK'
<1>0. /\ tabs \in [Tabs -> Tab] /\ storage \in Store
      /\ calls \in Seq(Call) /\ Len(calls) <= MaxCalls /\ \A i \in DOMAIN calls : calls[i] \in Call
      /\ issued \in Seq(Accounts) /\ Len(issued) <= MaxLogins
      /\ dead \subseteq DOMAIN issued /\ left \subseteq Tokens
      /\ mode \in [Accounts -> BOOLEAN] /\ behind \subseteq Tabs /\ turns \in 0..MaxTurns
      /\ MaxTurns \in Nat /\ MaxLogins \in Nat /\ MaxCalls \in Nat
      /\ Empty \in Store /\ Hydrated \in Store /\ None \in Tokens /\ Nobody \in Users \cup {Nobody}
  BY HydratedType, SessionAssumption DEF TypeOK
<1>1. ASSUME NEW t \in Tabs, OpenTab(t)
      PROVE  TypeOK'
  <2>1. calls' \in Seq(Call) /\ Len(calls') <= Len(calls)
    BY <1>0, <1>1, OthersRemain DEF OpenTab
  <2>2. tabs' \in [Tabs -> Tab]
    <3>1. OnPage(Hydrated, "login") \in Tab /\ OnPage(Hydrated, "map") \in Tab
      BY <1>0, OnPageType DEF Pages, Guest
    <3> QED BY <1>0, <1>1, <3>1 DEF OpenTab
  <2> QED BY <1>0, <1>1, <2>1, <2>2 DEF OpenTab, Turn, TypeOK
<1>2. ASSUME NEW t \in Tabs, LogIn(t) \/ \E kind \in {"read", "save", "set"} : Profile(t, kind)
      PROVE  TypeOK'
  <2>1. PICK kind \in Verbs, to \in BOOLEAN : Ask(t, kind, to)
    BY <1>2, AskedCall
  <2>2. calls' \in Seq(Call) /\ Len(calls') <= MaxCalls
    BY <2>1, OneMade
  <2> QED BY <1>0, <1>2, <2>1, <2>2 DEF LogIn, Profile, Ask, Turn, TypeOK
<1>3. ASSUME NEW t \in Tabs, NEW where \in Pages, Go(t, where)
      PROVE  TypeOK'
  <2>1. tabs' \in [Tabs -> Tab]
    BY <1>0, <1>3 DEF Go, Tab
  <2> QED BY <1>0, <1>3, <2>1 DEF Go, Turn, TypeOK
<1>4. ASSUME NEW t \in Tabs, Leave(t)
      PROVE  tabs' \in [Tabs -> Tab] /\ storage' \in Store /\ left' \subseteq Tokens
  <2>1. OnPage(Empty, "login") \in Tab
    BY <1>0, OnPageType DEF Pages, Guest
  <2>2. tabs[t].token \in Tokens
    BY <1>0 DEF Tab
  <2> QED BY <1>0, <1>4, <2>1, <2>2 DEF Leave
<1>5. ASSUME NEW t \in Tabs, LogOut(t)
      PROVE  TypeOK'
  BY <1>0, <1>4, <1>5 DEF LogOut, Turn, TypeOK
<1>6. ASSUME NEW i \in DOMAIN calls, NEW a \in Accounts, ServeLogin(i, a)
      PROVE  TypeOK'
  <2>1. issued' = Append(issued, a) /\ Len(issued) < MaxLogins
    BY <1>6 DEF ServeLogin
  <2>2. /\ issued' \in Seq(Accounts) /\ Len(issued') = Len(issued) + 1
        /\ DOMAIN issued' = DOMAIN issued \cup {Len(issued) + 1}
    BY <1>0, <2>1, OneAppended
  <2>3. Len(issued') \in Tokens
    BY <1>0, <2>1, <2>2 DEF Tokens
  <2>4. UserOf(a) \in Users
    BY <1>0 DEF UserOf, Users
  <2>5. calls' \in Seq(Call) /\ Len(calls') = Len(calls)
    BY <1>0, <1>6, <2>3, <2>4, OneAnswered DEF ServeLogin
  <2> QED BY <1>0, <1>6, <2>1, <2>2, <2>5 DEF ServeLogin, TypeOK
<1>7. ASSUME NEW i \in DOMAIN calls, ServeMe(i)
      PROVE  TypeOK'
  <2>1. PICK answer \in {"ok", "refused", "401"}, user \in Users \cup {Nobody} : Answer(i, answer, user, None)
    BY <1>0, <1>7, ServedMe DEF Users
  <2>2. calls' \in Seq(Call) /\ Len(calls') = Len(calls)
    BY <1>0, <2>1, OneAnswered
  <2>3. mode' \in [Accounts -> BOOLEAN] /\ behind' \subseteq Tabs
    BY <1>0, <1>7, ServedMe
  <2> QED BY <1>0, <1>7, <2>2, <2>3 DEF ServeMe, TypeOK
<1>8. ASSUME NEW i \in DOMAIN calls, Refuse(i)
      PROVE  TypeOK'
  <2>1. PICK answer \in {"ok", "refused", "401"} : Answer(i, answer, Nobody, None)
    BY <1>8 DEF Refuse
  <2>2. calls' \in Seq(Call) /\ Len(calls') = Len(calls)
    BY <1>0, <2>1, OneAnswered
  <2> QED BY <1>0, <1>8, <2>2 DEF Refuse, TypeOK
<1>9. ASSUME NEW i \in DOMAIN calls, Taken(i)
      PROVE  calls' \in Seq(Call) /\ Len(calls') <= MaxCalls
  BY <1>0, <1>9, OneTaken
<1>10. ASSUME NEW i \in DOMAIN calls, TakeLogin(i)
       PROVE  TypeOK'
  <2> DEFINE c == calls[i]
             s == [token |-> c.new, user |-> c.user, mixed |-> FALSE]
  <2>1. s \in Store /\ c.tab \in Tabs
    BY <1>0 DEF Call, Store
  <2>2. OnPage(s, "map") \in Tab
    BY <2>1, OnPageType DEF Pages
  <2>3. tabs' = [tabs EXCEPT ![c.tab] = OnPage(s, "map")] /\ storage' = s
    BY <1>10 DEF TakeLogin
  <2>4. behind' \subseteq Tabs
    BY <1>0, <1>10, <2>1 DEF TakeLogin, Current
  <2> HIDE DEF s
  <2> QED BY <1>0, <1>9, <1>10, <2>1, <2>2, <2>3, <2>4 DEF TakeLogin, TypeOK
<1>11. ASSUME NEW i \in DOMAIN calls, TakeUser(i)
       PROVE  TypeOK'
  <2> DEFINE c == calls[i]
  <2>1. c.tab \in Tabs /\ c.user \in Users \cup {Nobody}
    BY <1>0 DEF Call
  <2>2. Beside(c).mixed \in BOOLEAN
    BY Zenon DEF Beside
  <2>3. Beside(c) \in Store /\ Beside(c).mixed \in BOOLEAN
    <3>1. tabs[c.tab].token \in Tokens
      BY <1>0, <2>1 DEF Tab
    <3> QED BY <2>1, <2>2, <3>1 DEF Beside, Store
  <2>4. tabs' = [tabs EXCEPT ![c.tab].user = c.user, ![c.tab].mixed = Beside(c).mixed]
    BY <1>11 DEF TakeUser
  <2>5. storage' \in Store
    BY <1>0, <1>11, <2>3 DEF TakeUser
  <2>6. tabs' \in [Tabs -> Tab]
    <3>1. [tabs[c.tab] EXCEPT !.user = c.user, !.mixed = Beside(c).mixed] \in Tab
      <4>1. tabs[c.tab] \in Tab
        BY <1>0, <2>1
      <4> HIDE DEF c
      <4> QED BY <2>1, <2>3, <4>1, BesideType
    <3>2. tabs' = [tabs EXCEPT ![c.tab] = [tabs[c.tab] EXCEPT !.user = c.user, !.mixed = Beside(c).mixed]]
      BY <1>0, <2>1, <2>4
    <3> QED BY <1>0, <2>1, <3>1, <3>2
  <2>7. behind' \subseteq Tabs
    BY <1>0, <1>11, <2>1 DEF TakeUser, Current
  <2> HIDE DEF c
  <2> QED BY <1>0, <1>9, <1>11, <2>5, <2>6, <2>7 DEF TakeUser, TypeOK
<1>12. ASSUME NEW i \in DOMAIN calls, Take401(i)
       PROVE  TypeOK'
  <2>1. calls[i].tab \in Tabs
    BY <1>0 DEF Call
  <2> QED BY <1>0, <1>4, <1>9, <1>12, <2>1 DEF Take401, TypeOK
<1>13. ASSUME NEW i \in DOMAIN calls, TakeRefusal(i)
       PROVE  TypeOK'
  BY <1>0, <1>9, <1>13 DEF TakeRefusal, TypeOK
<1>14. ASSUME NEW a \in Accounts, ChangeMode(a)
       PROVE  TypeOK'
  <2>1. (~mode[a]) \in BOOLEAN
    BY Zenon
  <2> QED BY <1>0, <1>14, <2>1 DEF ChangeMode, Turn, TypeOK
<1>15. ASSUME NEW n \in 1..MaxLogins, Expire(n)
       PROVE  TypeOK'
  BY <1>0, <1>15 DEF Expire, Turn, TypeOK
<1>16. CASE UNCHANGED vars
  BY <1>0, <1>16 DEF vars, TypeOK
<1> QED BY <1>1, <1>2, <1>3, <1>5, <1>6, <1>7, <1>8, <1>10, <1>11, <1>12, <1>13, <1>14, <1>15, <1>16 DEF Next

-----------------------------------------------------------------------------
(* Tokens and who they speak for.                                          *)
\* Tokens are only ever added.
LEMMA IssuedGrow ==
  ASSUME TypeOK, [Next]_vars
  PROVE  /\ issued \in Seq(Accounts) /\ issued' \in Seq(Accounts) /\ Len(issued) <= Len(issued')
         /\ \A n \in 1..Len(issued) : issued'[n] = issued[n]
<1>1. issued \in Seq(Accounts)
  BY DEF TypeOK
<1>2. UNCHANGED issued \/ \E a \in Accounts : issued' = Append(issued, a)
  BY DEF Next, vars, OpenTab, LogIn, LogOut, Go, Profile, ServeLogin, ServeMe, Refuse, TakeLogin, TakeUser,
     Take401, TakeRefusal, ChangeMode, Expire
<1> QED BY <1>1, <1>2

\* So a call that is right stays right.
LEMMA StillOK ==
  ASSUME TypeOK, [Next]_vars, NEW c \in Call, CallOK(c)
  PROVE  CallOK(c)'
<1>1. /\ Len(issued) \in Nat /\ Len(issued') \in Nat /\ Len(issued) <= Len(issued')
      /\ \A n \in 1..Len(issued) : issued'[n] = issued[n]
  BY IssuedGrow
<1>2. Known(c.token) /\ Known(c.new)
  BY DEF CallOK
<1>3. Known(c.token)' /\ Known(c.new)'
  BY <1>1, <1>2 DEF Known
<1>4. c.token # None => issued'[c.token] = issued[c.token]
  BY <1>1, <1>2 DEF Known, None
<1>5. c.new # None => issued'[c.new] = issued[c.new]
  BY <1>1, <1>2 DEF Known, None
<1> QED BY <1>3, <1>4, <1>5 DEF CallOK

\* Every step leaves calls that are right.
LEMMA CallsStep ==
  ASSUME TypeOK, \A s \in Stores : Known(s.token), ScreenIsTheAccount,
         \A i \in DOMAIN calls : CallOK(calls[i]), [Next]_vars
  PROVE  \A k \in DOMAIN calls' : CallOK(calls[k])'
<1>0. /\ calls \in Seq(Call) /\ \A i \in DOMAIN calls : calls[i] \in Call /\ CallOK(calls[i])
      /\ issued \in Seq(Accounts)
  BY DEF TypeOK
<1>1. ASSUME NEW o, SomeOf(o)
      PROVE  \A k \in DOMAIN calls' : CallOK(calls[k])'
  <2> TAKE k \in DOMAIN calls'
  <2>1. o[k] \in DOMAIN calls /\ calls'[k] = calls[o[k]]
    BY <1>1 DEF SomeOf
  <2>2. PICK c \in Call : c = calls'[k] /\ CallOK(c)
    BY <1>0, <2>1
  <2>3. CallOK(c)'
    BY <2>2, StillOK
  <2> QED BY <2>2, <2>3 DEF CallOK, Known
<1>2. ASSUME NEW c \in Call, NEW k \in DOMAIN calls', calls'[k] = c, CallOK(c)
      PROVE  CallOK(calls[k])'
  <2>1. CallOK(c)'
    BY <1>2, StillOK
  <2> QED BY <1>2, <2>1 DEF CallOK, Known
<1>3. ASSUME NEW t \in Tabs, LogIn(t) \/ \E kind \in {"read", "save", "set"} : Profile(t, kind)
      PROVE  \A k \in DOMAIN calls' : CallOK(calls[k])'
  <2>1. PICK kind \in Verbs, to \in BOOLEAN :
          Ask(t, kind, to) /\ (kind # "login" => tabs[t].page = "profile")
    BY <1>3, AskedCall
  <2> DEFINE n == NewCall(t, kind, to)
  <2>2. /\ n \in Call /\ DOMAIN calls' = DOMAIN calls \cup {Len(calls) + 1}
        /\ calls'[Len(calls) + 1] = n /\ \A k \in DOMAIN calls : calls'[k] = calls[k]
    BY <2>1, OneMade
  <2>3. Known(tabs[t].token)
    <3>1. StoreOf(t) \in Stores /\ StoreOf(t).token = tabs[t].token
      BY DEF Stores, StoreOf
    <3> QED BY <3>1
  <2>4. kind # "login" => tabs[t].token # None
    BY <2>1 DEF ScreenIsTheAccount, Guest
  <2>5. CallOK(n)
    BY <1>0, <2>3, <2>4 DEF CallOK, NewCall, Known, None
  <2> HIDE DEF n
  <2> QED BY <1>0, <1>2, <2>2, <2>5
<1>4. ASSUME NEW i \in DOMAIN calls, NEW answer \in {"ok", "refused", "401"},
             NEW user \in Users \cup {Nobody}, NEW new \in Tokens, Answer(i, answer, user, new),
             answer = "ok" => user # Nobody,
             \/ calls[i].kind = "login" /\ (answer = "ok" => new # None /\ issued'[new] = user.of)
             \/ calls[i].kind # "login" /\ new = None /\ (answer = "ok" => issued[calls[i].token] = user.of),
             new \in 0..Len(issued')
      PROVE  \A k \in DOMAIN calls' : CallOK(calls[k])'
  <2> DEFINE d == AnsweredCall(i, answer, user, new)
  <2>0. /\ DOMAIN calls' = DOMAIN calls /\ calls'[i] = d /\ d \in Call
        /\ d.kind = calls[i].kind /\ d.token = calls[i].token
        /\ d.answer = answer /\ d.user = user /\ d.new = new
        /\ \A k \in DOMAIN calls \ {i} : calls'[k] = calls[k]
    <3>1. calls \in Seq(Call) /\ Answer(i, answer, user, new)
      BY <1>0, <1>4
    <3> QED BY <3>1, OneAnswered
  <2> HIDE DEF d
  <2>1. PICK c \in Call : c = d
    BY <2>0
  <2>2. /\ DOMAIN calls' = DOMAIN calls /\ calls'[i] = c
        /\ c.kind = calls[i].kind /\ c.token = calls[i].token
        /\ c.answer = answer /\ c.user = user /\ c.new = new
        /\ \A k \in DOMAIN calls \ {i} : calls'[k] = calls[k]
    BY <2>0, <2>1
  <2>3. CallOK(calls[i])
    BY <1>0
  <2>4. Known(c.token)' /\ (c.token # None => issued'[c.token] = issued[c.token])
    BY <2>2, <2>3, IssuedGrow DEF CallOK, Known, None
  <2>5. CallOK(calls[i])'
    BY <1>4, <2>2, <2>3, <2>4 DEF CallOK, Known
  <2> QED BY <1>0, <1>2, <2>2, <2>5
<1>5. ASSUME NEW i \in DOMAIN calls, NEW a \in Accounts, ServeLogin(i, a)
      PROVE  \A k \in DOMAIN calls' : CallOK(calls[k])'
  <2>1. /\ issued' = Append(issued, a) /\ Len(issued) < MaxLogins /\ calls[i].kind = "login"
        /\ Answer(i, "ok", UserOf(a), Len(issued'))
    BY <1>5 DEF ServeLogin
  <2>2. Len(issued') = Len(issued) + 1 /\ issued'[Len(issued')] = a /\ Len(issued) \in Nat
    BY <1>0, <2>1
  <2>3. Len(issued') \in Tokens /\ Len(issued') # None /\ Len(issued') \in 0..Len(issued')
    BY <2>1, <2>2, SessionAssumption DEF Tokens, None, Known
  <2>4. UserOf(a) \in Users /\ UserOf(a).of = a /\ UserOf(a) # Nobody
    <3>1. mode[a] \in BOOLEAN
      BY DEF TypeOK
    <3> QED BY <3>1, HydratedType DEF UserOf, Users
  <2> HIDE DEF Answer
  <2> QED BY <1>4, <2>1, <2>2, <2>3, <2>4
<1>6. ASSUME NEW i \in DOMAIN calls, ServeMe(i)
      PROVE  \A k \in DOMAIN calls' : CallOK(calls[k])'
  <2> DEFINE a == issued[calls[i].token]
  <2>1. CallOK(calls[i]) /\ calls[i].kind # "login"
    BY <1>0, <1>6 DEF ServeMe
  <2>2. /\ a \in Accounts
        /\ \/ Answer(i, "401", Nobody, None) \/ Answer(i, "refused", Nobody, None)
           \/ \E now \in BOOLEAN : Answer(i, "ok", [of |-> a, driver |-> now], None)
    BY <1>6, <2>1, ServedMe
  <2>3. None \in Tokens /\ None \in 0..Len(issued')
    BY HydratedType, IssuedGrow DEF Known, None
  <2>4. \A now \in BOOLEAN : [of |-> a, driver |-> now] \in Users /\ [of |-> a, driver |-> now] # Nobody
    BY <2>2, HydratedType DEF Users
  <2> HIDE DEF a
  <2>5. ASSUME NEW now \in BOOLEAN, Answer(i, "ok", [of |-> a, driver |-> now], None)
        PROVE  \A k \in DOMAIN calls' : CallOK(calls[k])'
    <3>1. [of |-> a, driver |-> now].of = issued[calls[i].token]
      BY DEF a
    <3> QED BY <1>4, <2>1, <2>3, <2>4, <2>5, <3>1
  <2>6. ASSUME NEW answer \in {"401", "refused"}, Answer(i, answer, Nobody, None)
        PROVE  \A k \in DOMAIN calls' : CallOK(calls[k])'
    BY <1>4, <2>1, <2>3, <2>6
  <2> QED BY <2>2, <2>5, <2>6
<1>7. ASSUME NEW i \in DOMAIN calls, Refuse(i)
      PROVE  \A k \in DOMAIN calls' : CallOK(calls[k])'
  <2>1. PICK answer \in {"refused", "401"} : Answer(i, answer, Nobody, None)
    BY <1>7 DEF Refuse
  <2>2. None \in Tokens /\ None \in 0..Len(issued')
    BY HydratedType, IssuedGrow DEF Known, None
  <2> QED BY <1>4, <2>1, <2>2
<1>8. ASSUME NEW t \in Tabs, OpenTab(t)
      PROVE  \A k \in DOMAIN calls' : CallOK(calls[k])'
  BY <1>0, <1>1, <1>8, OthersRemain DEF OpenTab
<1>9. ASSUME NEW i \in DOMAIN calls, Taken(i)
      PROVE  \A k \in DOMAIN calls' : CallOK(calls[k])'
  BY <1>0, <1>1, <1>9, OneTaken
<1>10. ASSUME UNCHANGED calls
       PROVE  \A k \in DOMAIN calls' : CallOK(calls[k])'
  BY <1>0, <1>2, <1>10
<1> QED BY <1>3, <1>5, <1>6, <1>7, <1>8, <1>9, <1>10
        DEF Next, vars, LogOut, Go, TakeLogin, TakeUser, Take401, TakeRefusal, ChangeMode, Expire

\* The store a login leaves, and the one another answer leaves.
LoggedIn(c) == [token |-> c.new, user |-> c.user, mixed |-> FALSE]

\* What is stored was stored before, or somewhere else; or came with an answer.
LEMMA StoresMove ==
  ASSUME TypeOK, [Next]_vars, NEW s \in Stores'
  PROVE  \/ s \in Stores
         \/ s = Empty
         \/ \E i \in DOMAIN calls : TakeLogin(i) /\ s = LoggedIn(calls[i])
         \/ \E i \in DOMAIN calls : TakeUser(i) /\ s = Beside(calls[i])
<1> DEFINE Before(x) == \/ x \in Stores
                        \/ x = Empty
                        \/ \E i \in DOMAIN calls : TakeLogin(i) /\ x = LoggedIn(calls[i])
                        \/ \E i \in DOMAIN calls : TakeUser(i) /\ x = Beside(calls[i])
<1>0. tabs \in [Tabs -> Tab] /\ storage \in Store /\ \A i \in DOMAIN calls : calls[i].tab \in Tabs
  <2>1. \A i \in DOMAIN calls : calls[i] \in Call
    BY DEF TypeOK
  <2> QED BY <2>1 DEF TypeOK, Call
<1>1. storage \in Stores /\ \A t \in Tabs : StoreOf(t) \in Stores
  BY DEF Stores
<1>2. Before(storage')
  <2>1. \A t \in Tabs : OpenTab(t) => Before(storage')
    BY <1>1 DEF OpenTab, Hydrated
  <2>2. \A t \in Tabs : Leave(t) => Before(storage')
    BY DEF Leave
  <2>3. \A i \in DOMAIN calls : TakeLogin(i) => Before(storage')
    BY DEF TakeLogin, LoggedIn
  <2>4. \A i \in DOMAIN calls : TakeUser(i) => Before(storage')
    BY <1>1 DEF TakeUser
  <2>5. UNCHANGED storage => Before(storage')
    BY <1>1
  <2> HIDE DEF Before
  <2> QED BY <1>0, <2>1, <2>2, <2>3, <2>4, <2>5
        DEF Next, vars, LogIn, Profile, LogOut, Go, ServeLogin, ServeMe, Refuse, Take401, TakeRefusal, ChangeMode, Expire
<1>3. ASSUME NEW t \in Tabs
      PROVE  Before(StoreOf(t)')
  <2>1. ASSUME NEW u \in Tabs, NEW x \in Store, NEW where \in Pages,
               tabs' = [tabs EXCEPT ![u] = OnPage(x, where)], Before(x)
        PROVE  Before(StoreOf(t)')
    <3>1. CASE t = u
      <4>1. tabs'[t] = OnPage(x, where)
        BY <1>0, <2>1, <3>1
      <4>2. StoreOf(t)' = x
        BY <4>1 DEF StoreOf, OnPage, Store
      <4> QED BY <2>1, <4>2
    <3>2. CASE t # u
      <4>1. StoreOf(t)' = StoreOf(t)
        BY <1>0, <2>1, <3>2 DEF StoreOf
      <4> QED BY <1>1, <4>1
    <3> QED BY <3>1, <3>2
  <2>2. ASSUME NEW u \in Tabs, OpenTab(u)
        PROVE  Before(StoreOf(t)')
    <3>1. Before(Hydrated) /\ Hydrated \in Store
      BY <1>1, HydratedType DEF Hydrated
    <3>2. PICK where \in Pages : tabs' = [tabs EXCEPT ![u] = OnPage(Hydrated, where)]
      BY <2>2 DEF OpenTab, Pages, Guest
    <3> HIDE DEF Before
    <3> QED BY <2>1, <3>1, <3>2
  <2>3. ASSUME NEW u \in Tabs, Leave(u)
        PROVE  Before(StoreOf(t)')
    <3>1. Before(Empty) /\ Empty \in Store /\ "login" \in Pages
      BY HydratedType DEF Pages, Guest
    <3> HIDE DEF Before
    <3> QED BY <2>1, <2>3, <3>1 DEF Leave
  <2>4. ASSUME NEW i \in DOMAIN calls, TakeLogin(i)
        PROVE  Before(StoreOf(t)')
    <3>1. Before(LoggedIn(calls[i])) /\ LoggedIn(calls[i]) \in Store /\ "map" \in Pages
      <4>1. calls[i] \in Call
        BY DEF TypeOK
      <4> QED BY <2>4, <4>1 DEF Pages, LoggedIn, Call, Store
    <3>2. tabs' = [tabs EXCEPT ![calls[i].tab] = OnPage(LoggedIn(calls[i]), "map")]
      BY <2>4 DEF TakeLogin, LoggedIn
    <3> HIDE DEF Before
    <3> QED BY <1>0, <2>1, <3>1, <3>2
  <2>5. ASSUME NEW i \in DOMAIN calls, TakeUser(i)
        PROVE  Before(StoreOf(t)')
    <3> DEFINE c == calls[i]
    <3>1. tabs' = [tabs EXCEPT ![c.tab].user = c.user, ![c.tab].mixed = Beside(c).mixed]
      BY <2>5 DEF TakeUser
    <3>2. CASE t = c.tab
      <4>1. /\ tabs'[t].token = tabs[t].token /\ tabs'[t].user = c.user
            /\ tabs'[t].mixed = Beside(c).mixed
        BY <1>0, <3>1, <3>2 DEF Tab
      <4>2. StoreOf(t)' = Beside(c)
        BY <3>2, <4>1 DEF StoreOf, Beside
      <4> QED BY <2>5, <4>2
    <3>3. CASE t # c.tab
      <4>1. StoreOf(t)' = StoreOf(t)
        BY <1>0, <3>1, <3>3 DEF StoreOf
      <4> QED BY <1>1, <4>1
    <3> QED BY <3>2, <3>3
  <2>6. ASSUME NEW u \in Tabs, NEW where \in Pages, Go(u, where)
        PROVE  Before(StoreOf(t)')
    <3>1. StoreOf(t)' = StoreOf(t)
      BY <1>0, <2>6 DEF StoreOf, Go, Tab
    <3> QED BY <1>1, <3>1
  <2>7. UNCHANGED tabs => Before(StoreOf(t)')
    BY <1>1 DEF StoreOf
  <2> HIDE DEF Before
  <2> QED BY <1>0, <2>2, <2>3, <2>4, <2>5, <2>6, <2>7
        DEF Next, vars, LogIn, Profile, LogOut, ServeLogin, ServeMe, Refuse, Take401, TakeRefusal, ChangeMode, Expire
<1>4. s = storage' \/ \E t \in Tabs : s = StoreOf(t)'
  BY DEF Stores
<1> HIDE DEF Before
<1>5. Before(s)
  BY <1>2, <1>3, <1>4
<1> QED BY <1>5 DEF Before

\* So every token that is stored was issued, and speaks for the account beside it.
LEMMA StoresStep ==
  ASSUME TypeOK, \A s \in Stores : Known(s.token),
         \A i \in DOMAIN calls : CallOK(calls[i]), ScreenIsTheAccount, [Next]_vars
  PROVE  /\ \A s \in Stores' : s.token \in 0..Len(issued')
         /\ \A s \in Stores' : s.user # Nobody /\ ~s.mixed => s.token # None /\ issued'[s.token] = s.user.of
<1> SUFFICES ASSUME NEW s \in Stores'
             PROVE  /\ s.token \in 0..Len(issued')
                    /\ s.user # Nobody /\ ~s.mixed => s.token # None /\ issued'[s.token] = s.user.of
  OBVIOUS
<1>1. /\ Len(issued) \in Nat /\ Len(issued') \in Nat /\ Len(issued) <= Len(issued')
      /\ \A n \in 1..Len(issued) : issued'[n] = issued[n]
  BY IssuedGrow
<1>2. CASE s \in Stores
  <2>1. Known(s.token) /\ (s.user # Nobody /\ ~s.mixed => s.token # None /\ issued[s.token] = s.user.of)
    BY <1>2 DEF ScreenIsTheAccount, Stores
  <2> QED BY <1>1, <2>1 DEF Known, None
<1>3. CASE s = Empty
  BY <1>1, <1>3 DEF Empty, None
<1>4. ASSUME NEW i \in DOMAIN calls, TakeLogin(i), s = LoggedIn(calls[i])
      PROVE  /\ s.token \in 0..Len(issued')
             /\ s.user # Nobody /\ ~s.mixed => s.token # None /\ issued'[s.token] = s.user.of
  BY <1>1, <1>4 DEF LoggedIn, CallOK, Known, None, TakeLogin
<1>5. ASSUME NEW i \in DOMAIN calls, TakeUser(i), s = Beside(calls[i])
      PROVE  /\ s.token \in 0..Len(issued')
             /\ s.user # Nobody /\ ~s.mixed => s.token # None /\ issued'[s.token] = s.user.of
  <2>1. calls[i] \in Call /\ calls[i].tab \in Tabs
    <3>1. calls[i] \in Call
      BY DEF TypeOK
    <3> QED BY <3>1 DEF Call
  <2>2. Known(tabs[calls[i].tab].token)
    <3>1. StoreOf(calls[i].tab) \in Stores /\ StoreOf(calls[i].tab).token = tabs[calls[i].tab].token
      BY <2>1 DEF Stores, StoreOf
    <3> QED BY <3>1
  <2>3. calls[i].token # None /\ Known(calls[i].token) /\ issued[calls[i].token] = calls[i].user.of
    BY <1>5 DEF CallOK, TakeUser
  <2>4. s.token = tabs[calls[i].tab].token /\ s.user = calls[i].user
        /\ (~s.mixed => tabs[calls[i].tab].token = calls[i].token)
    BY <1>5 DEF Beside
  <2> QED BY <1>1, <2>2, <2>3, <2>4 DEF Known, None
<1> QED BY <1>2, <1>3, <1>4, <1>5, StoresMove

\* A page for users is shown to somebody who has a token.
LEMMA PagesStep ==
  ASSUME TypeOK, \A i \in DOMAIN calls : CallOK(calls[i]), ScreenIsTheAccount, [Next]_vars, NEW t \in Tabs,
         tabs'[t].page \notin Guest \cup {"closed"}
  PROVE  tabs'[t].token # None
<1>0. tabs \in [Tabs -> Tab] /\ \A i \in DOMAIN calls : calls[i] \in Call /\ calls[i].tab \in Tabs
  <2>1. tabs \in [Tabs -> Tab] /\ \A i \in DOMAIN calls : calls[i] \in Call
    BY DEF TypeOK
  <2> QED BY <2>1 DEF Call
<1>1. tabs[t].page \notin Guest \cup {"closed"} => tabs[t].token # None
  BY DEF ScreenIsTheAccount
<1>2. ASSUME NEW u \in Tabs, OpenTab(u) PROVE tabs'[t].token # None
  BY <1>0, <1>1, <1>2 DEF OpenTab, OnPage, Guest
<1>3. ASSUME NEW u \in Tabs, Leave(u) PROVE tabs'[t].token # None
  BY <1>0, <1>1, <1>3 DEF Leave, OnPage, Guest
<1>4. ASSUME NEW u \in Tabs, NEW where \in Pages, Go(u, where) PROVE tabs'[t].token # None
  BY <1>0, <1>1, <1>4 DEF Go, Authed, Tab, Guest
<1>5. ASSUME NEW i \in DOMAIN calls, TakeLogin(i) PROVE tabs'[t].token # None
  BY <1>0, <1>1, <1>5 DEF TakeLogin, CallOK, OnPage, Guest
<1>6. ASSUME NEW i \in DOMAIN calls, TakeUser(i) PROVE tabs'[t].token # None
  <2>1. tabs'[t].page = tabs[t].page /\ tabs'[t].token = tabs[t].token
    BY <1>0, <1>6 DEF TakeUser, Tab
  <2> QED BY <1>1, <2>1
<1>7. UNCHANGED tabs => tabs'[t].token # None
  BY <1>1
<1> QED BY <1>0, <1>2, <1>3, <1>4, <1>5, <1>6, <1>7
        DEF Next, vars, LogIn, Profile, LogOut, ServeLogin, ServeMe, Refuse, Take401, TakeRefusal, ChangeMode, Expire

\* Tokens that are stored after a step, and those somebody has left.
LEMMA HoldingMoves ==
  ASSUME TypeOK, [Next]_vars
  PROVE  /\ \A n \in Holding' : \/ n \in Holding \/ n = None
                                \/ \E i \in DOMAIN calls : TakeLogin(i) /\ n = calls[i].new
         /\ left' \subseteq left \cup Holding
<1>1. \A t \in Tabs : tabs[t].token \in Holding
  <2> TAKE t \in Tabs
  <2>1. StoreOf(t) \in Stores /\ StoreOf(t).token = tabs[t].token
    BY DEF Stores, StoreOf
  <2> QED BY <2>1 DEF Holding
<1>2. \A i \in DOMAIN calls : calls[i].tab \in Tabs
  <2>1. \A i \in DOMAIN calls : calls[i] \in Call
    BY DEF TypeOK
  <2> QED BY <2>1 DEF Call
<1>3. ASSUME NEW n \in Holding'
      PROVE  \/ n \in Holding \/ n = None
             \/ \E i \in DOMAIN calls : TakeLogin(i) /\ n = calls[i].new
  <2>1. PICK s \in Stores' : n = s.token
    BY DEF Holding
  <2>2. CASE s \in Stores
    BY <2>1, <2>2 DEF Holding
  <2>3. CASE s = Empty
    BY <2>1, <2>3 DEF Empty
  <2>4. ASSUME NEW i \in DOMAIN calls, TakeLogin(i), s = LoggedIn(calls[i])
        PROVE  n = calls[i].new
    BY <2>1, <2>4 DEF LoggedIn
  <2>5. ASSUME NEW i \in DOMAIN calls, TakeUser(i), s = Beside(calls[i])
        PROVE  n \in Holding
    BY <1>1, <1>2, <2>1, <2>5 DEF Beside
  <2> QED BY <2>2, <2>3, <2>4, <2>5, StoresMove
<1>4. left' \subseteq left \cup Holding
  <2>1. UNCHANGED left \/ \E t \in Tabs : Leave(t)
    BY <1>2 DEF Next, vars, OpenTab, LogIn, LogOut, Go, Profile, ServeLogin, ServeMe, Refuse, TakeLogin, TakeUser,
       Take401, TakeRefusal, ChangeMode, Expire
  <2> QED BY <1>1, <2>1 DEF Leave
<1> QED BY <1>3, <1>4

\* A new token goes to one tab, once.
LEMMA FreshStep ==
  ASSUME TypeOK, \A s \in Stores : Known(s.token), \A n \in left : Known(n),
         \A i \in DOMAIN calls : CallOK(calls[i]), Fresh, [Next]_vars
  PROVE  Fresh'
<1>0. /\ calls \in Seq(Call) /\ \A i \in DOMAIN calls : calls[i] \in Call /\ CallOK(calls[i])
      /\ issued \in Seq(Accounts)
  BY DEF TypeOK
<1>1. ASSUME \A i \in DOMAIN calls : ~TakeLogin(i)
      PROVE  left' \cup Holding' \subseteq left \cup Holding \cup {None}
  BY <1>1, HoldingMoves
<1>2. ASSUME NEW o, SomeOf(o), \A i \in DOMAIN calls : ~TakeLogin(i)
      PROVE  Fresh'
  BY <1>1, <1>2 DEF Fresh, SomeOf
<1>3. ASSUME NEW i \in DOMAIN calls, TakeLogin(i)
      PROVE  Fresh'
  <2>1. Taken(i)
    BY <1>3 DEF TakeLogin
  <2>2. PICK o : SomeOf(o) /\ \A k \in DOMAIN calls' : o[k] # i
    BY <1>0, <2>1, OneTaken
  <2>3. \A j \in DOMAIN calls : TakeLogin(j) => calls[j].new = calls[i].new
    <3>1. calls[i].tab \in Tabs /\ calls[i].new # None
      BY <1>0, <1>3 DEF TakeLogin, CallOK, Call
    <3> TAKE j \in DOMAIN calls
    <3>2. storage'.token = calls[i].new
      BY <1>3 DEF TakeLogin
    <3>3. TakeLogin(j) => storage'.token = calls[j].new
      BY DEF TakeLogin
    <3> QED BY <3>2, <3>3
  <2>4. left' \cup Holding' \subseteq left \cup Holding \cup {None, calls[i].new}
    BY <2>3, HoldingMoves
  <2>5. \A k \in DOMAIN calls' : calls'[k].new # None => calls[o[k]].new # calls[i].new
    BY <2>2 DEF Fresh, SomeOf
  <2> QED BY <2>2, <2>4, <2>5 DEF Fresh, SomeOf
<1>4. ASSUME UNCHANGED calls, \A i \in DOMAIN calls : ~TakeLogin(i)
      PROVE  Fresh'
  BY <1>1, <1>4 DEF Fresh
<1>5. ASSUME NEW i \in DOMAIN calls, NEW answer \in {"ok", "refused", "401"},
             NEW user \in Users \cup {Nobody}, Answer(i, answer, user, None),
             \A j \in DOMAIN calls : ~TakeLogin(j)
      PROVE  Fresh'
  <2>1. None \in Tokens
    BY HydratedType
  <2>2. /\ DOMAIN calls' = DOMAIN calls /\ calls'[i].new = None
        /\ \A k \in DOMAIN calls \ {i} : calls'[k] = calls[k]
    BY <1>0, <1>5, <2>1, OneAnswered
  <2> QED BY <1>1, <1>5, <2>2 DEF Fresh
<1>6. ASSUME NEW i \in DOMAIN calls, NEW a \in Accounts, ServeLogin(i, a)
      PROVE  Fresh'
  <2>1. /\ issued' = Append(issued, a) /\ Len(issued) < MaxLogins
        /\ Answer(i, "ok", UserOf(a), Len(issued'))
        /\ UNCHANGED <<tabs, storage, left>>
    BY <1>6 DEF ServeLogin
  <2>2. Len(issued') = Len(issued) + 1 /\ Len(issued) \in Nat
    BY <1>0, <2>1
  <2>3. Len(issued') \in Tokens /\ Len(issued') # None
    BY <2>1, <2>2, SessionAssumption DEF Tokens, None
  <2>4. UserOf(a) \in Users
    BY DEF UserOf, Users, TypeOK
  <2>5. /\ DOMAIN calls' = DOMAIN calls /\ calls'[i].new = Len(issued')
        /\ \A k \in DOMAIN calls \ {i} : calls'[k] = calls[k]
    BY <1>0, <2>1, <2>3, <2>4, OneAnswered
  <2>6. left' = left /\ Holding' = Holding
    BY <2>1 DEF Holding, Stores, StoreOf
  <2>7. Len(issued') \notin left \cup Holding /\ \A k \in DOMAIN calls : calls[k].new # Len(issued')
    BY <1>0, <2>2 DEF Known, Holding, CallOK
  <2> QED BY <2>5, <2>6, <2>7 DEF Fresh
<1>7. ASSUME NEW i \in DOMAIN calls, ServeMe(i)
      PROVE  Fresh'
  <2>1. PICK answer \in {"ok", "refused", "401"}, user \in Users \cup {Nobody} : Answer(i, answer, user, None)
    BY <1>0, <1>7, ServedMe DEF Users
  <2>2. UNCHANGED <<tabs, storage, left>>
    BY <1>7 DEF ServeMe
  <2>3. left' = left /\ Holding' = Holding
    BY <2>2 DEF Holding, Stores, StoreOf
  <2>4. None \in Tokens
    BY HydratedType
  <2>5. /\ DOMAIN calls' = DOMAIN calls /\ calls'[i].new = None
        /\ \A k \in DOMAIN calls \ {i} : calls'[k] = calls[k]
    <3>1. calls \in Seq(Call)
      BY <1>0
    <3> HIDE DEF Answer
    <3>2. LET c == AnsweredCall(i, answer, user, None)
          IN  DOMAIN calls' = DOMAIN calls /\ calls'[i] = c /\ c.new = None
              /\ \A k \in DOMAIN calls \ {i} : calls'[k] = calls[k]
      BY <2>1, <2>4, <3>1, OneAnswered
    <3> QED BY <3>2
  <2> QED BY <2>3, <2>5 DEF Fresh
<1>8. ASSUME NEW t \in Tabs, LogIn(t) \/ \E kind \in {"read", "save", "set"} : Profile(t, kind)
      PROVE  Fresh'
  <2>1. PICK kind \in Verbs, to \in BOOLEAN : Ask(t, kind, to)
    BY <1>8, AskedCall
  <2>2. /\ DOMAIN calls' = DOMAIN calls \cup {Len(calls) + 1}
        /\ calls'[Len(calls) + 1] = NewCall(t, kind, to)
        /\ \A k \in DOMAIN calls : calls'[k] = calls[k]
    BY <2>1, OneMade
  <2>3. NewCall(t, kind, to).new = None
    BY DEF NewCall
  <2>4. UNCHANGED <<tabs, storage, left>>
    BY <1>8 DEF LogIn, Profile
  <2>5. left' = left /\ Holding' = Holding
    BY <2>4 DEF Holding, Stores, StoreOf
  <2> QED BY <2>2, <2>3, <2>5 DEF Fresh
<1>9. CASE \A i \in DOMAIN calls : ~TakeLogin(i)
  <2>1. ASSUME NEW i \in DOMAIN calls, Refuse(i)
        PROVE  Fresh'
    <3>1. PICK answer \in {"refused", "401"} : Answer(i, answer, Nobody, None)
      BY <2>1 DEF Refuse
    <3> QED BY <1>5, <1>9, <3>1
  <2>2. ASSUME NEW t \in Tabs, OpenTab(t)
        PROVE  Fresh'
    BY <1>0, <1>2, <1>9, <2>2, OthersRemain DEF OpenTab
  <2>3. ASSUME NEW i \in DOMAIN calls, Taken(i)
        PROVE  Fresh'
    BY <1>0, <1>2, <1>9, <2>3, OneTaken
  <2>4. UNCHANGED calls => Fresh'
    BY <1>4, <1>9
  <2> QED BY <1>6, <1>7, <1>8, <1>9, <2>1, <2>2, <2>3, <2>4
          DEF Next, vars, LogOut, Go, TakeLogin, TakeUser, Take401, TakeRefusal, ChangeMode, Expire
<1> QED BY <1>3, <1>9

-----------------------------------------------------------------------------
(* The mode a tab shows.                                                   *)
ModeOf(t) ==
  Authed(t) /\ t \notin behind /\ ~tabs[t].mixed /\ ~Unheard(0, t) => tabs[t].user.driver = mode[tabs[t].user.of]

\* A tab whose store a step leaves alone, and the mode too.
LEMMA SameMode ==
  ASSUME NEW t \in Tabs, ModeOf(t), mode' = mode,
         tabs'[t].token = tabs[t].token, tabs'[t].user = tabs[t].user, tabs'[t].mixed = tabs[t].mixed,
         t \in behind => t \in behind',
         Unheard(0, t) => Unheard(0, t)'
  PROVE  ModeOf(t)'
BY DEF ModeOf, Authed

\* An answer a tab waits for is still on its way while the call is there.
LEMMA StillUnheard ==
  ASSUME calls \in Seq(Call), calls' \in Seq(Call), NEW t \in Tabs,
         \A j \in DOMAIN calls : calls[j].tab = t /\ calls[j].answer = "ok"
           => \E k \in DOMAIN calls' : calls'[k] = calls[j]
  PROVE  Unheard(0, t) => Unheard(0, t)'
<1> SUFFICES ASSUME Unheard(0, t) PROVE Unheard(0, t)'
  OBVIOUS
<1>1. PICK j \in DOMAIN calls : calls[j].tab = t /\ calls[j].answer = "ok"
  BY DEF Unheard
<1>2. PICK k \in DOMAIN calls' : calls'[k] = calls[j]
  BY <1>1
<1>3. k # 0
  BY <1>2
<1> QED BY <1>1, <1>2, <1>3 DEF Unheard

\* The mode of every tab is the server's after a step, or is known to be late.
LEMMA ModeStep ==
  ASSUME TypeOK, \A i \in DOMAIN calls : CallOK(calls[i]), ModeIsCurrent, [Next]_vars
  PROVE  ModeIsCurrent'
<1> SUFFICES ASSUME NEW t \in Tabs PROVE ModeOf(t)'
  BY DEF ModeIsCurrent, ModeOf
<1>0. /\ ModeOf(t) /\ tabs \in [Tabs -> Tab] /\ calls \in Seq(Call)
      /\ \A i \in DOMAIN calls : calls[i] \in Call /\ calls[i].tab \in Tabs
      /\ mode \in [Accounts -> BOOLEAN]
  <2>1. tabs \in [Tabs -> Tab] /\ calls \in Seq(Call) /\ \A i \in DOMAIN calls : calls[i] \in Call
    BY DEF TypeOK
  <2> QED BY <2>1 DEF TypeOK, Call, ModeIsCurrent, ModeOf
\* Steps that leave the tab and the mode alone: the answers on their way remain.
<1>1. ASSUME UNCHANGED <<tabs, mode>>, t \in behind => t \in behind', Unheard(0, t) => Unheard(0, t)'
      PROVE  ModeOf(t)'
  BY <1>0, <1>1, SameMode
<1>2. ASSUME UNCHANGED calls
      PROVE  Unheard(0, t) => Unheard(0, t)'
  BY <1>2 DEF Unheard
<1>3. ASSUME NEW u \in Tabs, OpenTab(u)
      PROVE  ModeOf(t)'
  <2>1. CASE t = u
    <3>1. tabs'[t].user = Hydrated.user /\ mode' = mode
      BY <1>0, <1>3, <2>1 DEF OpenTab, OnPage
    <3>2. Hydrated.user # Nobody /\ t \notin behind' => Hydrated.user.driver = mode[Hydrated.user.of]
      BY <1>3, <2>1 DEF OpenTab
    <3> QED BY <3>1, <3>2 DEF ModeOf, Authed
  <2>2. CASE t # u
    <3>1. tabs'[t] = tabs[t] /\ mode' = mode /\ (t \in behind => t \in behind')
      BY <1>0, <1>3, <2>2 DEF OpenTab
    <3>2. calls' \in Seq(Call) /\ \A j \in DOMAIN calls : calls[j].tab # u => \E k \in DOMAIN calls' : calls'[k] = calls[j]
      BY <1>0, <1>3, OthersRemain DEF OpenTab
    <3>3. Unheard(0, t) => Unheard(0, t)'
      BY <1>0, <2>2, <3>2, StillUnheard
    <3> QED BY <1>0, <3>1, <3>3, SameMode
  <2> QED BY <2>1, <2>2
<1>4. ASSUME NEW u \in Tabs, LogIn(u) \/ \E kind \in {"read", "save", "set"} : Profile(u, kind)
      PROVE  ModeOf(t)'
  <2>1. PICK kind \in Verbs, to \in BOOLEAN : Ask(u, kind, to)
    BY <1>4, AskedCall
  <2>2. calls' \in Seq(Call) /\ DOMAIN calls \subseteq DOMAIN calls' /\ \A k \in DOMAIN calls : calls'[k] = calls[k]
    BY <2>1, OneMade
  <2>3. Unheard(0, t) => Unheard(0, t)'
    BY <2>2 DEF Unheard
  <2> QED BY <1>1, <1>4, <2>3 DEF LogIn, Profile
<1>5. ASSUME NEW u \in Tabs, NEW where \in Pages, Go(u, where)
      PROVE  ModeOf(t)'
  <2>1. tabs'[t].token = tabs[t].token /\ tabs'[t].user = tabs[t].user /\ tabs'[t].mixed = tabs[t].mixed
    BY <1>0, <1>5 DEF Go, Tab
  <2>2. mode' = mode /\ behind' = behind /\ calls' = calls
    BY <1>5 DEF Go
  <2> QED BY <1>0, <1>2, <2>1, <2>2, SameMode
\* A tab that is logged out shows no mode.
<1>6. ASSUME NEW u \in Tabs, Leave(u), UNCHANGED <<mode, behind>>, Unheard(0, t) => Unheard(0, t)'
      PROVE  ModeOf(t)'
  <2>1. CASE t = u
    <3>1. tabs'[t].token = None
      BY <1>0, <1>6, <2>1 DEF Leave, OnPage, Empty
    <3> QED BY <3>1 DEF ModeOf, Authed
  <2>2. CASE t # u
    <3>1. tabs'[t] = tabs[t]
      BY <1>0, <1>6, <2>2 DEF Leave
    <3> QED BY <1>0, <1>6, <3>1, SameMode
  <2> QED BY <2>1, <2>2
\* A call is answered.
<1>7. ASSUME NEW i \in DOMAIN calls, calls[i].answer = "none", NEW answer \in {"ok", "refused", "401"},
             NEW user \in Users \cup {Nobody}, NEW new \in Tokens, Answer(i, answer, user, new)
      PROVE  /\ Unheard(0, t) => Unheard(0, t)'
             /\ answer = "ok" /\ t = calls[i].tab => Unheard(0, t)'
  <2>1. /\ calls' \in Seq(Call) /\ DOMAIN calls' = DOMAIN calls
        /\ calls'[i].tab = calls[i].tab /\ calls'[i].answer = answer
        /\ \A k \in DOMAIN calls \ {i} : calls'[k] = calls[k]
    BY <1>0, <1>7, OneAnswered
  <2>2. \A j \in DOMAIN calls : j # 0
    BY <1>0
  <2>3. Unheard(0, t) => Unheard(0, t)'
    BY <1>7, <2>1 DEF Unheard
  <2>4. answer = "ok" /\ t = calls[i].tab => Unheard(0, t)'
    BY <2>1, <2>2 DEF Unheard
  <2> QED BY <2>3, <2>4
<1>8. ASSUME NEW i \in DOMAIN calls, NEW a \in Accounts, ServeLogin(i, a)
      PROVE  ModeOf(t)'
  <2>1. /\ issued' = Append(issued, a) /\ Len(issued) < MaxLogins /\ issued \in Seq(Accounts)
        /\ calls[i].answer = "none" /\ Answer(i, "ok", UserOf(a), Len(issued'))
    BY <1>8 DEF ServeLogin, TypeOK
  <2>2. Len(issued') \in Tokens
    BY <2>1, SessionAssumption DEF Tokens
  <2>3. UserOf(a) \in Users
    BY <1>0 DEF UserOf, Users
  <2>4. Unheard(0, t) => Unheard(0, t)'
    BY <1>7, <2>1, <2>2, <2>3
  <2> QED BY <1>1, <1>8, <2>4 DEF ServeLogin
<1>9. ASSUME NEW i \in DOMAIN calls, Refuse(i)
      PROVE  ModeOf(t)'
  <2>1. PICK answer \in {"refused", "401"} : Answer(i, answer, Nobody, None)
    BY <1>9 DEF Refuse
  <2>2. calls[i].answer = "none" /\ None \in Tokens
    BY <1>9, HydratedType DEF Refuse
  <2>3. Unheard(0, t) => Unheard(0, t)'
    BY <1>7, <2>1, <2>2
  <2> QED BY <1>1, <1>9, <2>3 DEF Refuse
\* The mode changes for the tab that asked and hears of it, or behind the backs of the others.
<1>10. ASSUME NEW i \in DOMAIN calls, ServeMe(i)
       PROVE  ModeOf(t)'
  <2>0. calls[i].answer = "none" /\ UNCHANGED tabs /\ None \in Tokens /\ CallOK(calls[i])
    BY <1>10, HydratedType DEF ServeMe
  <2> DEFINE a == issued[calls[i].token]
  <2>1. a \in Accounts
    BY <1>10, <2>0, ServedMe
  <2>2. CASE Answer(i, "401", Nobody, None) /\ UNCHANGED <<mode, behind>>
    BY <1>1, <1>7, <2>0, <2>2
  <2>3. ASSUME NEW now \in BOOLEAN, mode' = [mode EXCEPT ![a] = now],
               NEW answer \in {"ok", "refused"}, NEW user \in Users \cup {Nobody}, Answer(i, answer, user, None),
               IF now = mode[a] THEN behind' = behind
               ELSE t \in behind' \/ (answer = "ok" /\ t = calls[i].tab)
        PROVE  ModeOf(t)'
    <3>1. CASE now = mode[a]
      <4>1. mode' = mode /\ behind' = behind
        BY <1>0, <2>1, <2>3, <3>1
      <4>2. Unheard(0, t) => Unheard(0, t)'
        BY <1>7, <2>0, <2>3
      <4> QED BY <1>1, <2>0, <4>1, <4>2
    <3>2. CASE now # mode[a]
      <4>1. t \in behind' \/ Unheard(0, t)'
        BY <1>7, <2>0, <2>3, <3>2
      <4> QED BY <4>1 DEF ModeOf
    <3> QED BY <3>1, <3>2
  <2>4. ASSUME NEW now \in BOOLEAN, mode' = [mode EXCEPT ![a] = now],
               Answer(i, "ok", [of |-> a, driver |-> now], None),
               behind' = IF now = mode[a] THEN behind
                         ELSE behind \cup { u \in Tabs : u # calls[i].tab \/ Unheard(i, u) }
        PROVE  ModeOf(t)'
    <3>1. [of |-> a, driver |-> now] \in Users
      BY <2>1 DEF Users
    <3>2. IF now = mode[a] THEN behind' = behind ELSE t \in behind' \/ t = calls[i].tab
      BY <2>4
    <3> HIDE DEF a
    <3> QED BY <2>3, <2>4, <3>1, <3>2
  <2>5. ASSUME NEW now \in BOOLEAN, mode' = [mode EXCEPT ![a] = now], Answer(i, "refused", Nobody, None),
               behind' = IF now = mode[a] THEN behind ELSE Tabs
        PROVE  ModeOf(t)'
    <3>1. IF now = mode[a] THEN behind' = behind ELSE t \in behind'
      BY <2>5
    <3> HIDE DEF a
    <3> QED BY <2>3, <2>5, <3>1
  <2> QED BY <1>10, <2>0, <2>2, <2>4, <2>5, ServedMe
<1>11. ASSUME NEW a \in Accounts, ChangeMode(a)
       PROVE  ModeOf(t)'
  BY <1>11 DEF ChangeMode, ModeOf
\* A call is taken: the answers to the others are still on their way.
<1>12. ASSUME NEW i \in DOMAIN calls, Taken(i), t # calls[i].tab \/ calls[i].answer # "ok"
       PROVE  Unheard(0, t) => Unheard(0, t)'
  <2>1. calls' \in Seq(Call) /\ \A j \in DOMAIN calls \ {i} : \E k \in DOMAIN calls' : calls'[k] = calls[j]
    BY <1>0, <1>12, OneTaken
  <2> QED BY <1>0, <1>12, <2>1, StillUnheard
\* The user of an answer has the mode of the server, or is late.
<1>13. ASSUME NEW i \in DOMAIN calls, Taken(i), calls[i].answer = "ok", behind' = Current(i), mode' = mode,
              t = calls[i].tab => tabs'[t].user = calls[i].user,
              t # calls[i].tab => tabs'[t] = tabs[t]
       PROVE  ModeOf(t)'
  <2> DEFINE c == calls[i]
  <2>1. CASE t = c.tab
    <3>1. c.user.driver # mode[c.user.of] => t \in behind'
      BY <1>13, <2>1 DEF Current
    <3> QED BY <1>13, <2>1, <3>1 DEF ModeOf
  <2>2. CASE t # c.tab
    <3>1. t \in behind => t \in behind'
      BY <1>13, <2>2 DEF Current
    <3> QED BY <1>0, <1>12, <1>13, <2>2, <3>1, SameMode
  <2> QED BY <2>1, <2>2
<1>14. ASSUME NEW i \in DOMAIN calls, TakeLogin(i)
       PROVE  ModeOf(t)'
  <2>1. /\ t = calls[i].tab => tabs'[t].user = calls[i].user
        /\ t # calls[i].tab => tabs'[t] = tabs[t]
    BY <1>0, <1>14 DEF TakeLogin, OnPage
  <2> QED BY <1>13, <1>14, <2>1 DEF TakeLogin
<1>15. ASSUME NEW i \in DOMAIN calls, TakeUser(i)
       PROVE  ModeOf(t)'
  <2>1. /\ t = calls[i].tab => tabs'[t].user = calls[i].user
        /\ t # calls[i].tab => tabs'[t] = tabs[t]
    BY <1>0, <1>15 DEF TakeUser, Tab
  <2> QED BY <1>13, <1>15, <2>1 DEF TakeUser
<1>16. ASSUME NEW i \in DOMAIN calls, Take401(i)
       PROVE  ModeOf(t)'
  BY <1>0, <1>6, <1>12, <1>16 DEF Take401
<1>17. ASSUME NEW i \in DOMAIN calls, TakeRefusal(i)
       PROVE  ModeOf(t)'
  BY <1>1, <1>12, <1>17 DEF TakeRefusal
<1>18. ASSUME NEW u \in Tabs, LogOut(u)
       PROVE  ModeOf(t)'
  BY <1>2, <1>6, <1>18 DEF LogOut
<1>19. ASSUME NEW n \in 1..MaxLogins, Expire(n)
       PROVE  ModeOf(t)'
  BY <1>1, <1>2, <1>19 DEF Expire
<1>20. CASE UNCHANGED vars
  BY <1>1, <1>2, <1>20 DEF vars
<1> QED BY <1>3, <1>4, <1>5, <1>8, <1>9, <1>10, <1>11, <1>14, <1>15, <1>16, <1>17, <1>18, <1>19, <1>20 DEF Next

-----------------------------------------------------------------------------
(* The theorems.                                                           *)
\* It holds when the browser is new.
LEMMA InitOK ==
  ASSUME Init
  PROVE  IInv
<1>0. Empty \in Store /\ Closed \in Tab /\ Empty.token = 0 /\ Closed.token = 0
      /\ Empty.user = Nobody /\ Closed.user = Nobody /\ Closed.page = "closed"
  BY SessionAssumption DEF Empty, Closed, Store, Tab, Tokens, Nobody, None
<1>1. tabs = [t \in Tabs |-> Closed] /\ storage = Empty
  BY DEF Init
<1>2. calls = << >> /\ issued = << >> /\ dead = {} /\ left = {} /\ behind = {} /\ turns = 0
      /\ mode = [a \in Accounts |-> FALSE]
  BY DEF Init
<1>3. TypeOK
  BY <1>0, <1>1, <1>2, SessionAssumption DEF TypeOK
<1>4. \A s \in Stores : s.token = 0 /\ s.user = Nobody
  BY <1>0, <1>1 DEF Stores, StoreOf
<1>5. (\A s \in Stores : Known(s.token)) /\ (\A n \in left : Known(n))
  BY <1>2, <1>4 DEF Known
<1>6. (\A i \in DOMAIN calls : CallOK(calls[i])) /\ Fresh
  BY <1>2 DEF Fresh
<1>7. ScreenIsTheAccount
  BY <1>0, <1>1, <1>4 DEF ScreenIsTheAccount, Stores
<1>8. ModeIsCurrent
  BY <1>0, <1>1 DEF ModeIsCurrent, Authed
<1> QED BY <1>3, <1>5, <1>6, <1>7, <1>8 DEF IInv

\* Every step keeps it, part by part.
LEMMA StepOK ==
  ASSUME IInv, [Next]_vars
  PROVE  IInv'
<1>0. /\ TypeOK /\ (\A s \in Stores : Known(s.token)) /\ (\A n \in left : Known(n))
      /\ (\A i \in DOMAIN calls : CallOK(calls[i])) /\ Fresh /\ ScreenIsTheAccount /\ ModeIsCurrent
  BY DEF IInv
<1>1. TypeOK'
  BY <1>0, TypeStep
<1>2. /\ \A s \in Stores' : s.token \in 0..Len(issued')
      /\ \A s \in Stores' : s.user # Nobody /\ ~s.mixed => s.token # None /\ issued'[s.token] = s.user.of
  BY <1>0, StoresStep
<1>3. (\A s \in Stores : Known(s.token))'
  BY <1>2 DEF Known
<1>4. (\A n \in left : Known(n))'
  <2>1. \A n \in left' : n \in left \/ n \in Holding
    BY <1>0, HoldingMoves
  <2>2. \A n \in left' : n \in 0..Len(issued)
    BY <1>0, <2>1 DEF Known, Holding
  <2>3. Len(issued) \in Nat /\ Len(issued') \in Nat /\ Len(issued) <= Len(issued')
    BY <1>0, IssuedGrow
  <2> QED BY <2>2, <2>3 DEF Known
<1>5. (\A i \in DOMAIN calls : CallOK(calls[i]))'
  BY <1>0, CallsStep
<1>6. Fresh'
  BY <1>0, FreshStep
<1>7. ScreenIsTheAccount'
  <2>1. \A t \in Tabs : tabs'[t].page \notin Guest \cup {"closed"} => tabs'[t].token # None
    BY <1>0, PagesStep
  <2> QED BY <1>2, <2>1 DEF ScreenIsTheAccount, Stores
<1>8. ModeIsCurrent'
  BY <1>0, ModeStep
<1> QED BY <1>1, <1>3, <1>4, <1>5, <1>6, <1>7, <1>8 DEF IInv

\* The invariant holds for any number of tabs, accounts, logins and calls.
THEOREM Inductive == Spec => []IInv
<1>1. Init => IInv
  BY InitOK
<1>2. IInv /\ [Next]_vars => IInv'
  BY StepOK
<1> QED BY <1>1, <1>2, PTL DEF Spec

\* The state keeps its types: every store and every call is one the client can have.
THEOREM TypeCorrect == Spec => []TypeOK
<1>1. IInv => TypeOK
  BY DEF IInv
<1> QED BY <1>1, Inductive, PTL

\* The account a tab or localStorage shows is the one its token speaks for, and a page for
\* users is shown to somebody with a token, whatever late answers set or cleared the store.
THEOREM ScreenShowsAccount == Spec => []ScreenIsTheAccount
<1>1. IInv => ScreenIsTheAccount
  BY DEF IInv
<1> QED BY <1>1, Inductive, PTL

\* The mode a tab shows is the server's unless it changed elsewhere or an answer is late or lost.
THEOREM ModeShown == Spec => []ModeIsCurrent
<1>1. IInv => ModeIsCurrent
  BY DEF IInv
<1> QED BY <1>1, Inductive, PTL

\* A token somebody logged out of is stored again by a tab that still had it, and by nothing
\* else: no answer under way brings it back.
THEOREM LogoutHolds == Spec => LogoutIsNotUndone
<1>1. ASSUME IInv, [Next]_vars, storage'.token \in left \ {None, storage.token}
      PROVE  \E t \in Tabs : tabs[t].token = storage'.token
  <2>0. TypeOK /\ Fresh /\ \A i \in DOMAIN calls : CallOK(calls[i])
    BY <1>1 DEF IInv
  <2>1. storage'.token \in Holding'
    BY DEF Holding, Stores
  <2>2. \/ storage'.token \in Holding
        \/ \E i \in DOMAIN calls : TakeLogin(i) /\ storage'.token = calls[i].new
    BY <1>1, <2>0, <2>1, HoldingMoves
  <2>3. ASSUME NEW i \in DOMAIN calls, TakeLogin(i), storage'.token = calls[i].new
        PROVE  FALSE
    BY <1>1, <2>0, <2>3 DEF Fresh
  <2>4. storage'.token \in Holding
    BY <2>2, <2>3
  <2>5. \A n \in Holding : n = storage.token \/ \E t \in Tabs : n = tabs[t].token
    BY DEF Holding, Stores, StoreOf
  <2> QED BY <1>1, <2>4, <2>5
<1>2. IInv /\ [Next]_vars
      => [storage'.token \in left \ {None, storage.token} => \E t \in Tabs : tabs[t].token = storage'.token]_vars
  BY <1>1
<1> QED BY <1>2, Inductive, PTL DEF Spec, LogoutIsNotUndone

-----------------------------------------------------------------------------
(* The wizards of a driver-to-be (Onboarding): the inductive invariant.    *)
\* What is under way, in whatever order.
Under(cs) == { cs[i] : i \in DOMAIN cs }
Positions(kind) == { i \in DOMAIN requests : requests[i].kind = kind }

\* Only a dialog that is open is told; it sends one car at a time, of the photo it shows.
StepsHeard ==
  /\ wizard.open = "no" => \A i \in DOMAIN requests : ~requests[i].heard /\ requests[i].kind # "analyze"
  /\ \A i \in Positions("create") :
       /\ requests[i].photo <= wizard.shots
       /\ requests[i].answer = "ok" => requests[i].car # 0
       /\ requests[i].heard => "vehicle" \in wizard.sending /\ requests[i].photo = wizard.photo
       /\ \A j \in Positions("create") : requests[i].heard /\ requests[j].heard => i = j
  /\ wizard.photo <= wizard.shots
  /\ \A c \in DOMAIN cars : cars[c].photo <= wizard.shots

\* A photo is of one car, or of one that is being registered; the photo in the form is
\* of none, or the wizard knows, or is about to know.
Sent(i) == i \in Positions("create") /\ requests[i].answer = "none"
Spent(k) == (\E c \in DOMAIN cars : cars[c].photo = k) \/ \E i \in DOMAIN requests : Sent(i) /\ requests[i].photo = k
PhotosOnce ==
  hasty \cap {"submit", "lost"} = {} =>
    /\ \A a, b \in DOMAIN cars : cars[a].photo = cars[b].photo => a = b \/ cars[a].photo = 0
    /\ \A i, j \in DOMAIN requests : Sent(i) /\ Sent(j) /\ requests[i].photo = requests[j].photo =>
         i = j \/ requests[i].photo = 0
    /\ \A i \in DOMAIN requests, a \in DOMAIN cars : Sent(i) /\ requests[i].photo = cars[a].photo => cars[a].photo = 0
    /\ wizard.photo # 0 /\ wizard.created = 0 /\ Spent(wizard.photo) =>
         \E i \in Positions("create") : requests[i].heard /\ requests[i].answer # "failed"

\* The plate that was read is of the photo in the form.
PlatesRead ==
  hasty \cap {"photo", "unread"} = {} =>
    /\ \A c \in DOMAIN cars : cars[c].read \in {0, cars[c].photo}
    /\ \A i \in Positions("create") : requests[i].read \in {0, requests[i].photo}
    /\ wizard.ready => wizard.read \in {0, wizard.photo}
    /\ \A i \in Positions("analyze") :
         /\ requests[i].photo = wizard.photo /\ requests[i].read \in {0, requests[i].photo}
         /\ \A j \in Positions("analyze") : i = j

\* What brings the page up to date: the mode as it was set, the end of a wizard, a car
\* the wizard has registered or is about to know of, a document it has seen accepted.
Told == \E r \in Under(requests) : r.kind = "mode" /\ r.answer = "ok"
Returning == \E r \in Under(requests) : r.kind = "me" /\ r.then \in {"finish", "page"}
Adding ==
  \/ \E r \in Under(requests) : r.kind = "create" /\ r.heard /\ r.answer = "ok"
  \/ wizard.open # "no" /\ wizard.created # 0
Passing ==
  \/ \E r \in Under(requests) : r.kind \in Papers /\ r.heard /\ r.answer = "ok" /\ r.flag
  \/ wizard.open # "no" /\ wizard.passed # {}
Changed == \E r \in Under(requests) : r.kind \in {"delete", "upload"} /\ r.answer = "ok"
\* The wizard asks who the user has become.
Joining == \E r \in Under(requests) : r.kind = "me" /\ r.then = "created"
Loading(part) == \E r \in Under(requests) : r.kind = part /\ r.answer # "failed"
\* The cars that were deleted and that the page still shows.
Gone == { r.car : r \in { s \in Under(requests) : s.kind = "delete" /\ s.answer = "ok" } }

CarsComing ==
  /\ Gone \cap garage = {} /\ Gone \subseteq DOMAIN cars
  /\ "cars" \notin unsure =>
       /\ \A r \in Under(requests) : r.kind = "cars" /\ r.answer = "ok" => r.certs.cars = garage
       /\ page.cars \ Gone = garage \/ Loading("cars") \/ Returning \/ Adding
DriverComing ==
  /\ ~({"driver", "certs"} \subseteq unsure) =>
       \A r \in Under(requests) :
         /\ r.kind \in {"me", "mode"} /\ r.answer = "ok" => r.flag = driver
         /\ r.kind = "me" => r.answer # "failed"
  /\ \/ "driver" \notin unsure
     \/ "certs" \notin unsure /\ Joining
     => page.driver = driver \/ Told \/ Returning \/ Adding
CertsComing ==
  "certs" \notin unsure =>
    /\ \A r \in Under(requests) : r.kind = "certs" /\ r.answer = "ok" => r.certs = CertsNow
    /\ page.driver =>
         \/ page.has_certs /\ page.certs = CertsNow
         \/ Loading("certs") \/ Told \/ Returning \/ Adding \/ Passing
         \/ Changed

Photographed == StepsHeard /\ PhotosOnce /\ PlatesRead
Awaited == CarsComing /\ DriverComing /\ CertsComing
WizardIInv == WizardTypeOK /\ Photographed /\ Awaited

\* What becomes of the requests in one step: each was at position f[k], or is new (0); those
\* at the positions of gone are dropped, the others all stay, and new ones are of fresh.
Trace(old, new, f, gone, fresh) ==
  /\ new \in Seq(Request)
  /\ f \in [DOMAIN new -> Nat]
  /\ \A k \in DOMAIN new : (f[k] = 0 /\ new[k] \in fresh) \/ f[k] \in DOMAIN old \ gone
  /\ \A k, m \in DOMAIN new : f[k] = f[m] => k = m \/ f[k] = 0
  /\ \A i \in DOMAIN old \ gone : \E k \in DOMAIN new : f[k] = i
  /\ \A r \in fresh : \E k \in DOMAIN new : new[k] = r
Keeps(old, new, f) == \A k \in DOMAIN new : f[k] # 0 => new[k] = old[f[k]]
Silences(old, new, f) == \A k \in DOMAIN new : f[k] # 0 => new[k] = [old[f[k]] EXCEPT !.heard = FALSE]

\* Those that stay, and where they were.
Stay(old, gone, b, g) ==
  /\ b \in Seq(Request) /\ g \in [DOMAIN b -> DOMAIN old \ gone]
  /\ \A k, m \in DOMAIN b : g[k] = g[m] => k = m
  /\ \A i \in DOMAIN old \ gone : \E k \in DOMAIN b : g[k] = i
Placed(new, f, b, g) == \A k \in DOMAIN new : f[k] # 0 => k \in DOMAIN b /\ f[k] = g[k] /\ new[k] = b[k]

Answers(old, new, f, i, c) == \A k \in DOMAIN new : f[k] # 0 /\ new[k] = IF f[k] = i THEN c ELSE old[f[k]]

LEMMA TraceOf ==
  ASSUME NEW old \in Seq(Request), NEW new, NEW gone, NEW b, NEW g, Stay(old, gone, b, g),
         NEW cs \in Seq(Request), new = b \o cs
  PROVE  \E f : Trace(old, new, f, gone, Under(cs)) /\ Placed(new, f, b, g)
<1> USE DEF Stay
<1> DEFINE f == [k \in DOMAIN new |-> IF k \in DOMAIN b THEN g[k] ELSE 0]
<1>1. /\ new \in Seq(Request) /\ DOMAIN b = 1..Len(b) /\ Len(b) \in Nat /\ Len(cs) \in Nat
      /\ DOMAIN new = 1..(Len(b) + Len(cs)) /\ DOMAIN old = 1..Len(old) /\ DOMAIN cs = 1..Len(cs)
  OBVIOUS
<1>2. \A k \in DOMAIN b : k \in DOMAIN new /\ new[k] = b[k]
  BY <1>1
<1>3. ASSUME NEW k \in DOMAIN new, k \notin DOMAIN b
      PROVE  new[k] \in Under(cs)
  <2>1. k - Len(b) \in DOMAIN cs /\ new[k] = cs[k - Len(b)]
    BY <1>1, <1>3
  <2> QED BY <2>1 DEF Under
<1>4. \A k \in DOMAIN b : g[k] \in Nat \ {0}
  BY <1>1
<1>5. f \in [DOMAIN new -> Nat] /\ \A k \in DOMAIN new : f[k] = IF k \in DOMAIN b THEN g[k] ELSE 0
  BY <1>4
<1> HIDE DEF f
<1>6. \A k, m \in DOMAIN new : f[k] = f[m] => k = m \/ f[k] = 0
  BY <1>4, <1>5
<1>7. \A i \in DOMAIN old \ gone : \E k \in DOMAIN new : f[k] = i
  BY <1>2, <1>5
<1>8. \A k \in DOMAIN new : (f[k] = 0 /\ new[k] \in Under(cs)) \/ f[k] \in DOMAIN old \ gone
  BY <1>3, <1>5
<1>9. ASSUME NEW r \in Under(cs)
      PROVE  \E k \in DOMAIN new : new[k] = r
  <2>1. PICK j \in DOMAIN cs : cs[j] = r
    BY DEF Under
  <2>2. Len(b) + j \in DOMAIN new /\ new[Len(b) + j] = cs[j]
    BY <1>1
  <2> QED BY <2>1, <2>2
<1>10. Trace(old, new, f, gone, Under(cs))
  BY <1>1, <1>5, <1>6, <1>7, <1>8, <1>9 DEF Trace
<1>11. Placed(new, f, b, g)
  BY <1>2, <1>4, <1>5 DEF Placed
<1> WITNESS f
<1> QED BY <1>10, <1>11

\* Requests that are asked.
LEMMA TraceOfAsked ==
  ASSUME NEW old \in Seq(Request), NEW new, NEW cs \in Seq(Request), new = old \o cs
  PROVE  \E f : Trace(old, new, f, {}, Under(cs)) /\ Keeps(old, new, f)
<1> DEFINE g == [k \in DOMAIN old |-> k]
<1>1. g \in [DOMAIN old -> DOMAIN old \ {}] /\ \A k \in DOMAIN old : g[k] = k
  OBVIOUS
<1> HIDE DEF g
<1>2. Stay(old, {}, old, g)
  BY <1>1 DEF Stay
<1>3. PICK f : Trace(old, new, f, {}, Under(cs)) /\ Placed(new, f, old, g)
  BY <1>2, TraceOf
<1>4. Keeps(old, new, f)
  BY <1>1, <1>3 DEF Keeps, Placed
<1> QED BY <1>3, <1>4

LEMMA RestOf ==
  ASSUME NEW old \in Seq(Request), NEW new, NEW i \in DOMAIN old
  PROVE  /\ RemoveAt(old, i) \in Seq(Request)
         /\ \A k \in DOMAIN RemoveAt(old, i) : Was(i, k) \in DOMAIN old \ {i} /\ RemoveAt(old, i)[k] = old[Was(i, k)]
         /\ \A k, m \in DOMAIN RemoveAt(old, i) : Was(i, k) = Was(i, m) => k = m
         /\ \A j \in DOMAIN old \ {i} : \E k \in DOMAIN RemoveAt(old, i) : Was(i, k) = j
<1>1. /\ RemoveAt(old, i) \in Seq(Request) /\ Len(RemoveAt(old, i)) = Len(old) - 1
      /\ \A k \in DOMAIN RemoveAt(old, i) : RemoveAt(old, i)[k] = old[Was(i, k)] /\ Was(i, k) \in DOMAIN old
  BY OneRemoved
<1>2. DOMAIN RemoveAt(old, i) = 1..(Len(old) - 1) /\ Len(old) \in Nat /\ DOMAIN old = 1..Len(old)
  BY <1>1
<1>3. \A k, m \in 1..(Len(old) - 1) : Was(i, k) # i /\ (Was(i, k) = Was(i, m) => k = m)
  BY <1>2 DEF Was
<1>4. ASSUME NEW j \in DOMAIN old \ {i}
      PROVE  \E k \in 1..(Len(old) - 1) : Was(i, k) = j
  <2>1. CASE j < i
    BY <1>2, <2>1 DEF Was
  <2>2. CASE j > i
    <3>1. j - 1 \in 1..(Len(old) - 1) /\ Was(i, j - 1) = j
      BY <1>2, <2>2 DEF Was
    <3> QED BY <3>1
  <2> QED BY <1>2, <2>1, <2>2
<1> QED BY <1>1, <1>2, <1>3, <1>4

\* One that is taken, and what is asked then.
LEMMA TraceOfTaken ==
  ASSUME NEW old \in Seq(Request), NEW new, NEW i \in DOMAIN old, NEW cs \in Seq(Request), new = RemoveAt(old, i) \o cs
  PROVE  \E f : Trace(old, new, f, {i}, Under(cs)) /\ Keeps(old, new, f)
<1> DEFINE g == [k \in DOMAIN RemoveAt(old, i) |-> Was(i, k)]
<1>1. g \in [DOMAIN RemoveAt(old, i) -> DOMAIN old \ {i}] /\ \A k \in DOMAIN RemoveAt(old, i) : g[k] = Was(i, k)
  BY RestOf
<1> HIDE DEF g
<1>2. /\ RemoveAt(old, i) \in Seq(Request)
      /\ \A k, m \in DOMAIN RemoveAt(old, i) : g[k] = g[m] => k = m
      /\ \A j \in DOMAIN old \ {i} : \E k \in DOMAIN RemoveAt(old, i) : g[k] = j
  BY <1>1, RestOf
<1>3. Stay(old, {i}, RemoveAt(old, i), g)
  BY <1>1, <1>2 DEF Stay
<1>4. PICK f : Trace(old, new, f, {i}, Under(cs)) /\ Placed(new, f, RemoveAt(old, i), g)
  BY <1>3, TraceOf
<1>5. Keeps(old, new, f)
  BY <1>1, <1>4, RestOf DEF Keeps, Placed
<1> QED BY <1>4, <1>5
LEMMA TraceOfRest ==
  ASSUME NEW old \in Seq(Request), NEW new, NEW i \in DOMAIN old, new = RemoveAt(old, i)
  PROVE  \E f : Trace(old, new, f, {i}, {}) /\ Keeps(old, new, f)
<1>1. new = RemoveAt(old, i) \o << >> /\ << >> \in Seq(Request)
  BY RestOf
<1>2. Under(<< >>) = {}
  BY DEF Under
<1> QED BY <1>1, <1>2, TraceOfTaken

\* One that is answered.
LEMMA TraceOfReply ==
  ASSUME NEW old \in Seq(Request), NEW new, NEW i \in DOMAIN old, NEW c \in Request, new = [old EXCEPT ![i] = c]
  PROVE  \E f : Trace(old, new, f, {}, {}) /\ Answers(old, new, f, i, c)
<1> DEFINE f == [k \in DOMAIN old |-> k]
<1>1. /\ new \in Seq(Request) /\ DOMAIN new = DOMAIN old /\ new[i] = c
      /\ \A k \in DOMAIN old \ {i} : new[k] = old[k]
  BY OneReplaced
<1>2. f \in [DOMAIN old -> Nat] /\ \A k \in DOMAIN old : f[k] = k /\ k # 0
  OBVIOUS
<1> HIDE DEF f
<1>3. Trace(old, new, f, {}, {})
  BY <1>1, <1>2 DEF Trace
<1>4. Answers(old, new, f, i, c)
  BY <1>1, <1>2 DEF Answers
<1> QED BY <1>3, <1>4

\* A dialog that closes: its analyses are dropped, and nobody hears of the rest.
LEMMA InOrderKept ==
  ASSUME NEW cs \in Seq(Request), NEW o \in InOrder(Kept(cs))
  PROVE  /\ o \in Seq(Kept(cs)) /\ Kept(cs) \subseteq DOMAIN cs
         /\ \A k, m \in DOMAIN o : o[k] = o[m] => k = m
         /\ \A i \in Kept(cs) : \E k \in DOMAIN o : o[k] = i
<1>1. Kept(cs) \subseteq 1..Len(cs) /\ Len(cs) \in Nat /\ DOMAIN cs = 1..Len(cs)
  BY DEF Kept
<1>2. IsFiniteSet(1..Len(cs))
  BY <1>1, FS_Interval
<1>3. IsFiniteSet(Kept(cs))
  BY <1>1, <1>2, FS_Subset
<1>4. Kept(cs) \in SUBSET Nat
  BY <1>1
<1> QED BY <1>1, <1>3, <1>4, AllInOrder

Silent(cs, o) == [j \in DOMAIN o |-> [cs[o[j]] EXCEPT !.heard = FALSE]]
LEMMA SilentOf ==
  ASSUME NEW cs \in Seq(Request), NEW o \in Seq(DOMAIN cs)
  PROVE  Silent(cs, o) \in Seq(Request)
<1>1. \A j \in DOMAIN o : o[j] \in DOMAIN cs
  OBVIOUS
<1>2. \A j \in DOMAIN cs : cs[j] \in Request
  OBVIOUS
<1>3. \A r \in Request : [r EXCEPT !.heard = FALSE] \in Request
  BY DEF Request
<1>4. \A j \in DOMAIN o : [cs[o[j]] EXCEPT !.heard = FALSE] \in Request
  BY <1>1, <1>2, <1>3
<1>5. DOMAIN o = 1..Len(o) /\ Len(o) \in Nat
  OBVIOUS
<1>6. Silent(cs, o) \in [1..Len(o) -> Request]
  BY <1>4, <1>5 DEF Silent
<1> QED BY <1>5, <1>6

LEMMA TraceOfClosing ==
  ASSUME NEW old \in Seq(Request), NEW new, NEW asks \in Seq(Request), NEW o \in InOrder(Kept(old)), new = Silent(old, o) \o asks
  PROVE  \E f : Trace(old, new, f, DOMAIN old \ Kept(old), Under(asks)) /\ Silences(old, new, f)
<1> DEFINE b == Silent(old, o)
<1>2. /\ o \in Seq(Kept(old)) /\ Kept(old) \subseteq DOMAIN old
      /\ \A k, m \in DOMAIN o : o[k] = o[m] => k = m
      /\ \A i \in Kept(old) : \E k \in DOMAIN o : o[k] = i
  BY InOrderKept
<1>3. o \in Seq(DOMAIN old)
  BY <1>2
<1>4. b \in Seq(Request) /\ DOMAIN b = DOMAIN o /\ \A k \in DOMAIN o : b[k] = [old[o[k]] EXCEPT !.heard = FALSE]
  BY <1>3, SilentOf DEF Silent
<1> HIDE DEF b
<1>5. o \in [DOMAIN b -> DOMAIN old \ (DOMAIN old \ Kept(old))]
  BY <1>2, <1>4
<1>6. \A i \in DOMAIN old \ (DOMAIN old \ Kept(old)) : \E k \in DOMAIN b : o[k] = i
  BY <1>2, <1>4
<1>7. PICK f : Trace(old, new, f, DOMAIN old \ Kept(old), Under(asks)) /\ Placed(new, f, b, o)
  <2>1. new = b \o asks
    BY DEF b
  <2>2. Stay(old, DOMAIN old \ Kept(old), b, o)
    BY <1>2, <1>4, <1>5, <1>6 DEF Stay
  <2> QED BY <2>1, <2>2, TraceOf
<1>8. Silences(old, new, f)
  BY <1>4, <1>7 DEF Silences, Placed
<1> QED BY <1>7, <1>8

\* The same once a request was taken.
LEMMA TraceOfClosingRest ==
  ASSUME NEW old \in Seq(Request), NEW new, NEW i \in DOMAIN old, NEW asks \in Seq(Request), NEW o \in InOrder(Kept(RemoveAt(old, i))), new = Silent(RemoveAt(old, i), o) \o asks
  PROVE  \E f : Trace(old, new, f, {i} \cup (DOMAIN old \ Kept(old)), Under(asks)) /\ Silences(old, new, f)
<1> DEFINE b == Silent(RemoveAt(old, i), o)
           g == [k \in DOMAIN o |-> Was(i, o[k])]
           gone == {i} \cup (DOMAIN old \ Kept(old))
<1>2. /\ RemoveAt(old, i) \in Seq(Request)
      /\ \A k \in DOMAIN RemoveAt(old, i) : Was(i, k) \in DOMAIN old \ {i} /\ RemoveAt(old, i)[k] = old[Was(i, k)]
      /\ \A k, m \in DOMAIN RemoveAt(old, i) : Was(i, k) = Was(i, m) => k = m
      /\ \A j \in DOMAIN old \ {i} : \E k \in DOMAIN RemoveAt(old, i) : Was(i, k) = j
  BY RestOf
<1>3. /\ o \in Seq(Kept(RemoveAt(old, i))) /\ Kept(RemoveAt(old, i)) \subseteq DOMAIN RemoveAt(old, i)
      /\ \A k, m \in DOMAIN o : o[k] = o[m] => k = m
      /\ \A j \in Kept(RemoveAt(old, i)) : \E k \in DOMAIN o : o[k] = j
  BY <1>2, InOrderKept
<1>4. o \in Seq(DOMAIN RemoveAt(old, i)) /\ \A k \in DOMAIN o : o[k] \in Kept(RemoveAt(old, i)) /\ o[k] \in DOMAIN RemoveAt(old, i)
  BY <1>3
<1>5. /\ b \in Seq(Request) /\ DOMAIN b = DOMAIN o
      /\ \A k \in DOMAIN o : b[k] = [RemoveAt(old, i)[o[k]] EXCEPT !.heard = FALSE]
  BY <1>2, <1>4, SilentOf DEF Silent
<1>6. \A k \in DOMAIN RemoveAt(old, i) : Was(i, k) \in Kept(old) <=> k \in Kept(RemoveAt(old, i))
  BY <1>2 DEF Kept
<1>7. DOMAIN g = DOMAIN o /\ \A k \in DOMAIN o : g[k] = Was(i, o[k])
  OBVIOUS
<1> HIDE DEF b, g
<1>8. \A k \in DOMAIN o : Was(i, o[k]) \in DOMAIN old \ gone
  BY <1>2, <1>4, <1>6
<1>9. g \in [DOMAIN b -> DOMAIN old \ gone]
  BY <1>5, <1>7, <1>8 DEF g
<1>10. \A k, m \in DOMAIN b : g[k] = g[m] => k = m
  BY <1>2, <1>3, <1>4, <1>5, <1>7
<1>11. ASSUME NEW j \in DOMAIN old \ gone
       PROVE  \E k \in DOMAIN b : g[k] = j
  <2>1. PICK k \in DOMAIN RemoveAt(old, i) : Was(i, k) = j
    BY <1>2
  <2>2. k \in Kept(RemoveAt(old, i))
    BY <1>6, <2>1
  <2>3. PICK m \in DOMAIN o : o[m] = k
    BY <1>3, <2>2
  <2> QED BY <1>5, <1>7, <2>1, <2>3
<1>12. PICK f : Trace(old, new, f, gone, Under(asks)) /\ Placed(new, f, b, g)
  <2>1. new = b \o asks
    BY DEF b
  <2>2. Stay(old, gone, b, g)
    BY <1>5, <1>9, <1>10, <1>11 DEF Stay
  <2> QED BY <2>1, <2>2, TraceOf
<1>13. DOMAIN b = DOMAIN o /\ \A k \in DOMAIN o : b[k] = [old[g[k]] EXCEPT !.heard = FALSE]
  BY <1>2, <1>4, <1>5, <1>7
<1>14. Silences(old, new, f)
  BY <1>12, <1>13 DEF Silences, Placed
<1> QED BY <1>12, <1>14

\* The requests that stay are about the same photo, and are heard by the same step.
Same(old, new, f) ==
  \A k \in DOMAIN new : f[k] # 0 =>
    /\ new[k].kind = old[f[k]].kind /\ new[k].heard = old[f[k]].heard
    /\ new[k].kind \in {"create", "analyze"} => new[k] = old[f[k]]

\* A step of the wizard that is about no photo, but may take the answer to a registration.
OfNoPhoto(gone, fresh) ==
  /\ \A c \in fresh : c.kind \notin {"create", "analyze"} /\ (c.heard => wizard.open # "no")
  /\ \A i \in gone : requests[i].kind = "create" =>
       /\ requests[i].answer # "none"
       /\ wizard'.created # 0 \/ ~requests[i].heard \/ requests[i].answer = "failed"
  /\ wizard'.open = wizard.open /\ wizard'.shots = wizard.shots /\ wizard'.photo = wizard.photo
  /\ wizard'.read = wizard.read /\ wizard'.ready = wizard.ready
  /\ wizard'.created = 0 => wizard.created = 0
  /\ \A i \in Positions("create") \ gone : requests[i].heard => "vehicle" \in wizard'.sending
  /\ cars' = cars /\ hasty \subseteq hasty'

LEMMA PhotosStill ==
  ASSUME StepsHeard, PhotosOnce, PlatesRead, WizardTypeOK, NEW f, NEW gone, NEW fresh,
         Trace(requests, requests', f, gone, fresh), Same(requests, requests', f), OfNoPhoto(gone, fresh)
  PROVE  StepsHeard' /\ PhotosOnce' /\ PlatesRead'
<1>1. /\ \A k \in DOMAIN requests' : (f[k] = 0 /\ requests'[k] \in fresh) \/ f[k] \in DOMAIN requests \ gone
      /\ \A k, m \in DOMAIN requests' : f[k] = f[m] => k = m \/ f[k] = 0
      /\ \A i \in DOMAIN requests \ gone : \E k \in DOMAIN requests' : f[k] = i
  BY DEF Trace
<1>2. DOMAIN requests \subseteq Nat \ {0}
  BY DEF WizardTypeOK
<1>3. \A k \in DOMAIN requests' : requests'[k].kind \in {"create", "analyze"} =>
        f[k] \in DOMAIN requests \ gone /\ requests'[k] = requests[f[k]]
  BY <1>1, <1>2 DEF Same, OfNoPhoto
<1>4. \A i \in DOMAIN requests \ gone : requests[i].kind \in {"create", "analyze"} =>
        \E k \in DOMAIN requests' : f[k] = i /\ requests'[k] = requests[i]
  BY <1>1, <1>2 DEF Same
<1>5. StepsHeard'
  <2>1. wizard'.open = "no" => \A k \in DOMAIN requests' : ~requests'[k].heard /\ requests'[k].kind # "analyze"
    BY <1>1, <1>2, <1>3 DEF StepsHeard, Same, OfNoPhoto
  <2>2. ASSUME NEW k \in DOMAIN requests', requests'[k].kind = "create"
        PROVE  /\ requests'[k].photo <= wizard'.shots
               /\ requests'[k].answer = "ok" => requests'[k].car # 0
               /\ requests'[k].heard => "vehicle" \in wizard'.sending /\ requests'[k].photo = wizard'.photo
    BY <1>3, <2>2 DEF StepsHeard, OfNoPhoto, Positions
  <2>3. \A k, m \in DOMAIN requests' : requests'[k].kind = "create" /\ requests'[m].kind = "create"
          /\ requests'[k].heard /\ requests'[m].heard => k = m
    BY <1>1, <1>2, <1>3 DEF StepsHeard, Positions
  <2>4. wizard'.photo <= wizard'.shots /\ \A c \in DOMAIN cars' : cars'[c].photo <= wizard'.shots
    BY DEF StepsHeard, OfNoPhoto
  <2> QED BY <2>1, <2>2, <2>3, <2>4 DEF StepsHeard, Positions
<1>6. PhotosOnce'
  <2> SUFFICES ASSUME hasty' \cap {"submit", "lost"} = {}
               PROVE  /\ \A a, b \in DOMAIN cars' : cars'[a].photo = cars'[b].photo => a = b \/ cars'[a].photo = 0
                      /\ \A i, j \in DOMAIN requests' : Sent(i)' /\ Sent(j)' /\ requests'[i].photo = requests'[j].photo =>
                           i = j \/ requests'[i].photo = 0
                      /\ \A i \in DOMAIN requests', a \in DOMAIN cars' :
                           Sent(i)' /\ requests'[i].photo = cars'[a].photo => cars'[a].photo = 0
                      /\ wizard'.photo # 0 /\ wizard'.created = 0 /\ Spent(wizard.photo)' =>
                           \E i \in Positions("create")' : requests'[i].heard /\ requests'[i].answer # "failed"
    BY DEF PhotosOnce
  <2>1. hasty \cap {"submit", "lost"} = {}
    BY DEF OfNoPhoto
  <2>2. \A i \in DOMAIN requests' : Sent(i)' => f[i] \in DOMAIN requests /\ Sent(f[i]) /\ requests'[i] = requests[f[i]]
    BY <1>3 DEF Sent, Positions
  <2>3. cars' = cars
    BY DEF OfNoPhoto
  <2>4. \A a, b \in DOMAIN cars' : cars'[a].photo = cars'[b].photo => a = b \/ cars'[a].photo = 0
    BY <2>1, <2>3 DEF PhotosOnce
  <2>5. \A i, j \in DOMAIN requests' : Sent(i)' /\ Sent(j)' /\ requests'[i].photo = requests'[j].photo =>
           i = j \/ requests'[i].photo = 0
    BY <1>1, <1>2, <2>1, <2>2 DEF PhotosOnce
  <2>6. \A i \in DOMAIN requests', a \in DOMAIN cars' :
           Sent(i)' /\ requests'[i].photo = cars'[a].photo => cars'[a].photo = 0
    BY <2>1, <2>2, <2>3 DEF PhotosOnce
  <2>7. ASSUME wizard'.photo # 0, wizard'.created = 0, Spent(wizard.photo)'
        PROVE  \E i \in Positions("create")' : requests'[i].heard /\ requests'[i].answer # "failed"
    <3>1. wizard.photo # 0 /\ wizard.created = 0 /\ wizard'.photo = wizard.photo
      BY <2>7 DEF OfNoPhoto
    <3>2. Spent(wizard.photo)
      BY <2>2, <2>3, <2>7, <3>1 DEF Spent
    <3>3. PICK i \in Positions("create") : requests[i].heard /\ requests[i].answer # "failed"
      BY <2>1, <3>1, <3>2 DEF PhotosOnce
    <3>4. i \notin gone
      BY <2>7, <3>3 DEF OfNoPhoto, Positions
    <3>5. PICK k \in DOMAIN requests' : requests'[k] = requests[i]
      BY <1>4, <3>3, <3>4 DEF Positions
    <3> QED BY <3>3, <3>5 DEF Positions
  <2> QED BY <2>4, <2>5, <2>6, <2>7
<1>7. PlatesRead'
  <2> SUFFICES ASSUME hasty' \cap {"photo", "unread"} = {}
               PROVE  /\ \A c \in DOMAIN cars' : cars'[c].read \in {0, cars'[c].photo}
                      /\ \A i \in Positions("create")' : requests'[i].read \in {0, requests'[i].photo}
                      /\ wizard'.ready => wizard'.read \in {0, wizard'.photo}
                      /\ \A i \in Positions("analyze")' :
                           /\ requests'[i].photo = wizard'.photo /\ requests'[i].read \in {0, requests'[i].photo}
                           /\ \A j \in Positions("analyze")' : i = j
    BY DEF PlatesRead
  <2>1. hasty \cap {"photo", "unread"} = {}
    BY DEF OfNoPhoto
  <2>2. (\A c \in DOMAIN cars' : cars'[c].read \in {0, cars'[c].photo}) /\ (wizard'.ready => wizard'.read \in {0, wizard'.photo})
    BY <2>1 DEF OfNoPhoto, PlatesRead
  <2>3. \A i \in Positions("create")' : requests'[i].read \in {0, requests'[i].photo}
    BY <1>3, <2>1 DEF Positions, PlatesRead
  <2>4. \A i \in Positions("analyze")' : requests'[i].photo = wizard'.photo /\ requests'[i].read \in {0, requests'[i].photo}
    BY <1>3, <2>1 DEF Positions, PlatesRead, OfNoPhoto
  <2>5. \A i, j \in Positions("analyze")' : i = j
    BY <1>1, <1>2, <1>3, <2>1 DEF Positions, PlatesRead
  <2> QED BY <2>2, <2>3, <2>4, <2>5
<1> QED BY <1>5, <1>6, <1>7

\* A dialog that opens or closes: nobody hears of what was under way, and no photo is shown.
Deaf(old, new, f) ==
  \A k \in DOMAIN new : f[k] # 0 =>
    /\ ~new[k].heard /\ new[k].kind = old[f[k]].kind
    /\ new[k].photo = old[f[k]].photo /\ new[k].read = old[f[k]].read /\ new[k].answer = old[f[k]].answer
    /\ new[k].car = old[f[k]].car

LEMMA DialogStill ==
  ASSUME StepsHeard, PhotosOnce, PlatesRead, WizardTypeOK, NEW f, NEW gone, NEW fresh, NEW open,
         Trace(requests, requests', f, gone, fresh), Deaf(requests, requests', f), 
         \A c \in fresh : c.kind \notin {"create", "analyze"} /\ ~c.heard,
         \A i \in DOMAIN requests \ gone : requests[i].kind # "analyze",
         wizard' = Dialog(open), cars' = cars, hasty' = hasty
  PROVE  StepsHeard' /\ PhotosOnce' /\ PlatesRead'
<1>1. /\ \A k \in DOMAIN requests' : (f[k] = 0 /\ requests'[k] \in fresh) \/ f[k] \in DOMAIN requests \ gone
      /\ \A k, m \in DOMAIN requests' : f[k] = f[m] => k = m \/ f[k] = 0
  BY DEF Trace
<1>2. DOMAIN requests \subseteq Nat \ {0}
  BY DEF WizardTypeOK
<1>3. /\ wizard \in Wizard
      /\ wizard'.shots = wizard.shots /\ wizard'.photo = 0 /\ wizard'.ready = FALSE
  <2>1. wizard \in Wizard
    BY DEF WizardTypeOK
  <2> QED BY <2>1 DEF Dialog, Wizard
<1>4. \A k \in DOMAIN requests' : ~requests'[k].heard /\ requests'[k].kind # "analyze"
  BY <1>1, <1>2 DEF Deaf
<1>5. \A k \in DOMAIN requests' : requests'[k].kind = "create" =>
        /\ f[k] \in DOMAIN requests /\ requests[f[k]].kind = "create" /\ requests'[k].photo = requests[f[k]].photo
        /\ requests'[k].read = requests[f[k]].read /\ requests'[k].answer = requests[f[k]].answer
        /\ requests'[k].car = requests[f[k]].car
  BY <1>1, <1>2 DEF Deaf
<1>6. StepsHeard'
  <2>1. 0 <= wizard.shots
    BY <1>3, OnboardingAssumption DEF Wizard, Photos
  <2> QED BY <1>3, <1>4, <1>5, <2>1 DEF StepsHeard, Positions
<1>7. PhotosOnce'
  <2>1. \A i \in DOMAIN requests' : Sent(i)' => f[i] \in DOMAIN requests /\ Sent(f[i]) /\ requests'[i].photo = requests[f[i]].photo
    BY <1>5 DEF Sent, Positions
  <2>2. f \in [DOMAIN requests' -> Nat] /\ \A i \in DOMAIN requests' : Sent(i)' => f[i] # 0
    BY <2>1, <1>2 DEF Trace
  <2> QED BY <1>1, <1>3, <2>1, <2>2 DEF PhotosOnce
<1>8. PlatesRead'
  BY <1>3, <1>4, <1>5 DEF PlatesRead, Positions
<1> QED BY <1>6, <1>7, <1>8

LEMMA Numbers ==
  MaxCars \in Nat /\ MaxCars >= 1 /\ MaxPhotos \in Nat /\ MaxRequests \in Nat /\ MaxDocs \in Nat /\ MaxClicks \in Nat
BY OnboardingAssumption

LEMMA RequestTypes ==
  /\ NoCerts \in Certs /\ Blank \in Request
  /\ \A kind \in Kinds : Plain(kind) \in Request /\ Plain(kind).kind = kind /\ ~Plain(kind).heard /\ Plain(kind).answer = "none"
  /\ \A then \in {"", "created", "finish", "page"} :
       Me(then) \in Request /\ Me(then).kind = "me" /\ ~Me(then).heard /\ Me(then).answer = "none" /\ Me(then).then = then
<1>1. NoCerts \in Certs
  BY Numbers DEF NoCerts, Certs
<1>2. Blank \in Request
  BY <1>1, Numbers DEF Blank, Request, Kinds, Photos, Papers
<1>3. Blank.heard = FALSE /\ Blank.answer = "none"
  BY DEF Blank
<1>4. ASSUME NEW kind \in Kinds
      PROVE  Plain(kind) \in Request /\ Plain(kind).kind = kind /\ ~Plain(kind).heard /\ Plain(kind).answer = "none"
  BY <1>2, <1>3 DEF Plain, Request
<1>5. "me" \in Kinds
  BY DEF Kinds
<1>6. ASSUME NEW then \in {"", "created", "finish", "page"}
      PROVE  Me(then) \in Request /\ Me(then).kind = "me" /\ ~Me(then).heard /\ Me(then).answer = "none" /\ Me(then).then = then
  <2>1. PICK r \in Request : r = Plain("me") /\ r.kind = "me" /\ ~r.heard /\ r.answer = "none"
    BY <1>4, <1>5
  <2> QED BY <2>1 DEF Me, Request
<1> QED BY <1>1, <1>2, <1>4, <1>6

LEMMA LoadsTypes ==
  ASSUME NEW p
  PROVE  /\ Loads(p) \in Seq(Request)
         /\ \A r \in Under(Loads(p)) : r \in Request /\ r.kind \in {"cars", "certs"} /\ ~r.heard /\ r.answer = "none"
         /\ Plain("cars") \in Under(Loads(p))
         /\ p.driver => Plain("certs") \in Under(Loads(p))
<1>1. /\ Plain("cars") \in Request /\ Plain("cars").kind = "cars" /\ ~Plain("cars").heard /\ Plain("cars").answer = "none"
      /\ Plain("certs") \in Request /\ Plain("certs").kind = "certs" /\ ~Plain("certs").heard /\ Plain("certs").answer = "none"
  BY RequestTypes DEF Kinds
<1>2. CASE p.driver
  <2>1. Loads(p) = <<Plain("cars"), Plain("certs")>>
    BY <1>2 DEF Loads
  <2>2. Under(Loads(p)) = {Plain("cars"), Plain("certs")}
    BY <2>1 DEF Under
  <2>3. Loads(p) \in Seq(Request)
    BY <1>1, <2>1
  <2> QED BY <1>1, <2>2, <2>3
<1>3. CASE ~p.driver
  <2>1. Loads(p) = <<Plain("cars")>>
    BY <1>3 DEF Loads
  <2>2. Under(Loads(p)) = {Plain("cars")}
    BY <2>1 DEF Under
  <2>3. Loads(p) \in Seq(Request)
    BY <1>1, <2>1
  <2> QED BY <1>1, <1>3, <2>2, <2>3
<1> QED BY <1>2, <1>3

LEMMA OneUnder ==
  ASSUME NEW r PROVE Under(<<r>>) = {r}
BY DEF Under

LEMMA DialogTypes ==
  ASSUME wizard \in Wizard, NEW open \in {"no", "driver", "add"}
  PROVE  /\ Dialog(open) \in Wizard
         /\ Dialog(open).open = open /\ Dialog(open).created = 0 /\ Dialog(open).passed = {} /\ Dialog(open).sending = {}
<1> PICK w \in Wizard : w = wizard
  OBVIOUS
<1>1. Dialog(open) = [w EXCEPT !.open = open, !.step = IF open = "add" THEN "vehicle" ELSE "license", !.created = 0,
                        !.passed = {}, !.sending = {}, !.photo = 0, !.read = 0, !.ready = FALSE]
  BY DEF Dialog
<1>2. 0 \in 0..MaxCars /\ 0 \in Photos
  BY Numbers DEF Photos
<1>3. /\ w.shots \in Photos /\ FALSE \in BOOLEAN /\ {} \in SUBSET Papers /\ {} \in SUBSET Steps
      /\ (IF open = "add" THEN "vehicle" ELSE "license") \in Steps
  BY DEF Wizard, Steps
<1>4. Dialog(open) \in Wizard
  BY <1>1, <1>2, <1>3 DEF Wizard
<1>5. Dialog(open).open = open /\ Dialog(open).created = 0 /\ Dialog(open).passed = {} /\ Dialog(open).sending = {}
  BY <1>1 DEF Wizard
<1> QED BY <1>4, <1>5

PageTypes == page \in Page /\ (page.has_certs \/ page.certs = NoCerts)
LEMMA WithoutCertsTypes ==
  ASSUME NEW p \in Page, p.has_certs \/ p.certs = NoCerts
  PROVE  /\ WithoutCerts(p) \in Page /\ (WithoutCerts(p).has_certs \/ WithoutCerts(p).certs = NoCerts)
         /\ WithoutCerts(p).cars = p.cars /\ WithoutCerts(p).driver = p.driver
         /\ p.driver => WithoutCerts(p) = p
BY RequestTypes DEF WithoutCerts, Page

\* What the requests of a step come to.
LEMMA AskedOne ==
  ASSUME requests \in Seq(Request), NEW r, r \in Request, Asks(<<r>>)
  PROVE  \E f : Trace(requests, requests', f, {}, {r}) /\ Keeps(requests, requests', f)
<1>1. <<r>> \in Seq(Request) /\ requests' = requests \o <<r>>
  BY DEF Asks
<1> QED BY <1>1, TraceOfAsked, OneUnder
LEMMA TakenOnly ==
  ASSUME requests \in Seq(Request), NEW i \in DOMAIN requests, requests' = Rest(i)
  PROVE  \E f : Trace(requests, requests', f, {i}, {}) /\ Keeps(requests, requests', f)
BY TraceOfRest DEF Rest
LEMMA TakenForOne ==
  ASSUME requests \in Seq(Request), NEW i \in DOMAIN requests, NEW r, r \in Request, requests' = Append(Rest(i), r)
  PROVE  \E f : Trace(requests, requests', f, {i}, {r}) /\ Keeps(requests, requests', f)
<1>1. <<r>> \in Seq(Request) /\ Rest(i) \in Seq(Request)
  BY RestOf DEF Rest
<1>2. requests' = RemoveAt(requests, i) \o <<r>>
  BY <1>1 DEF Rest
<1>3. \E f : Trace(requests, requests', f, {i}, Under(<<r>>)) /\ Keeps(requests, requests', f)
  BY <1>1, <1>2, TraceOfTaken
<1> QED BY <1>3, OneUnder
LEMMA TakenForLoads ==
  ASSUME requests \in Seq(Request), NEW i \in DOMAIN requests, NEW p, requests' = Rest(i) \o Loads(p)
  PROVE  \E f : Trace(requests, requests', f, {i}, Under(Loads(p))) /\ Keeps(requests, requests', f)
<1>1. Loads(p) \in Seq(Request) /\ requests' = RemoveAt(requests, i) \o Loads(p)
  BY LoadsTypes DEF Rest
<1> QED BY <1>1, TraceOfTaken
LEMMA Replied ==
  ASSUME requests \in Seq(Request), NEW i \in DOMAIN requests, NEW c, c \in Request, Reply(i, c)
  PROVE  \E f : Trace(requests, requests', f, {}, {}) /\ Answers(requests, requests', f, i, c)
BY TraceOfReply DEF Reply
LEMMA ClosedWith ==
  ASSUME requests \in Seq(Request), NEW asks, asks \in Seq(Request), Closing(requests, asks)
  PROVE  \E f : Trace(requests, requests', f, DOMAIN requests \ Kept(requests), Under(asks)) /\ Silences(requests, requests', f)
<1>1. PICK o \in InOrder(Kept(requests)) : requests' = Silent(requests, o) \o asks
  BY DEF Closing, Silent
<1> QED BY <1>1, TraceOfClosing
LEMMA ClosedTaking ==
  ASSUME requests \in Seq(Request), NEW i \in DOMAIN requests, NEW asks, asks \in Seq(Request), Closing(Rest(i), asks)
  PROVE  \E f : /\ Trace(requests, requests', f, {i} \cup (DOMAIN requests \ Kept(requests)), Under(asks))
                /\ Silences(requests, requests', f)
<1>1. PICK o \in InOrder(Kept(Rest(i))) : requests' = Silent(Rest(i), o) \o asks
  BY DEF Closing, Silent
<1>2. o \in InOrder(Kept(RemoveAt(requests, i))) /\ requests' = Silent(RemoveAt(requests, i), o) \o asks
  BY <1>1 DEF Rest
<1> QED BY <1>2, TraceOfClosingRest

LEMMA WizardTypeFacts ==
  ASSUME WizardTypeOK
  PROVE  /\ requests \in Seq(Request) /\ wizard \in Wizard /\ page \in Page /\ PageTypes
         /\ DOMAIN cars = 1..Len(cars) /\ DOMAIN cars \subseteq CarIds /\ garage \subseteq CarIds /\ CertsNow \in Certs
         /\ \A i \in DOMAIN requests : requests[i] \in Request
<1>1. /\ requests \in Seq(Request) /\ wizard \in Wizard /\ page \in Page /\ PageTypes
      /\ cars \in Seq([photo : Photos, read : Photos]) /\ Len(cars) <= MaxCars /\ garage \subseteq DOMAIN cars /\ docs \in 0..MaxDocs
  BY DEF WizardTypeOK, PageTypes
<1>2. DOMAIN cars = 1..Len(cars) /\ Len(cars) \in Nat
  BY <1>1
<1>3. DOMAIN cars \subseteq CarIds /\ garage \subseteq CarIds
  BY <1>1, <1>2, Numbers DEF CarIds
<1>4. CertsNow \in Certs
  BY <1>1, <1>3 DEF CertsNow, Certs
<1>5. \A i \in DOMAIN requests : requests[i] \in Request
  BY <1>1
<1> QED BY <1>1, <1>2, <1>3, <1>4, <1>5

\* The parts that most steps leave alone.
Rows == cars \in Seq([photo : Photos, read : Photos]) /\ Len(cars) <= MaxCars /\ garage \subseteq DOMAIN cars
        /\ docs \in 0..MaxDocs /\ driver \in BOOLEAN
Notes == clicks \in 0..MaxClicks /\ unsure \subseteq {"cars", "certs", "driver"} /\ hasty \subseteq {"photo", "submit", "lost", "unread"}
LEMMA WizardTypeParts ==
  Rows' /\ Notes' /\ PageTypes' /\ wizard' \in Wizard /\ requests' \in Seq(Request) => WizardTypeOK'
BY DEF WizardTypeOK, Rows, Notes, PageTypes

LEMMA ClickTypes ==
  ASSUME WizardTypeOK, Click
  PROVE  clicks' \in 0..MaxClicks
BY Numbers DEF WizardTypeOK, Click

LEMMA ToggleTypes ==
  ASSUME WizardTypeOK, Toggle
  PROVE  WizardTypeOK'
<1> USE WizardTypeFacts
<1>1. Rows' /\ Notes'
  BY ClickTypes DEF Toggle, WizardTypeOK, Rows, Notes
<1>2. CASE ~page.driver /\ page.cars = {}
  BY <1>1, <1>2, DialogTypes, WizardTypeParts DEF Toggle, PageTypes
<1>3. CASE ~(~page.driver /\ page.cars = {})
  <2>1. PICK p \in Page : p = page
    OBVIOUS
  <2> DEFINE r == [Plain("mode") EXCEPT !.flag = ~page.driver]
  <2>2. r \in Request
    <3>1. PICK c \in Request : c = Plain("mode")
      BY RequestTypes DEF Kinds
    <3>2. [c EXCEPT !.flag = ~p.driver] \in Request
      BY DEF Request, Page
    <3> QED BY <2>1, <3>1, <3>2
  <2> HIDE DEF r
  <2>3. requests' \in Seq(Request)
    <3>1. requests' = requests \o <<r>>
      BY <1>3 DEF Toggle, Asks, r
    <3>2. <<r>> \in Seq(Request)
      BY <2>2
    <3> QED BY <3>1, <3>2
  <2>4. PageTypes'
    <3>1. page' = [p EXCEPT !.saving = TRUE]
      BY <1>3, <2>1 DEF Toggle
    <3>2. p.has_certs \/ p.certs = NoCerts
      BY <2>1 DEF PageTypes
    <3>3. page' \in Page /\ page'.has_certs = p.has_certs /\ page'.certs = p.certs
      BY <3>1 DEF Page
    <3> QED BY <3>2, <3>3 DEF PageTypes
  <2> QED BY <1>1, <1>3, <2>3, <2>4, WizardTypeParts DEF Toggle
<1> QED BY <1>2, <1>3

LEMMA AddVehicleTypes ==
  ASSUME WizardTypeOK, AddVehicle
  PROVE  WizardTypeOK'
<1>1. Rows' /\ Notes' /\ PageTypes'
  BY ClickTypes DEF AddVehicle, WizardTypeOK, Rows, Notes, PageTypes
<1> QED BY <1>1, WizardTypeFacts, DialogTypes, WizardTypeParts DEF AddVehicle

LEMMA ClosingTypes ==
  ASSUME requests \in Seq(Request), NEW asks, asks \in Seq(Request), Closing(requests, asks)
  PROVE  requests' \in Seq(Request)
BY ClosedWith DEF Trace
LEMMA AskingTypes ==
  ASSUME requests \in Seq(Request), NEW r, r \in Request, Asks(<<r>>)
  PROVE  requests' \in Seq(Request)
BY AskedOne DEF Trace

LEMMA CloseTypes ==
  ASSUME WizardTypeOK, Close
  PROVE  WizardTypeOK'
<1>1. Rows' /\ Notes' /\ PageTypes'
  BY ClickTypes DEF Close, WizardTypeOK, Rows, Notes, PageTypes
<1>2. requests' \in Seq(Request)
  <2>1. << >> \in Seq(Request)
    OBVIOUS
  <2> QED BY <2>1, WizardTypeFacts, ClosingTypes DEF Close
<1> QED BY <1>1, <1>2, WizardTypeFacts, DialogTypes, WizardTypeParts DEF Close

LEMMA SubmitDocumentTypes ==
  ASSUME WizardTypeOK, SubmitDocument
  PROVE  WizardTypeOK'
<1>1. Rows' /\ Notes' /\ PageTypes'
  BY ClickTypes DEF SubmitDocument, WizardTypeOK, Rows, Notes, PageTypes
<1>2. PICK w \in Wizard : w = wizard
  BY WizardTypeFacts
<1>3. w.step \in Papers
  BY <1>2 DEF SubmitDocument
<1>4. wizard' \in Wizard
  <2>1. wizard' = [w EXCEPT !.sending = w.sending \cup {w.step}]
    BY <1>2 DEF SubmitDocument
  <2>2. w.sending \cup {w.step} \in SUBSET Steps
    BY <1>2 DEF Wizard
  <2> QED BY <2>1, <2>2 DEF Wizard
<1>5. requests' \in Seq(Request)
  <2>1. [Plain(wizard.step) EXCEPT !.heard = TRUE] \in Request
    <3>1. PICK r \in Request : r = Plain(wizard.step)
      BY <1>2, <1>3, RequestTypes DEF Kinds
    <3>2. [r EXCEPT !.heard = TRUE] \in Request
      BY DEF Request
    <3> QED BY <3>1, <3>2
  <2> QED BY <2>1, WizardTypeFacts, AskingTypes DEF SubmitDocument
<1> QED BY <1>1, <1>4, <1>5, WizardTypeParts

LEMMA UploadTypes ==
  ASSUME WizardTypeOK, Upload
  PROVE  WizardTypeOK'
<1>1. Rows' /\ Notes' /\ PageTypes'
  BY ClickTypes DEF Upload, WizardTypeOK, Rows, Notes, PageTypes
<1>2. requests' \in Seq(Request)
  BY WizardTypeFacts, AskingTypes, RequestTypes DEF Upload, Kinds
<1> QED BY <1>1, <1>2, WizardTypeFacts, WizardTypeParts DEF Upload

LEMMA PageAsked == Me("page") \in Request /\ <<Me("page")>> \in Seq(Request)
<1>1. Me("page") \in Request
  BY RequestTypes
<1> HIDE DEF Me
<1> QED BY <1>1

LEMMA NextStepTypes ==
  ASSUME WizardTypeOK, NextStep
  PROVE  WizardTypeOK'
<1>1. Rows' /\ Notes' /\ PageTypes'
  BY ClickTypes DEF NextStep, WizardTypeOK, Rows, Notes, PageTypes
<1>2. PICK w \in Wizard : w = wizard
  BY WizardTypeFacts
<1>3. CASE wizard' = [wizard EXCEPT !.step = "vehicle"] /\ requests' = requests
  <2>1. [w EXCEPT !.step = "vehicle"] \in Wizard
    BY DEF Wizard, Steps
  <2> QED BY <1>1, <1>2, <1>3, <2>1, WizardTypeFacts, WizardTypeParts
<1>4. CASE Asks(<<Me("finish")>>) /\ wizard' = wizard
  BY <1>1, <1>4, WizardTypeFacts, AskingTypes, RequestTypes, WizardTypeParts
<1>5. CASE Closing(requests, <<Me("page")>>) /\ wizard' = Dialog("no")
  <2>1. <<Me("page")>> \in Seq(Request)
    BY PageAsked
  <2> QED BY <1>1, <1>5, <2>1, WizardTypeFacts, ClosingTypes, DialogTypes, WizardTypeParts
<1> QED BY <1>3, <1>4, <1>5 DEF NextStep

LEMMA BackTypes ==
  ASSUME WizardTypeOK, Back
  PROVE  WizardTypeOK'
<1>1. Rows' /\ Notes' /\ PageTypes'
  BY ClickTypes DEF Back, WizardTypeOK, Rows, Notes, PageTypes
<1>2. PICK w \in Wizard : w = wizard
  BY WizardTypeFacts
<1>3. [w EXCEPT !.step = "license"] \in Wizard
  BY DEF Wizard, Steps
<1> QED BY <1>1, <1>2, <1>3, WizardTypeFacts, WizardTypeParts DEF Back

LEMMA PickTypes ==
  ASSUME WizardTypeOK, Pick
  PROVE  WizardTypeOK'
<1>1. Rows' /\ Notes' /\ PageTypes'
  BY ClickTypes DEF Pick, WizardTypeOK, Rows, Notes, PageTypes
<1>2. PICK w \in Wizard : w = wizard
  BY WizardTypeFacts
<1>3. w.shots + 1 \in Photos
  BY <1>2, Numbers DEF Pick, Photos, Wizard
<1>4. wizard' \in Wizard
  <2>1. wizard' = [w EXCEPT !.shots = w.shots + 1, !.photo = w.shots + 1, !.ready = FALSE]
    BY <1>2 DEF Pick
  <2> QED BY <1>3, <2>1 DEF Wizard
<1>5. requests' \in Seq(Request)
  <2>1. PICK r \in Request : r = Plain("analyze")
    BY RequestTypes DEF Kinds
  <2>2. [r EXCEPT !.heard = TRUE, !.photo = w.shots + 1] \in Request
    BY <1>3 DEF Request
  <2> QED BY <1>2, <2>1, <2>2, WizardTypeFacts, AskingTypes DEF Pick
<1> QED BY <1>1, <1>4, <1>5, WizardTypeParts

LEMMA SubmitCarTypes ==
  ASSUME WizardTypeOK, SubmitCar
  PROVE  WizardTypeOK'
<1>1. Rows' /\ Notes' /\ PageTypes'
  BY ClickTypes DEF SubmitCar, WizardTypeOK, Rows, Notes, PageTypes
<1>2. PICK w \in Wizard : w = wizard
  BY WizardTypeFacts
<1>3. wizard' \in Wizard
  <2>1. wizard' = [w EXCEPT !.sending = w.sending \cup {"vehicle"}]
    BY <1>2 DEF SubmitCar
  <2>2. w.sending \cup {"vehicle"} \in SUBSET Steps
    BY DEF Wizard, Steps
  <2> QED BY <2>1, <2>2 DEF Wizard
<1>4. requests' \in Seq(Request)
  <2>1. PICK r \in Request : r = Plain("create")
    BY RequestTypes DEF Kinds
  <2>2. w.photo \in Photos /\ w.read \in Photos
    BY DEF Wizard
  <2>3. [r EXCEPT !.heard = TRUE, !.photo = w.photo, !.read = w.read] \in Request
    BY <2>2 DEF Request
  <2> QED BY <1>2, <2>1, <2>3, WizardTypeFacts, AskingTypes DEF SubmitCar
<1> QED BY <1>1, <1>3, <1>4, WizardTypeParts

LEMMA DeleteTypes ==
  ASSUME WizardTypeOK, NEW car \in CarIds, Delete(car)
  PROVE  WizardTypeOK'
<1>1. Rows' /\ Notes' /\ PageTypes'
  BY ClickTypes DEF Delete, WizardTypeOK, Rows, Notes, PageTypes
<1>2. requests' \in Seq(Request)
  <2>1. PICK r \in Request : r = Plain("delete")
    BY RequestTypes DEF Kinds
  <2>2. car \in 0..MaxCars
    BY Numbers DEF CarIds
  <2>3. [r EXCEPT !.car = car] \in Request
    BY <2>2 DEF Request
  <2> QED BY <2>1, <2>3, WizardTypeFacts, AskingTypes DEF Delete
<1> QED BY <1>1, <1>2, WizardTypeFacts, WizardTypeParts DEF Delete

\* The server.
LEMMA ReplyTypes ==
  ASSUME requests \in Seq(Request), NEW i \in DOMAIN requests, NEW c, c \in Request, Reply(i, c)
  PROVE  requests' \in Seq(Request)
BY Replied DEF Trace

LEMMA ServeReadTypes ==
  ASSUME WizardTypeOK, NEW i \in DOMAIN requests, ServeRead(i)
  PROVE  WizardTypeOK'
<1>1. Rows' /\ Notes' /\ PageTypes' /\ wizard' \in Wizard
  BY WizardTypeFacts DEF ServeRead, WizardTypeOK, Rows, Notes, PageTypes
<1>2. PICK c \in Request : c = requests[i]
  BY WizardTypeFacts
<1>3. /\ [c EXCEPT !.answer = "ok", !.certs = CertsNow] \in Request /\ [c EXCEPT !.answer = "ok", !.read = c.photo] \in Request
      /\ [c EXCEPT !.answer = "ok", !.flag = driver] \in Request /\ [c EXCEPT !.answer = "ok"] \in Request
  <2>1. CertsNow \in Certs /\ driver \in BOOLEAN
    BY WizardTypeFacts DEF WizardTypeOK
  <2> QED BY <2>1 DEF Request
<1>4. requests' \in Seq(Request)
  BY <1>2, <1>3, WizardTypeFacts, ReplyTypes DEF ServeRead
<1> QED BY <1>1, <1>4, WizardTypeParts

LEMMA UnsureTypes ==
  ASSUME NEW i, NEW d, NEW c, NEW ok
  PROVE  /\ OlderLoads \subseteq {"cars", "certs", "driver"} /\ OlderMode(i, d) \subseteq {"cars", "certs", "driver"}
         /\ Missed(c) \subseteq {"cars", "certs", "driver"} /\ Rejected(c, ok) \subseteq {"cars", "certs", "driver"}
BY DEF OlderLoads, OlderMode, Missed, Rejected

LEMMA ServeCreateTypes ==
  ASSUME WizardTypeOK, NEW i \in DOMAIN requests, ServeCreate(i)
  PROVE  WizardTypeOK'
<1>1. PICK c \in Request : c = requests[i]
  BY WizardTypeFacts
<1>2. PageTypes' /\ wizard' \in Wizard
  BY WizardTypeFacts DEF ServeCreate, PageTypes
<1>3. Notes'
  BY UnsureTypes DEF ServeCreate, WizardTypeOK, Notes
<1>4. Rows' /\ Len(cars') \in 0..MaxCars
  <2>1. [photo |-> c.photo, read |-> c.read] \in [photo : Photos, read : Photos]
    BY DEF Request
  <2>2. cars' = Append(cars, [photo |-> c.photo, read |-> c.read]) /\ Len(cars) < MaxCars /\ garage' = garage \cup {Len(cars')}
    BY <1>1 DEF ServeCreate
  <2>3. cars \in Seq([photo : Photos, read : Photos]) /\ garage \subseteq DOMAIN cars
    BY DEF WizardTypeOK
  <2>4. cars' \in Seq([photo : Photos, read : Photos]) /\ Len(cars') = Len(cars) + 1 /\ DOMAIN cars' = DOMAIN cars \cup {Len(cars')}
    BY <2>1, <2>2, <2>3, OneAppended
  <2>5. Len(cars') \in 0..MaxCars
    BY <2>2, <2>3, <2>4, Numbers
  <2>6. docs' \in 0..MaxDocs /\ driver' \in BOOLEAN
    BY DEF ServeCreate, WizardTypeOK
  <2>7. garage' \subseteq DOMAIN cars'
    BY <2>2, <2>3, <2>4
  <2>8. Len(cars') <= MaxCars
    BY <2>5, Numbers
  <2> QED BY <2>4, <2>5, <2>6, <2>7, <2>8 DEF Rows
<1>5. requests' \in Seq(Request)
  <2> DEFINE n == Len(cars')
  <2>1. PICK m \in 0..MaxCars : m = n
    BY <1>4
  <2>2. PICK d \in BOOLEAN : d = driver
    BY DEF WizardTypeOK
  <2>3. [c EXCEPT !.answer = "ok", !.car = m, !.flag = ~d] \in Request
    BY DEF Request
  <2>4. Reply(i, [c EXCEPT !.answer = "ok", !.car = m, !.flag = ~d])
    BY <1>1, <2>1, <2>2 DEF ServeCreate
  <2> QED BY <2>3, <2>4, WizardTypeFacts, ReplyTypes
<1> QED BY <1>2, <1>3, <1>4, <1>5, WizardTypeParts

LEMMA ServeDocumentTypes ==
  ASSUME WizardTypeOK, NEW i \in DOMAIN requests, ServeDocument(i)
  PROVE  WizardTypeOK'
<1>1. PICK c \in Request : c = requests[i]
  BY WizardTypeFacts
<1>2. PageTypes' /\ wizard' \in Wizard
  BY WizardTypeFacts DEF ServeDocument, PageTypes
<1>3. Notes'
  BY UnsureTypes DEF ServeDocument, WizardTypeOK, Notes
<1>4. Rows'
  BY Numbers DEF ServeDocument, WizardTypeOK, Rows
<1>5. \A ok \in BOOLEAN : [c EXCEPT !.answer = "ok", !.flag = ok] \in Request
  BY DEF Request
<1>6. requests' \in Seq(Request)
  BY <1>1, <1>5, WizardTypeFacts, ReplyTypes DEF ServeDocument
<1> QED BY <1>2, <1>3, <1>4, <1>6, WizardTypeParts

LEMMA ServeDeleteTypes ==
  ASSUME WizardTypeOK, NEW i \in DOMAIN requests, ServeDelete(i)
  PROVE  WizardTypeOK'
<1>1. PICK c \in Request : c = requests[i]
  BY WizardTypeFacts
<1>2. PageTypes' /\ wizard' \in Wizard
  BY WizardTypeFacts DEF ServeDelete, PageTypes
<1>3. Notes'
  BY UnsureTypes DEF ServeDelete, WizardTypeOK, Notes
<1>4. Rows'
  BY DEF ServeDelete, WizardTypeOK, Rows
<1>5. [c EXCEPT !.answer = "ok"] \in Request /\ [c EXCEPT !.answer = "failed"] \in Request
  BY DEF Request
<1>6. requests' \in Seq(Request)
  <2>1. [c EXCEPT !.answer = IF c.car \in garage THEN "ok" ELSE "failed"] \in Request
    BY <1>5
  <2> QED BY <1>1, <2>1, WizardTypeFacts, ReplyTypes DEF ServeDelete
<1> QED BY <1>2, <1>3, <1>4, <1>6, WizardTypeParts

LEMMA ServeModeTypes ==
  ASSUME WizardTypeOK, NEW i \in DOMAIN requests, ServeMode(i)
  PROVE  WizardTypeOK'
<1>1. PICK c \in Request : c = requests[i]
  BY WizardTypeFacts
<1>2. PageTypes' /\ wizard' \in Wizard
  BY WizardTypeFacts DEF ServeMode, PageTypes
<1>3. Notes'
  BY UnsureTypes DEF ServeMode, WizardTypeOK, Notes
<1>4. Rows'
  <2>1. c.flag \in BOOLEAN /\ driver \in BOOLEAN
    BY DEF Request, WizardTypeOK
  <2>2. driver' \in BOOLEAN
    BY <1>1, <2>1 DEF ServeMode
  <2> QED BY <2>2 DEF ServeMode, WizardTypeOK, Rows
<1>5. [c EXCEPT !.answer = "ok"] \in Request /\ [c EXCEPT !.answer = "failed"] \in Request
  BY DEF Request
<1>6. requests' \in Seq(Request)
  <2>1. \A ok : [c EXCEPT !.answer = IF ok THEN "ok" ELSE "failed"] \in Request
    BY <1>5
  <2> QED BY <1>1, <2>1, WizardTypeFacts, ReplyTypes DEF ServeMode
<1> QED BY <1>2, <1>3, <1>4, <1>6, WizardTypeParts

LEMMA LoseTypes ==
  ASSUME WizardTypeOK, NEW i \in DOMAIN requests, Lose(i)
  PROVE  WizardTypeOK'
<1>1. PICK c \in Request : c = requests[i]
  BY WizardTypeFacts
<1>2. PageTypes' /\ wizard' \in Wizard
  BY WizardTypeFacts DEF Lose, PageTypes
<1>3. Rows' /\ Notes'
  BY ClickTypes DEF Lose, WizardTypeOK, Rows, Notes
<1>4. [c EXCEPT !.answer = "failed"] \in Request
  BY DEF Request
<1>5. requests' \in Seq(Request)
  BY <1>1, <1>4, WizardTypeFacts, ReplyTypes DEF Lose
<1> QED BY <1>2, <1>3, <1>5, WizardTypeParts

\* The answers.
LEMMA TakenTypes ==
  ASSUME requests \in Seq(Request), NEW i \in DOMAIN requests
  PROVE  /\ requests' = Rest(i) => requests' \in Seq(Request)
         /\ \A r \in Request : requests' = Append(Rest(i), r) => requests' \in Seq(Request)
         /\ \A p : requests' = Rest(i) \o Loads(p) => requests' \in Seq(Request)
BY TakenOnly, TakenForOne, TakenForLoads DEF Trace

LEMMA SeesTypes ==
  ASSUME unsure \subseteq {"cars", "certs", "driver"}, NEW i, NEW part, NEW now
  PROVE  Sees(i, part, now) \subseteq {"cars", "certs", "driver"}
BY DEF Sees

LEMMA TakeCarsTypes ==
  ASSUME WizardTypeOK, NEW i \in DOMAIN requests, TakeCars(i)
  PROVE  WizardTypeOK'
<1>1. PICK c \in Request : c = requests[i]
  BY WizardTypeFacts
<1>2. PICK p \in Page : p = page
  BY WizardTypeFacts
<1>3. Rows' /\ wizard' \in Wizard /\ requests' \in Seq(Request)
  BY WizardTypeFacts, TakenTypes DEF TakeCars, WizardTypeOK, Rows
<1>4. Notes'
  BY SeesTypes DEF TakeCars, WizardTypeOK, Notes
<1>5. PageTypes'
  <2>1. page' = [p EXCEPT !.cars = c.certs.cars]
    BY <1>1, <1>2 DEF TakeCars
  <2>2. c.certs.cars \in SUBSET CarIds
    BY DEF Request, Certs
  <2>3. page' \in Page /\ page'.has_certs = p.has_certs /\ page'.certs = p.certs
    BY <2>1, <2>2 DEF Page
  <2> QED BY <1>2, <2>3, WizardTypeFacts DEF PageTypes
<1> QED BY <1>3, <1>4, <1>5, WizardTypeParts

LEMMA TakeCertsTypes ==
  ASSUME WizardTypeOK, NEW i \in DOMAIN requests, TakeCerts(i)
  PROVE  WizardTypeOK'
<1>1. PICK c \in Request : c = requests[i]
  BY WizardTypeFacts
<1>2. PICK p \in Page : p = page
  BY WizardTypeFacts
<1>3. Rows' /\ wizard' \in Wizard /\ requests' \in Seq(Request)
  BY WizardTypeFacts, TakenTypes DEF TakeCerts, WizardTypeOK, Rows
<1>4. Notes'
  BY SeesTypes DEF TakeCerts, WizardTypeOK, Notes
<1>5. PageTypes'
  <2>1. page' = [p EXCEPT !.certs = c.certs, !.has_certs = TRUE]
    BY <1>1, <1>2 DEF TakeCerts
  <2>2. c.certs \in Certs
    BY DEF Request
  <2>3. page' \in Page /\ page'.has_certs = TRUE
    BY <2>1, <2>2 DEF Page
  <2> QED BY <2>3 DEF PageTypes
<1> QED BY <1>3, <1>4, <1>5, WizardTypeParts

\* The page with another mode.
LEMMA ModeTypes ==
  ASSUME PageTypes, NEW flag \in BOOLEAN, NEW saving \in BOOLEAN
  PROVE  /\ [page EXCEPT !.driver = flag] \in Page /\ [page EXCEPT !.saving = saving, !.driver = flag] \in Page
         /\ \A p \in {page, [page EXCEPT !.driver = flag], [page EXCEPT !.saving = saving, !.driver = flag]} :
              p \in Page /\ p.cars = page.cars /\ p.has_certs = page.has_certs /\ p.certs = page.certs
         /\ [page EXCEPT !.driver = flag].driver = flag /\ [page EXCEPT !.saving = saving, !.driver = flag].driver = flag
<1> PICK p \in Page : p = page
  BY DEF PageTypes
<1> QED BY DEF Page

LEMMA TakeMeTypes ==
  ASSUME WizardTypeOK, NEW i \in DOMAIN requests, TakeMe(i)
  PROVE  WizardTypeOK'
<1>1. PICK c \in Request : c = requests[i]
  BY WizardTypeFacts
<1>2. PICK w \in Wizard : w = wizard
  BY WizardTypeFacts
<1> DEFINE p == IF c.answer = "ok" THEN [page EXCEPT !.driver = c.flag] ELSE page
<1>3. p \in Page /\ (p.has_certs \/ p.certs = NoCerts)
  <2>1. c.flag \in BOOLEAN /\ PageTypes
    BY WizardTypeFacts DEF Request
  <2>2. p \in {page, [page EXCEPT !.driver = c.flag]}
    OBVIOUS
  <2> HIDE DEF p
  <2> QED BY <2>1, <2>2, ModeTypes DEF PageTypes
<1>4. \/ /\ c.then = "created" /\ requests' = Rest(i) /\ page' = p
         /\ wizard' = [wizard EXCEPT !.step = IF wizard.open = "driver" THEN "insurance" ELSE @]
      \/ /\ c.then = "finish" /\ page' = p
         /\ \/ wizard' = Dialog("no") /\ Closing(Rest(i), <<Me("page")>>)
            \/ requests' = Append(Rest(i), Me("page")) /\ wizard' = wizard
      \/ /\ c.then = "page" /\ requests' = Rest(i) \o AfterMe(p) /\ page' = WithoutCerts(p) /\ wizard' = wizard
  BY <1>1 DEF TakeMe
<1>5. Rows' /\ Notes'
  BY DEF TakeMe, WizardTypeOK, Rows, Notes
<1> HIDE DEF p
<1>6. PageTypes'
  BY <1>3, <1>4, WithoutCertsTypes DEF PageTypes
<1>7. wizard' \in Wizard
  <2>1. \A s \in Steps : [w EXCEPT !.step = s] \in Wizard
    BY DEF Wizard
  <2>2. w.step \in Steps /\ "insurance" \in Steps
    BY DEF Wizard, Steps
  <2>3. [w EXCEPT !.step = IF wizard.open = "driver" THEN "insurance" ELSE w.step] \in Wizard
    BY <2>1, <2>2
  <2> QED BY <1>2, <1>4, <2>3, DialogTypes
<1>8. requests' \in Seq(Request)
  <2>1. Me("page") \in Request /\ <<Me("page")>> \in Seq(Request)
    BY PageAsked
  <2>2. Closing(Rest(i), <<Me("page")>>) => requests' \in Seq(Request)
    BY <2>1, WizardTypeFacts, ClosedTaking DEF Trace
  <2> QED BY <1>4, <2>1, <2>2, WizardTypeFacts, TakenTypes DEF AfterMe
<1> QED BY <1>5, <1>6, <1>7, <1>8, WizardTypeParts

LEMMA TakeModeTypes ==
  ASSUME WizardTypeOK, NEW i \in DOMAIN requests, TakeMode(i)
  PROVE  WizardTypeOK'
<1>1. PICK c \in Request : c = requests[i]
  BY WizardTypeFacts
<1>2. Rows' /\ Notes' /\ wizard' \in Wizard
  BY WizardTypeFacts DEF TakeMode, WizardTypeOK, Rows, Notes
<1> DEFINE flag == IF c.answer = "ok" THEN c.flag ELSE page.driver
           p == [page EXCEPT !.saving = FALSE, !.driver = flag]
<1>3. p \in Page /\ (p.has_certs \/ p.certs = NoCerts)
  <2>1. flag \in BOOLEAN /\ PageTypes
    BY WizardTypeFacts DEF Request, Page
  <2> HIDE DEF flag
  <2> QED BY <2>1, ModeTypes DEF PageTypes
<1>4. page' \in {p, WithoutCerts(p)}
  BY <1>1 DEF TakeMode
<1> HIDE DEF p
<1>5. PageTypes'
  BY <1>3, <1>4, WithoutCertsTypes DEF PageTypes
<1>6. requests' \in Seq(Request)
  <2>1. Plain("certs") \in Request
    BY RequestTypes DEF Kinds
  <2> QED BY <2>1, WizardTypeFacts, TakenTypes DEF TakeMode
<1> QED BY <1>2, <1>5, <1>6, WizardTypeParts

LEMMA TakeDeleteTypes ==
  ASSUME WizardTypeOK, NEW i \in DOMAIN requests, TakeDelete(i)
  PROVE  WizardTypeOK'
<1>1. PICK p \in Page : p = page
  BY WizardTypeFacts
<1>2. Rows' /\ Notes' /\ wizard' \in Wizard
  BY WizardTypeFacts DEF TakeDelete, WizardTypeOK, Rows, Notes
<1>3. PageTypes'
  <2> DEFINE q == [p EXCEPT !.cars = p.cars \ {requests[i].car}]
  <2>1. q \in Page /\ q.has_certs = p.has_certs /\ q.certs = p.certs
    <3>1. p.cars \ {requests[i].car} \in SUBSET CarIds
      BY DEF Page
    <3> QED BY <3>1 DEF Page
  <2>2. page' = page \/ page' = WithoutCerts(q)
    BY <1>1 DEF TakeDelete
  <2> HIDE DEF q
  <2> QED BY <1>1, <2>1, <2>2, WizardTypeFacts, WithoutCertsTypes DEF PageTypes
<1>4. requests' \in Seq(Request)
  <2>1. Plain("certs") \in Request
    BY RequestTypes DEF Kinds
  <2> QED BY <2>1, WizardTypeFacts, TakenTypes DEF TakeDelete
<1> QED BY <1>2, <1>3, <1>4, WizardTypeParts

LEMMA TakeAnalysisTypes ==
  ASSUME WizardTypeOK, NEW i \in DOMAIN requests, TakeAnalysis(i)
  PROVE  WizardTypeOK'
<1>1. PICK c \in Request : c = requests[i]
  BY WizardTypeFacts
<1>2. PICK w \in Wizard : w = wizard
  BY WizardTypeFacts
<1>3. Rows' /\ Notes' /\ PageTypes' /\ requests' \in Seq(Request)
  BY WizardTypeFacts, TakenTypes DEF TakeAnalysis, TakeStep, WizardTypeOK, Rows, Notes, PageTypes
<1>4. wizard' \in Wizard
  <2>1. w.read \in Photos /\ c.read \in Photos
    BY DEF Wizard, Request
  <2>2. \A k \in Photos : [w EXCEPT !.ready = TRUE, !.read = k] \in Wizard
    BY DEF Wizard
  <2>3. PICK k \in Photos : wizard' = w \/ wizard' = [w EXCEPT !.ready = TRUE, !.read = k]
    BY <1>1, <1>2, <2>1 DEF TakeAnalysis, TakeStep
  <2> QED BY <2>2, <2>3
<1> QED BY <1>3, <1>4, WizardTypeParts

LEMMA TakeDocumentTypes ==
  ASSUME WizardTypeOK, NEW i \in DOMAIN requests, TakeDocument(i)
  PROVE  WizardTypeOK'
<1>1. PICK c \in Request : c = requests[i]
  BY WizardTypeFacts
<1>2. PICK w \in Wizard : w = wizard
  BY WizardTypeFacts
<1>3. Rows' /\ Notes' /\ PageTypes' /\ requests' \in Seq(Request)
  BY WizardTypeFacts, TakenTypes DEF TakeDocument, TakeStep, WizardTypeOK, Rows, Notes, PageTypes
<1>4. wizard' \in Wizard
  <2>1. w.sending \ {c.kind} \in SUBSET Steps /\ w.passed \in SUBSET Papers /\ w.passed \cup {c.kind} \in SUBSET Papers
    BY <1>1 DEF Wizard, TakeDocument
  <2>2. \A s \in SUBSET Steps, q \in SUBSET Papers : [w EXCEPT !.sending = s, !.passed = q] \in Wizard
    BY DEF Wizard
  <2>3. PICK q \in SUBSET Papers : wizard' = w \/ wizard' = [w EXCEPT !.sending = w.sending \ {c.kind}, !.passed = q]
    BY <1>1, <1>2, <2>1 DEF TakeDocument, TakeStep
  <2> QED BY <2>1, <2>2, <2>3
<1> QED BY <1>3, <1>4, WizardTypeParts

LEMMA TakeUploadTypes ==
  ASSUME WizardTypeOK, NEW i \in DOMAIN requests, TakeUpload(i)
  PROVE  WizardTypeOK'
<1>1. Rows' /\ Notes' /\ wizard' \in Wizard /\ requests' \in Seq(Request)
  BY WizardTypeFacts, TakenTypes DEF TakeUpload, WizardTypeOK, Rows, Notes
<1>2. page' = page \/ page' = WithoutCerts(page)
  BY DEF TakeUpload
<1>3. PageTypes'
  BY <1>2, WizardTypeFacts, WithoutCertsTypes DEF PageTypes
<1> QED BY <1>1, <1>3, WizardTypeParts

LEMMA TakeCreateTypes ==
  ASSUME WizardTypeOK, NEW i \in DOMAIN requests, TakeCreate(i)
  PROVE  WizardTypeOK'
<1>1. PICK c \in Request : c = requests[i]
  BY WizardTypeFacts
<1>2. PICK w \in Wizard : w = wizard
  BY WizardTypeFacts
<1>3. Rows' /\ Notes' /\ PageTypes' /\ requests' \in Seq(Request)
  <2>1. Me("created") \in Request
    BY RequestTypes
  <2> QED BY <2>1, WizardTypeFacts, TakenTypes DEF TakeCreate, TakeStep, WizardTypeOK, Rows, Notes, PageTypes
<1>4. wizard' \in Wizard
  <2>1. w.sending \ {"vehicle"} \in SUBSET Steps /\ w.step \in Steps /\ "insurance" \in Steps /\ c.car \in 0..MaxCars
    BY DEF Wizard, Request, Steps
  <2>2. [w EXCEPT !.sending = w.sending \ {"vehicle"}] \in Wizard
    BY <2>1 DEF Wizard
  <2>3. \A s \in Steps : [[w EXCEPT !.sending = w.sending \ {"vehicle"}, !.created = c.car] EXCEPT !.step = s] \in Wizard
    BY <2>1 DEF Wizard
  <2>4. [w EXCEPT !.sending = w.sending \ {"vehicle"}, !.created = c.car].step = w.step
    BY DEF Wizard
  <2>5. \/ wizard' = w \/ wizard' = [w EXCEPT !.sending = w.sending \ {"vehicle"}]
        \/ \E s \in Steps : wizard' = [[w EXCEPT !.sending = w.sending \ {"vehicle"}, !.created = c.car] EXCEPT !.step = s]
    BY <1>1, <1>2, <2>1, <2>4 DEF TakeCreate, TakeStep, Registered
  <2> QED BY <2>2, <2>3, <2>5
<1> QED BY <1>3, <1>4, WizardTypeParts

LEMMA TakeFailureTypes ==
  ASSUME WizardTypeOK, NEW i \in DOMAIN requests, TakeFailure(i)
  PROVE  WizardTypeOK'
<1>1. Rows' /\ Notes' /\ PageTypes' /\ wizard' \in Wizard /\ requests' \in Seq(Request)
  BY WizardTypeFacts, TakenTypes DEF TakeFailure, WizardTypeOK, Rows, Notes, PageTypes
<1> QED BY <1>1, WizardTypeParts

LEMMA WizardTypesInitially == WizardInit => WizardTypeOK
<1> SUFFICES ASSUME NEW n \in 0..1, NEW d \in BOOLEAN, Start(n, d)
             PROVE  WizardTypeOK
  BY DEF WizardInit
<1>1. cars = [c \in 1..n |-> [photo |-> 0, read |-> 0]] /\ n \in Nat /\ n <= MaxCars
  BY Numbers DEF Start
<1>2. [photo |-> 0, read |-> 0] \in [photo : Photos, read : Photos]
  BY Numbers DEF Photos
<1>3. cars \in Seq([photo : Photos, read : Photos]) /\ Len(cars) = n /\ DOMAIN cars = 1..n
  <2>1. PICK z \in [photo : Photos, read : Photos] : z = [photo |-> 0, read |-> 0]
    BY <1>2
  <2>2. cars \in [1..n -> [photo : Photos, read : Photos]]
    BY <1>1, <2>1
  <2>3. PICK S : S = [photo : Photos, read : Photos]
    OBVIOUS
  <2>4. cars \in [1..n -> S] /\ n \in Nat
    BY <1>1, <2>2, <2>3
  <2>5. cars \in Seq(S) /\ Len(cars) = n /\ DOMAIN cars = 1..n
    BY <2>4
  <2> QED BY <2>3, <2>5
<1>4. page = [cars |-> {}, certs |-> NoCerts, has_certs |-> FALSE, driver |-> d, saving |-> FALSE]
  BY DEF Start
<1>5. page \in Page /\ page.certs = NoCerts
  BY <1>4, RequestTypes DEF Page
<1>6. wizard \in Wizard
  BY Numbers DEF Start, Wizard, Photos, Steps
<1>7. requests \in Seq(Request)
  BY LoadsTypes DEF Start
<1>8. docs \in 0..MaxDocs /\ clicks \in 0..MaxClicks /\ garage \subseteq DOMAIN cars /\ driver \in BOOLEAN /\ unsure = {} /\ hasty = {}
  BY <1>3, Numbers DEF Start
<1> QED BY <1>1, <1>3, <1>5, <1>6, <1>7, <1>8 DEF WizardTypeOK

LEMMA WizardTypeSteps ==
  WizardTypeOK /\ [WizardNext]_wizard_vars => WizardTypeOK'
<1> SUFFICES ASSUME WizardTypeOK, [WizardNext]_wizard_vars
             PROVE  WizardTypeOK'
  OBVIOUS
<1>1. CASE UNCHANGED wizard_vars
  BY <1>1 DEF wizard_vars, WizardTypeOK
<1>2. CASE Toggle \/ AddVehicle \/ Close \/ SubmitDocument \/ Upload \/ NextStep \/ Back \/ Pick \/ SubmitCar
           \/ \E car \in CarIds : Delete(car)
  BY <1>2, ToggleTypes, AddVehicleTypes, CloseTypes, SubmitDocumentTypes, UploadTypes, NextStepTypes, BackTypes,
     PickTypes, SubmitCarTypes, DeleteTypes
<1>3. ASSUME NEW i \in DOMAIN requests, Serve(i) \/ Lose(i)
      PROVE  WizardTypeOK'
  BY <1>3, ServeReadTypes, ServeCreateTypes, ServeDocumentTypes, ServeDeleteTypes, ServeModeTypes, LoseTypes DEF Serve
<1>4. ASSUME NEW i \in DOMAIN requests, Take(i)
      PROVE  WizardTypeOK'
  BY <1>4, TakeCarsTypes, TakeCertsTypes, TakeMeTypes, TakeModeTypes, TakeDeleteTypes, TakeAnalysisTypes,
     TakeDocumentTypes, TakeUploadTypes, TakeCreateTypes, TakeFailureTypes DEF Take
<1> QED BY <1>1, <1>2, <1>3, <1>4 DEF WizardNext

\* The rows, the page, the wizard and the requests have their types, for any number of cars,
\* photos and requests.
THEOREM WizardTypeCorrect == WizardSpec => []WizardTypeOK
<1>1. WizardInit => WizardTypeOK
  BY WizardTypesInitially
<1>2. WizardTypeOK /\ [WizardNext]_wizard_vars => WizardTypeOK'
  BY WizardTypeSteps
<1> QED BY <1>1, <1>2, PTL DEF WizardSpec

LEMMA KeepsSame ==
  ASSUME NEW old, NEW new, NEW f, Keeps(old, new, f)
  PROVE  Same(old, new, f)
BY DEF Keeps, Same

LEMMA PhotosStand ==
  ASSUME WizardTypeOK, Photographed, NEW f, NEW gone, NEW fresh,
         Trace(requests, requests', f, gone, fresh), Same(requests, requests', f), OfNoPhoto(gone, fresh)
  PROVE  Photographed'
BY PhotosStill DEF Photographed

\* The wizard as it is, or waiting for more.
WizardWaits ==
  /\ wizard'.open = wizard.open /\ wizard'.shots = wizard.shots /\ wizard'.photo = wizard.photo
  /\ wizard'.read = wizard.read /\ wizard'.ready = wizard.ready /\ wizard'.created = wizard.created
  /\ wizard.sending \subseteq wizard'.sending

LEMMA PhotosIfAsked ==
  ASSUME WizardTypeOK, Photographed, NEW r, r \in Request, Asks(<<r>>),
         r.kind \notin {"create", "analyze"}, r.heard => wizard.open # "no", WizardWaits, UNCHANGED <<cars, hasty>>
  PROVE  Photographed'
<1>1. PICK f : Trace(requests, requests', f, {}, {r}) /\ Same(requests, requests', f)
  BY AskedOne, WizardTypeFacts, KeepsSame
<1>2. OfNoPhoto({}, {r})
  BY DEF OfNoPhoto, WizardWaits, Photographed, StepsHeard, Positions
<1> QED BY <1>1, <1>2, PhotosStand

\* Of a request that is not for a photo, only the answer comes.
LEMMA PhotosIfServed ==
  ASSUME WizardTypeOK, Photographed, NEW i \in DOMAIN requests, NEW c, c \in Request, Reply(i, c),
         c.kind = requests[i].kind, c.heard = requests[i].heard, c.kind \notin {"create", "analyze"},
         UNCHANGED <<cars, wizard>>, hasty \subseteq hasty'
  PROVE  Photographed'
<1>1. PICK f : Trace(requests, requests', f, {}, {}) /\ Answers(requests, requests', f, i, c)
  BY Replied, WizardTypeFacts
<1>2. Same(requests, requests', f)
  BY <1>1 DEF Same, Answers
<1>3. OfNoPhoto({}, {})
  BY DEF OfNoPhoto, Photographed, StepsHeard, Positions
<1> QED BY <1>1, <1>2, <1>3, PhotosStand

\* An answer that no photo waits for.
LEMMA PhotosIfTaken ==
  ASSUME WizardTypeOK, Photographed, NEW i \in DOMAIN requests, NEW f, NEW fresh,
         Trace(requests, requests', f, {i}, fresh), Keeps(requests, requests', f),
         \A c \in fresh : c.kind \notin {"create", "analyze"} /\ ~c.heard,
         requests[i].kind # "create", 
         wizard'.open = wizard.open, wizard'.shots = wizard.shots, wizard'.photo = wizard.photo,
         wizard'.read = wizard.read, wizard'.ready = wizard.ready, wizard'.created = wizard.created,
         "vehicle" \in wizard.sending => "vehicle" \in wizard'.sending,
         cars' = cars, hasty \subseteq hasty'
  PROVE  Photographed'
<1>1. Same(requests, requests', f)
  BY KeepsSame
<1>2. OfNoPhoto({i}, fresh)
  BY DEF OfNoPhoto, Photographed, StepsHeard, Positions
<1> QED BY <1>1, <1>2, PhotosStand

LEMMA NotForPhotos ==
  /\ \A kind \in Kinds \ {"create", "analyze"} :
       Plain(kind) \in Request /\ Plain(kind).kind \notin {"create", "analyze"} /\ ~Plain(kind).heard
  /\ \A then \in {"", "created", "finish", "page"} :
       Me(then) \in Request /\ Me(then).kind \notin {"create", "analyze"} /\ ~Me(then).heard
  /\ \A p : \A c \in Under(Loads(p)) : c.kind \notin {"create", "analyze"} /\ ~c.heard
<1>1. \A kind \in Kinds \ {"create", "analyze"} :
       Plain(kind) \in Request /\ Plain(kind).kind \notin {"create", "analyze"} /\ ~Plain(kind).heard
  BY RequestTypes
<1>2. \A then \in {"", "created", "finish", "page"} :
       Me(then) \in Request /\ Me(then).kind \notin {"create", "analyze"} /\ ~Me(then).heard
  BY RequestTypes
<1>3. \A p : \A c \in Under(Loads(p)) : c.kind \notin {"create", "analyze"} /\ ~c.heard
  BY LoadsTypes
<1> QED BY <1>1, <1>2, <1>3

\* A dialog is opened.
LEMMA PhotosIfOpened ==
  ASSUME WizardTypeOK, Photographed, wizard.open = "no", NEW open, wizard' = Dialog(open), UNCHANGED <<cars, requests, hasty>>
  PROVE  Photographed'
<1> DEFINE f == [k \in DOMAIN requests |-> k]
<1>1. requests \in Seq(Request) /\ DOMAIN requests = 1..Len(requests) /\ Len(requests) \in Nat
  BY DEF WizardTypeOK
<1>2. f \in [DOMAIN requests -> Nat] /\ \A k \in DOMAIN requests : f[k] = k
  BY <1>1
<1> HIDE DEF f
<1>3. Trace(requests, requests', f, {}, {})
  BY <1>1, <1>2 DEF Trace
<1>4. \A k \in DOMAIN requests : ~requests[k].heard /\ requests[k].kind # "analyze"
  BY DEF Photographed, StepsHeard
<1>5. Deaf(requests, requests', f)
  BY <1>2, <1>4 DEF Deaf
<1>6. StepsHeard' /\ PhotosOnce' /\ PlatesRead'
  BY <1>3, <1>4, <1>5, DialogStill DEF Photographed
<1> QED BY <1>6 DEF Photographed

\* And closed.
LEMMA SilencesDeaf ==
  ASSUME requests \in Seq(Request), NEW new, NEW f, NEW gone, NEW fresh, Trace(requests, new, f, gone, fresh), Silences(requests, new, f)
  PROVE  Deaf(requests, new, f)
<1>1. \A r \in Request : LET q == [r EXCEPT !.heard = FALSE] IN
        ~q.heard /\ q.kind = r.kind /\ q.photo = r.photo /\ q.read = r.read /\ q.answer = r.answer /\ q.car = r.car
  BY DEF Request
<1>2. \A k \in DOMAIN new : f[k] # 0 => requests[f[k]] \in Request
  BY DEF Trace
<1> QED BY <1>1, <1>2 DEF Deaf, Silences
LEMMA PhotosIfClosed ==
  ASSUME WizardTypeOK, Photographed, NEW f, NEW gone, NEW fresh, DOMAIN requests \ Kept(requests) \subseteq gone,
         Trace(requests, requests', f, gone, fresh), Silences(requests, requests', f),
         \A c \in fresh : c.kind \notin {"create", "analyze"} /\ ~c.heard,
         wizard' = Dialog("no"), UNCHANGED <<cars, hasty>>
  PROVE  Photographed'
<1>1. Deaf(requests, requests', f)
  BY SilencesDeaf, WizardTypeFacts
<1>2. \A i \in DOMAIN requests \ gone : requests[i].kind # "analyze"
  BY DEF Kept
<1>3. StepsHeard' /\ PhotosOnce' /\ PlatesRead'
  BY <1>1, <1>2, DialogStill DEF Photographed
<1> QED BY <1>3 DEF Photographed

LEMMA TogglePhotos ==
  ASSUME WizardTypeOK, Photographed, Toggle
  PROVE  Photographed'
<1>1. CASE ~page.driver /\ page.cars = {}
  BY <1>1, PhotosIfOpened DEF Toggle
<1>2. CASE ~(~page.driver /\ page.cars = {})
  <2>1. PICK c \in Request : c = Plain("mode") /\ c.kind = "mode" /\ ~c.heard
    BY RequestTypes DEF Kinds
  <2>2. PICK d \in BOOLEAN : d = page.driver
    BY WizardTypeFacts DEF Page
  <2> DEFINE r == [c EXCEPT !.flag = ~d]
  <2>3. r \in Request /\ r.kind = "mode" /\ ~r.heard
    BY <2>1 DEF Request
  <2>4. Asks(<<r>>)
    BY <1>2, <2>1, <2>2 DEF Toggle
  <2> HIDE DEF r
  <2>5. WizardWaits
    BY <1>2 DEF Toggle, WizardWaits
  <2> QED BY <1>2, <2>3, <2>4, <2>5, PhotosIfAsked DEF Toggle
<1> QED BY <1>1, <1>2

LEMMA AddVehiclePhotos ==
  ASSUME WizardTypeOK, Photographed, AddVehicle
  PROVE  Photographed'
BY PhotosIfOpened DEF AddVehicle

LEMMA ClosePhotos ==
  ASSUME WizardTypeOK, Photographed, Close
  PROVE  Photographed'
<1>1. << >> \in Seq(Request) /\ Under(<< >>) = {}
  BY DEF Under
<1>2. PICK f : Trace(requests, requests', f, DOMAIN requests \ Kept(requests), {}) /\ Silences(requests, requests', f)
  BY <1>1, ClosedWith, WizardTypeFacts DEF Close
<1> QED BY <1>2, PhotosIfClosed DEF Close

LEMMA SubmitDocumentPhotos ==
  ASSUME WizardTypeOK, Photographed, SubmitDocument
  PROVE  Photographed'
<1>1. PICK w \in Wizard : w = wizard
  BY WizardTypeFacts
<1>2. w.step \in Papers
  BY <1>1 DEF SubmitDocument
<1>3. PICK c \in Request : c = Plain(w.step) /\ c.kind = w.step
  BY <1>2, RequestTypes DEF Kinds
<1> DEFINE r == [c EXCEPT !.heard = TRUE]
<1>4. r \in Request /\ r.kind = w.step
  BY <1>3 DEF Request
<1>5. Asks(<<r>>) /\ wizard.open # "no" /\ UNCHANGED <<cars, hasty>>
  BY <1>1, <1>3 DEF SubmitDocument
<1> HIDE DEF r
<1>6. WizardWaits
  <2>1. wizard' = [w EXCEPT !.sending = w.sending \cup {w.step}]
    BY <1>1 DEF SubmitDocument
  <2> QED BY <1>1, <2>1 DEF WizardWaits, Wizard
<1> QED BY <1>2, <1>4, <1>5, <1>6, PhotosIfAsked DEF Papers

LEMMA UploadPhotos ==
  ASSUME WizardTypeOK, Photographed, Upload
  PROVE  Photographed'
<1>1. "upload" \in Kinds \ {"create", "analyze"}
  BY DEF Kinds
<1>2. WizardWaits
  BY DEF Upload, WizardWaits
<1> QED BY <1>1, <1>2, NotForPhotos, PhotosIfAsked DEF Upload

\* The requests are as they were.
LEMMA PhotosIfIdle ==
  ASSUME WizardTypeOK, Photographed, WizardWaits, UNCHANGED <<cars, requests, hasty>>
  PROVE  Photographed'
<1> DEFINE f == [k \in DOMAIN requests |-> k]
<1>1. requests \in Seq(Request) /\ DOMAIN requests = 1..Len(requests) /\ Len(requests) \in Nat
  BY DEF WizardTypeOK
<1>2. f \in [DOMAIN requests -> Nat] /\ \A k \in DOMAIN requests : f[k] = k
  BY <1>1
<1> HIDE DEF f
<1>3. Trace(requests, requests', f, {}, {})
  BY <1>1, <1>2 DEF Trace
<1>4. Same(requests, requests', f)
  BY <1>2 DEF Same
<1>5. OfNoPhoto({}, {})
  BY DEF OfNoPhoto, WizardWaits, Photographed, StepsHeard, Positions
<1> QED BY <1>3, <1>4, <1>5, PhotosStand

LEMMA NextStepPhotos ==
  ASSUME WizardTypeOK, Photographed, NextStep
  PROVE  Photographed'
<1>1. PICK w \in Wizard : w = wizard
  BY WizardTypeFacts
<1>2. cars' = cars /\ hasty' = hasty
  BY DEF NextStep
<1>3. CASE wizard' = [wizard EXCEPT !.step = "vehicle"] /\ requests' = requests
  <2>1. WizardWaits
    BY <1>1, <1>3 DEF WizardWaits, Wizard
  <2> QED BY <1>2, <1>3, <2>1, PhotosIfIdle
<1>4. CASE Asks(<<Me("finish")>>) /\ wizard' = wizard
  <2>1. WizardWaits
    BY <1>4 DEF WizardWaits
  <2> QED BY <1>2, <1>4, <2>1, PhotosIfAsked, NotForPhotos
<1>5. CASE Closing(requests, <<Me("page")>>) /\ wizard' = Dialog("no")
  <2>1. PICK f : Trace(requests, requests', f, DOMAIN requests \ Kept(requests), {Me("page")}) /\ Silences(requests, requests', f)
    BY <1>5, ClosedWith, WizardTypeFacts, PageAsked, OneUnder
  <2> QED BY <1>2, <1>5, <2>1, PhotosIfClosed, NotForPhotos
<1> QED BY <1>3, <1>4, <1>5 DEF NextStep

LEMMA BackPhotos ==
  ASSUME WizardTypeOK, Photographed, Back
  PROVE  Photographed'
<1>1. PICK w \in Wizard : w = wizard
  BY WizardTypeFacts
<1>2. WizardWaits
  BY <1>1 DEF Back, WizardWaits, Wizard
<1> QED BY <1>2, PhotosIfIdle DEF Back

LEMMA DeletePhotos ==
  ASSUME WizardTypeOK, Photographed, NEW car \in CarIds, Delete(car)
  PROVE  Photographed'
<1>1. PICK c \in Request : c = Plain("delete") /\ c.kind = "delete" /\ ~c.heard
  BY RequestTypes DEF Kinds
<1> DEFINE r == [c EXCEPT !.car = car]
<1>2. r \in Request /\ r.kind = "delete" /\ ~r.heard
  <2>1. car \in 0..MaxCars
    BY Numbers DEF CarIds
  <2> QED BY <1>1, <2>1 DEF Request
<1>3. Asks(<<r>>)
  BY <1>1 DEF Delete
<1> HIDE DEF r
<1>4. WizardWaits
  BY DEF Delete, WizardWaits
<1> QED BY <1>2, <1>3, <1>4, PhotosIfAsked DEF Delete

\* In the words of each step.
LEMMA TraceFacts ==
  ASSUME WizardTypeOK, NEW new, NEW f, NEW gone, NEW fresh, Trace(requests, new, f, gone, fresh)
  PROVE  /\ DOMAIN requests \subseteq Nat \ {0}
         /\ \A k \in DOMAIN new : (f[k] = 0 /\ new[k] \in fresh) \/ (f[k] # 0 /\ f[k] \in DOMAIN requests \ gone)
         /\ \A k, m \in DOMAIN new : f[k] = f[m] => k = m \/ f[k] = 0
         /\ \A i \in DOMAIN requests \ gone : \E k \in DOMAIN new : f[k] = i /\ f[k] # 0
<1>1. DOMAIN requests \subseteq Nat \ {0}
  BY DEF WizardTypeOK
<1> QED BY <1>1 DEF Trace

LEMMA AskedBehind ==
  ASSUME requests \in Seq(Request), NEW r, r \in Request, Asks(<<r>>)
  PROVE  /\ DOMAIN requests' = DOMAIN requests \cup {Len(requests) + 1} /\ Len(requests) + 1 \notin DOMAIN requests
         /\ requests'[Len(requests) + 1] = r /\ \A k \in DOMAIN requests : requests'[k] = requests[k]
<1>1. requests' = requests \o <<r>>
  BY DEF Asks
<1>2. DOMAIN requests = 1..Len(requests) /\ Len(requests) \in Nat
  OBVIOUS
<1> QED BY <1>1, <1>2, OneBehind

LEMMA PhotoNumbers ==
  ASSUME WizardTypeOK
  PROVE  /\ \A a \in DOMAIN cars : cars[a].photo \in Nat
         /\ \A i \in DOMAIN requests : requests[i].photo \in Nat
<1>1. \A k \in Photos : k \in Nat
  BY Numbers DEF Photos
<1>2. cars \in Seq([photo : Photos, read : Photos])
  BY DEF WizardTypeOK
<1> DEFINE Row == [photo : Photos, read : Photos]
<1>3. \A a \in DOMAIN cars : cars[a] \in Row
  <2>1. cars \in Seq(Row)
    BY <1>2
  <2> HIDE DEF Row
  <2> QED BY <2>1
<1>4. \A r \in Request : r.photo \in Photos
  BY DEF Request
<1> QED BY <1>1, <1>3, <1>4, WizardTypeFacts

LEMMA PickPhotos ==
  ASSUME WizardTypeOK, Photographed, Pick
  PROVE  Photographed'
<1>1. PICK w \in Wizard : w = wizard
  BY WizardTypeFacts
<1>2. PICK c \in Request : c = Plain("analyze") /\ c.kind = "analyze" /\ c.read = 0
  BY RequestTypes DEF Kinds, Plain, Blank
<1>3. w.shots \in Nat /\ w.shots + 1 \in Photos /\ w.photo \in Nat
  BY <1>1, Numbers DEF Pick, Photos, Wizard
<1> DEFINE r == [c EXCEPT !.heard = TRUE, !.photo = w.shots + 1]
<1>4. r \in Request /\ r.kind = "analyze" /\ r.photo = w.shots + 1 /\ r.read = 0
  BY <1>2, <1>3 DEF Request
<1>5. PICK n : /\ DOMAIN requests' = DOMAIN requests \cup {n} /\ n \notin DOMAIN requests
               /\ requests'[n] = r /\ \A k \in DOMAIN requests : requests'[k] = requests[k]
  <2>1. Asks(<<r>>)
    BY <1>1, <1>2 DEF Pick
  <2> HIDE DEF r
  <2> QED BY <1>4, <2>1, AskedBehind, WizardTypeFacts
<1> HIDE DEF r
<1>6. \A k \in DOMAIN requests' : requests'[k].kind # "analyze" => k \in DOMAIN requests /\ requests'[k] = requests[k]
  BY <1>4, <1>5
<1>7. /\ wizard'.open = wizard.open /\ wizard.open # "no" /\ wizard'.shots = w.shots + 1 /\ wizard'.photo = w.shots + 1
      /\ wizard'.ready = FALSE /\ "vehicle" \notin wizard.sending /\ wizard'.sending = wizard.sending
  <2>1. wizard' = [w EXCEPT !.shots = w.shots + 1, !.photo = w.shots + 1, !.ready = FALSE]
    BY <1>1 DEF Pick
  <2> QED BY <1>1, <2>1 DEF Wizard, Pick
<1>8. cars' = cars /\ \A a \in DOMAIN cars : cars[a].photo \in Nat /\ cars[a].photo < w.shots + 1
  <2>1. \A a \in DOMAIN cars : cars[a].photo \in Nat
    BY PhotoNumbers
  <2> QED BY <1>1, <1>3, <2>1 DEF Pick, Photographed, StepsHeard
<1>9. \A i \in DOMAIN requests : requests[i].kind = "create" =>
        requests[i].photo \in Nat /\ requests[i].photo < w.shots + 1 /\ ~requests[i].heard
  <2>1. \A i \in DOMAIN requests : requests[i].photo \in Nat
    BY PhotoNumbers
  <2> QED BY <1>1, <1>3, <1>7, <2>1 DEF Photographed, StepsHeard, Positions
<1>10. StepsHeard'
  <2>1. \A k \in DOMAIN requests' : requests'[k].kind = "create" =>
          /\ requests'[k].photo <= w.shots + 1 /\ (requests'[k].answer = "ok" => requests'[k].car # 0)
          /\ ~requests'[k].heard
    BY <1>3, <1>6, <1>9 DEF Photographed, StepsHeard, Positions
  <2>2. \A a \in DOMAIN cars' : cars'[a].photo <= w.shots + 1
    BY <1>3, <1>8
  <2> QED BY <1>3, <1>7, <2>1, <2>2 DEF StepsHeard, Positions
<1>11. PhotosOnce'
  <2>1. hasty \subseteq hasty'
    BY DEF Pick
  <2>2. \A k \in DOMAIN requests' : Sent(k)' => /\ k \in DOMAIN requests /\ Sent(k)
                                                /\ requests'[k] = requests[k] /\ requests'[k].photo < w.shots + 1
    BY <1>6, <1>9 DEF Sent, Positions
  <2>3. ~Spent(wizard.photo)'
    BY <1>7, <1>8, <1>3, <2>2 DEF Spent
  <2> QED BY <1>8, <2>1, <2>2, <2>3 DEF PhotosOnce, Photographed
<1>12. PlatesRead'
  <2> SUFFICES ASSUME hasty' \cap {"photo", "unread"} = {}
               PROVE  /\ \A a \in DOMAIN cars' : cars'[a].read \in {0, cars'[a].photo}
                      /\ \A i \in Positions("create")' : requests'[i].read \in {0, requests'[i].photo}
                      /\ \A i \in Positions("analyze")' :
                           /\ requests'[i].photo = wizard'.photo /\ requests'[i].read \in {0, requests'[i].photo}
                           /\ \A j \in Positions("analyze")' : i = j
    BY <1>7 DEF PlatesRead
  <2>1. hasty \cap {"photo", "unread"} = {} /\ ~Waiting("analyze")
    BY DEF Pick
  <2>2. \A k \in Positions("analyze")' : k = n
    BY <1>5, <2>1 DEF Waiting, Positions
  <2>3. \A k \in Positions("create")' : k \in Positions("create") /\ requests'[k] = requests[k]
    BY <1>6 DEF Positions
  <2> QED BY <1>4, <1>5, <1>7, <1>8, <2>1, <2>2, <2>3 DEF Photographed, PlatesRead
<1> QED BY <1>10, <1>11, <1>12 DEF Photographed

LEMMA SubmitCarPhotos ==
  ASSUME WizardTypeOK, Photographed, SubmitCar
  PROVE  Photographed'
<1>1. PICK w \in Wizard : w = wizard
  BY WizardTypeFacts
<1>2. PICK c \in Request : c = Plain("create") /\ c.kind = "create" /\ c.answer = "none"
  BY RequestTypes DEF Kinds
<1> DEFINE r == [c EXCEPT !.heard = TRUE, !.photo = w.photo, !.read = w.read]
<1>3. r \in Request /\ r.kind = "create" /\ r.photo = w.photo /\ r.read = w.read /\ r.answer = "none" /\ r.heard
  <2>1. w.photo \in Photos /\ w.read \in Photos
    BY DEF Wizard
  <2> QED BY <1>2, <2>1 DEF Request
<1>4. PICK n : /\ DOMAIN requests' = DOMAIN requests \cup {n} /\ n \notin DOMAIN requests
               /\ requests'[n] = r /\ \A k \in DOMAIN requests : requests'[k] = requests[k]
  <2>1. Asks(<<r>>)
    BY <1>1, <1>2 DEF SubmitCar
  <2> HIDE DEF r
  <2> QED BY <1>3, <2>1, AskedBehind, WizardTypeFacts
<1> HIDE DEF r
<1>5. /\ wizard'.open = w.open /\ w.open # "no" /\ wizard'.shots = w.shots /\ wizard'.photo = w.photo
      /\ wizard'.ready = w.ready /\ wizard'.read = w.read /\ wizard'.created = w.created
      /\ "vehicle" \notin w.sending /\ "vehicle" \in wizard'.sending /\ w.ready
  <2>1. wizard' = [w EXCEPT !.sending = w.sending \cup {"vehicle"}]
    BY <1>1 DEF SubmitCar
  <2>2. w.open # "no" /\ "vehicle" \notin w.sending /\ w.ready
    BY <1>1 DEF SubmitCar, CanSubmit
  <2> QED BY <2>1, <2>2 DEF Wizard
<1>6. cars' = cars /\ hasty \subseteq hasty' /\ (w.created # 0 => "submit" \in hasty')
  BY <1>1 DEF SubmitCar
<1>7. \A i \in DOMAIN requests : requests[i].kind = "create" => ~requests[i].heard
  BY <1>1, <1>5 DEF Photographed, StepsHeard, Positions
<1>8. StepsHeard'
  <2>1. w.photo <= w.shots /\ \A a \in DOMAIN cars' : cars'[a].photo <= w.shots
    BY <1>1, <1>6 DEF Photographed, StepsHeard
  <2>2. \A k \in DOMAIN requests' : requests'[k].kind = "create" =>
          /\ requests'[k].photo <= w.shots /\ (requests'[k].answer = "ok" => requests'[k].car # 0)
          /\ requests'[k].heard => k = n /\ requests'[k].photo = w.photo
    BY <1>1, <1>3, <1>4, <1>7, <2>1 DEF Photographed, StepsHeard, Positions
  <2> QED BY <1>5, <2>1, <2>2 DEF StepsHeard, Positions
<1>9. PhotosOnce'
  <2> SUFFICES ASSUME hasty' \cap {"submit", "lost"} = {}
               PROVE  /\ \A a, b \in DOMAIN cars' : cars'[a].photo = cars'[b].photo => a = b \/ cars'[a].photo = 0
                      /\ \A i, j \in DOMAIN requests' : Sent(i)' /\ Sent(j)' /\ requests'[i].photo = requests'[j].photo =>
                           i = j \/ requests'[i].photo = 0
                      /\ \A i \in DOMAIN requests', a \in DOMAIN cars' :
                           Sent(i)' /\ requests'[i].photo = cars'[a].photo => cars'[a].photo = 0
                      /\ \E i \in Positions("create")' : requests'[i].heard /\ requests'[i].answer # "failed"
    BY DEF PhotosOnce
  <2>1. hasty \cap {"submit", "lost"} = {} /\ w.created = 0
    BY <1>6
  <2>2. w.photo = 0 \/ ~Spent(w.photo)
    BY <1>1, <1>7, <2>1 DEF Photographed, PhotosOnce, Positions
  <2>3. \A k \in DOMAIN requests' : Sent(k)' => k = n \/ (k \in DOMAIN requests /\ Sent(k) /\ requests'[k] = requests[k])
    BY <1>4 DEF Sent, Positions
  <2>4. \A i \in DOMAIN requests : Sent(i) /\ requests[i].photo = w.photo => w.photo = 0
    BY <2>2 DEF Spent
  <2>5. \A a \in DOMAIN cars : cars[a].photo = w.photo => w.photo = 0
    BY <2>2 DEF Spent
  <2>6. \A i, j \in DOMAIN requests' : Sent(i)' /\ Sent(j)' /\ requests'[i].photo = requests'[j].photo =>
          i = j \/ requests'[i].photo = 0
    BY <1>3, <1>4, <2>1, <2>3, <2>4 DEF Photographed, PhotosOnce
  <2>7. \A i \in DOMAIN requests', a \in DOMAIN cars' : Sent(i)' /\ requests'[i].photo = cars'[a].photo => cars'[a].photo = 0
    BY <1>3, <1>4, <1>6, <2>1, <2>3, <2>5 DEF Photographed, PhotosOnce
  <2>8. n \in Positions("create")' /\ requests'[n].heard /\ requests'[n].answer # "failed"
    BY <1>3, <1>4 DEF Positions
  <2> QED BY <1>6, <2>1, <2>6, <2>7, <2>8 DEF Photographed, PhotosOnce
<1>10. PlatesRead'
  <2> SUFFICES ASSUME hasty' \cap {"photo", "unread"} = {}
               PROVE  /\ \A a \in DOMAIN cars' : cars'[a].read \in {0, cars'[a].photo}
                      /\ \A i \in Positions("create")' : requests'[i].read \in {0, requests'[i].photo}
                      /\ wizard'.ready => wizard'.read \in {0, wizard'.photo}
                      /\ \A i \in Positions("analyze")' :
                           /\ requests'[i].photo = wizard'.photo /\ requests'[i].read \in {0, requests'[i].photo}
                           /\ \A j \in Positions("analyze")' : i = j
    BY DEF PlatesRead
  <2>1. hasty \cap {"photo", "unread"} = {}
    BY <1>6
  <2>2. \A k \in Positions("analyze")' : k \in Positions("analyze") /\ requests'[k] = requests[k]
    BY <1>3, <1>4 DEF Positions
  <2>3. \A k \in Positions("create")' : k = n \/ (k \in Positions("create") /\ requests'[k] = requests[k])
    BY <1>4 DEF Positions
  <2>4. w.read \in {0, w.photo} /\ \A a \in DOMAIN cars' : cars'[a].read \in {0, cars'[a].photo}
    BY <1>1, <1>5, <1>6, <2>1 DEF Photographed, PlatesRead
  <2>5. \A i \in Positions("create")' : requests'[i].read \in {0, requests'[i].photo}
    BY <1>3, <1>4, <2>1, <2>3, <2>4 DEF Photographed, PlatesRead
  <2>6. \A i \in Positions("analyze")' :
          /\ requests'[i].photo = wizard'.photo /\ requests'[i].read \in {0, requests'[i].photo}
          /\ \A j \in Positions("analyze")' : i = j
    BY <1>1, <1>5, <2>1, <2>2 DEF Photographed, PlatesRead
  <2> QED BY <1>5, <2>4, <2>5, <2>6
<1> QED BY <1>8, <1>9, <1>10 DEF Photographed

LEMMA RepliedAt ==
  ASSUME requests \in Seq(Request), NEW i \in DOMAIN requests, NEW c, Reply(i, c)
  PROVE  /\ DOMAIN requests' = DOMAIN requests /\ requests'[i] = c
         /\ \A k \in DOMAIN requests \ {i} : requests'[k] = requests[k]
BY DEF Reply

\* An analysis that is answered, or whose answer is lost.
LEMMA PhotosIfRead ==
  ASSUME WizardTypeOK, Photographed, NEW i \in DOMAIN requests, NEW c, Reply(i, c),
         requests[i].kind = "analyze", c.kind = "analyze", c.photo = requests[i].photo, c.heard = requests[i].heard,
         c.read \in {requests[i].read, requests[i].photo},
         UNCHANGED <<cars, wizard>>, hasty \subseteq hasty'
  PROVE  Photographed'
<1>1. /\ DOMAIN requests' = DOMAIN requests /\ requests'[i] = c
      /\ \A k \in DOMAIN requests \ {i} : requests'[k] = requests[k]
  BY RepliedAt, WizardTypeFacts
<1>2. Positions("create")' = Positions("create") /\ Positions("analyze")' = Positions("analyze")
  BY <1>1 DEF Positions
<1>3. \A k \in Positions("create") : requests'[k] = requests[k]
  BY <1>1 DEF Positions
<1>4. StepsHeard'
  BY <1>1, <1>2, <1>3 DEF Photographed, StepsHeard
<1>5. \A k \in DOMAIN requests' : Sent(k)' => Sent(k) /\ requests'[k] = requests[k]
  BY <1>2, <1>3 DEF Sent
<1>6. PhotosOnce'
  <2>1. Spent(wizard.photo)' => Spent(wizard.photo)
    BY <1>1, <1>5 DEF Spent
  <2> QED BY <1>1, <1>2, <1>3, <1>5, <2>1 DEF Photographed, PhotosOnce
<1>7. PlatesRead'
  <2>1. \A k \in Positions("analyze") : requests'[k] = IF k = i THEN c ELSE requests[k]
    BY <1>1 DEF Positions
  <2> QED BY <1>2, <1>3, <2>1 DEF Photographed, PlatesRead
<1> QED BY <1>4, <1>6, <1>7 DEF Photographed

LEMMA ServeReadPhotos ==
  ASSUME WizardTypeOK, Photographed, NEW i \in DOMAIN requests, ServeRead(i)
  PROVE  Photographed'
<1>1. PICK c \in Request : c = requests[i]
  BY WizardTypeFacts
<1>2. UNCHANGED <<cars, wizard, hasty>>
  BY DEF ServeRead
<1>3. CASE c.kind \in {"cars", "certs"} /\ Reply(i, [c EXCEPT !.answer = "ok", !.certs = CertsNow])
  <2> DEFINE r == [c EXCEPT !.answer = "ok", !.certs = CertsNow]
  <2>1. r \in Request /\ r.kind = c.kind /\ r.heard = c.heard
    <3>1. CertsNow \in Certs
      BY WizardTypeFacts
    <3> QED BY <3>1 DEF Request
  <2> HIDE DEF r
  <2>2. Reply(i, r)
    BY <1>3 DEF r
  <2>3. hasty \subseteq hasty' /\ c.kind \notin {"create", "analyze"}
    BY <1>2, <1>3
  <2> QED BY <1>1, <1>2, <2>1, <2>2, <2>3, PhotosIfServed
<1>4. CASE c.kind = "me" /\ Reply(i, [c EXCEPT !.answer = "ok", !.flag = driver])
  <2> DEFINE r == [c EXCEPT !.answer = "ok", !.flag = driver]
  <2>1. r \in Request /\ r.kind = c.kind /\ r.heard = c.heard
    <3>1. driver \in BOOLEAN
      BY DEF WizardTypeOK
    <3> QED BY <3>1 DEF Request
  <2> HIDE DEF r
  <2>2. Reply(i, r)
    BY <1>4 DEF r
  <2>3. hasty \subseteq hasty' /\ c.kind \notin {"create", "analyze"}
    BY <1>2, <1>4
  <2> QED BY <1>1, <1>2, <2>1, <2>2, <2>3, PhotosIfServed
<1>5. CASE c.kind = "analyze" /\ Reply(i, [c EXCEPT !.answer = "ok", !.read = c.photo])
  <2> DEFINE r == [c EXCEPT !.answer = "ok", !.read = c.photo]
  <2>1. r.kind = c.kind /\ r.heard = c.heard /\ r.photo = c.photo /\ r.read \in {c.read, c.photo}
    BY DEF Request
  <2> HIDE DEF r
  <2>2. Reply(i, r)
    BY <1>5 DEF r
  <2> QED BY <1>1, <1>2, <1>5, <2>1, <2>2, PhotosIfRead
<1>6. CASE c.kind = "analyze" /\ Reply(i, [c EXCEPT !.answer = "ok"])
  <2> DEFINE r == [c EXCEPT !.answer = "ok"]
  <2>1. r.kind = c.kind /\ r.heard = c.heard /\ r.photo = c.photo /\ r.read \in {c.read, c.photo}
    BY DEF Request
  <2> HIDE DEF r
  <2>2. Reply(i, r)
    BY <1>6 DEF r
  <2> QED BY <1>1, <1>2, <1>6, <2>1, <2>2, PhotosIfRead
<1> QED BY <1>1, <1>3, <1>4, <1>5, <1>6 DEF ServeRead

LEMMA ServeDocumentPhotos ==
  ASSUME WizardTypeOK, Photographed, NEW i \in DOMAIN requests, ServeDocument(i)
  PROVE  Photographed'
<1>1. PICK c \in Request : c = requests[i]
  BY WizardTypeFacts
<1>2. PICK ok \in BOOLEAN : Reply(i, [c EXCEPT !.answer = "ok", !.flag = ok])
  BY <1>1 DEF ServeDocument
<1> DEFINE r == [c EXCEPT !.answer = "ok", !.flag = ok]
<1>3. r \in Request /\ r.kind = c.kind /\ r.heard = c.heard
  BY DEF Request
<1> HIDE DEF r
<1>4. Reply(i, r)
  BY <1>2 DEF r
<1>5. UNCHANGED <<cars, wizard>> /\ hasty \subseteq hasty' /\ c.kind \notin {"create", "analyze"}
  BY <1>1 DEF ServeDocument, Papers
<1> QED BY <1>1, <1>3, <1>4, <1>5, PhotosIfServed

LEMMA PhotosIfAnswered ==
  ASSUME WizardTypeOK, Photographed, NEW i \in DOMAIN requests, NEW answer \in {"ok", "failed"},
         Reply(i, [requests[i] EXCEPT !.answer = answer]), requests[i].kind \notin {"create", "analyze"},
         UNCHANGED <<cars, wizard>>, hasty \subseteq hasty'
  PROVE  Photographed'
<1>1. PICK c \in Request : c = requests[i]
  BY WizardTypeFacts
<1> DEFINE r == [c EXCEPT !.answer = answer]
<1>2. r \in Request /\ r.kind = c.kind /\ r.heard = c.heard
  BY DEF Request
<1>3. Reply(i, r)
  BY <1>1
<1> HIDE DEF r
<1> QED BY <1>1, <1>2, <1>3, PhotosIfServed

LEMMA ServeDeletePhotos ==
  ASSUME WizardTypeOK, Photographed, NEW i \in DOMAIN requests, ServeDelete(i)
  PROVE  Photographed'
<1>1. PICK answer \in {"ok", "failed"} : Reply(i, [requests[i] EXCEPT !.answer = answer])
  BY DEF ServeDelete
<1>2. requests[i].kind \notin {"create", "analyze"} /\ UNCHANGED <<cars, wizard>> /\ hasty \subseteq hasty'
  BY DEF ServeDelete
<1> QED BY <1>1, <1>2, PhotosIfAnswered
LEMMA ServeModePhotos ==
  ASSUME WizardTypeOK, Photographed, NEW i \in DOMAIN requests, ServeMode(i)
  PROVE  Photographed'
<1>1. PICK answer \in {"ok", "failed"} : Reply(i, [requests[i] EXCEPT !.answer = answer])
  BY DEF ServeMode
<1>2. requests[i].kind \notin {"create", "analyze"} /\ UNCHANGED <<cars, wizard>> /\ hasty \subseteq hasty'
  BY DEF ServeMode
<1> QED BY <1>1, <1>2, PhotosIfAnswered

\* The car is registered: its photo was sent, so no other car has it.
LEMMA ServeCreatePhotos ==
  ASSUME WizardTypeOK, Photographed, NEW i \in DOMAIN requests, ServeCreate(i)
  PROVE  Photographed'
<1>1. PICK c \in Request : c = requests[i]
  BY WizardTypeFacts
<1> DEFINE n == Len(cars) + 1
           r == [c EXCEPT !.answer = "ok", !.car = Len(cars'), !.flag = ~driver]
<1>2. cars \in Seq([photo : Photos, read : Photos]) /\ [photo |-> c.photo, read |-> c.read] \in [photo : Photos, read : Photos]
  BY DEF WizardTypeOK, Request
<1>3. /\ DOMAIN cars' = DOMAIN cars \cup {n} /\ n \notin DOMAIN cars /\ n # 0 /\ Len(cars') = n
      /\ cars'[n] = [photo |-> c.photo, read |-> c.read]
      /\ \A a \in DOMAIN cars : cars'[a] = cars[a]
  <2>1. cars' = Append(cars, [photo |-> c.photo, read |-> c.read])
    BY <1>1 DEF ServeCreate
  <2>2. DOMAIN cars = 1..Len(cars) /\ Len(cars) \in Nat
    BY <1>2
  <2> QED BY <1>2, <2>1, <2>2, OneAppended
<1>4. cars'[n].photo = c.photo /\ cars'[n].read = c.read
  BY <1>3
<1> HIDE DEF n
<1>5. Sent(i) /\ c.kind = "create"
  BY <1>1 DEF ServeCreate, Sent, Positions
<1>6. /\ DOMAIN requests' = DOMAIN requests /\ requests'[i] = r
      /\ \A k \in DOMAIN requests \ {i} : requests'[k] = requests[k]
  <2>1. Reply(i, r)
    BY <1>1 DEF ServeCreate
  <2> QED BY <2>1, RepliedAt, WizardTypeFacts
<1>7. r.kind = "create" /\ r.heard = c.heard /\ r.photo = c.photo /\ r.read = c.read /\ r.answer = "ok" /\ r.car = n
  BY <1>3, <1>5 DEF Request
<1> HIDE DEF r
<1>8. Positions("create")' = Positions("create") /\ Positions("analyze")' = Positions("analyze") /\ i \in Positions("create")
  BY <1>1, <1>5, <1>6, <1>7 DEF Positions
<1>9. \A k \in DOMAIN requests : /\ requests'[k].kind = requests[k].kind /\ requests'[k].heard = requests[k].heard
                                 /\ requests'[k].photo = requests[k].photo /\ requests'[k].read = requests[k].read
                                 /\ requests'[k].answer = "ok" => k = i \/ requests[k].answer = "ok"
                                 /\ requests'[k].answer = "failed" => requests[k].answer = "failed"
  BY <1>1, <1>5, <1>6, <1>7
<1>10. wizard' = wizard /\ hasty' = hasty
  BY DEF ServeCreate
<1>11. StepsHeard'
  <2>1. \A k \in Positions("create") : requests'[k].answer = "ok" => requests'[k].car # 0
    <3>1. requests'[i].car # 0
      BY <1>3, <1>6, <1>7
    <3> QED BY <1>6, <3>1 DEF Photographed, StepsHeard, Positions
  <2>2. \A a \in DOMAIN cars' : cars'[a].photo <= wizard'.shots
    <3>1. c.photo <= wizard.shots /\ \A a \in DOMAIN cars : cars[a].photo <= wizard.shots
      BY <1>1, <1>8 DEF Photographed, StepsHeard
    <3> QED BY <1>3, <1>4, <1>10, <3>1
  <2>3. \A k \in Positions("create") : k \in DOMAIN requests
    BY DEF Positions
  <2>4. \A k \in Positions("create") :
          /\ requests'[k].photo <= wizard'.shots
          /\ requests'[k].heard => "vehicle" \in wizard'.sending /\ requests'[k].photo = wizard'.photo
          /\ \A j \in Positions("create") : requests'[k].heard /\ requests'[j].heard => k = j
    BY <1>9, <1>10, <2>3 DEF Photographed, StepsHeard
  <2>5. wizard'.photo <= wizard'.shots
    BY <1>10 DEF Photographed, StepsHeard
  <2>6. wizard'.open = "no" => \A k \in DOMAIN requests' : ~requests'[k].heard /\ requests'[k].kind # "analyze"
    BY <1>6, <1>9, <1>10 DEF Photographed, StepsHeard
  <2> QED BY <1>8, <2>1, <2>2, <2>4, <2>5, <2>6 DEF StepsHeard
<1>12. \A k \in DOMAIN requests' : Sent(k)' => k # i /\ Sent(k) /\ requests'[k] = requests[k]
  BY <1>6, <1>7 DEF Sent, Positions
<1>13. PhotosOnce'
  <2> SUFFICES ASSUME hasty \cap {"submit", "lost"} = {}
               PROVE  /\ \A a, b \in DOMAIN cars' : cars'[a].photo = cars'[b].photo => a = b \/ cars'[a].photo = 0
                      /\ \A k, j \in DOMAIN requests' : Sent(k)' /\ Sent(j)' /\ requests'[k].photo = requests'[j].photo =>
                           k = j \/ requests'[k].photo = 0
                      /\ \A k \in DOMAIN requests', a \in DOMAIN cars' :
                           Sent(k)' /\ requests'[k].photo = cars'[a].photo => cars'[a].photo = 0
                      /\ wizard'.photo # 0 /\ wizard'.created = 0 /\ Spent(wizard.photo)' =>
                           \E k \in Positions("create")' : requests'[k].heard /\ requests'[k].answer # "failed"
    BY <1>10 DEF PhotosOnce
  <2>1. /\ \A a, b \in DOMAIN cars : cars[a].photo = cars[b].photo => a = b \/ cars[a].photo = 0
        /\ \A k, j \in DOMAIN requests : Sent(k) /\ Sent(j) /\ requests[k].photo = requests[j].photo => k = j \/ requests[k].photo = 0
        /\ \A k \in DOMAIN requests, a \in DOMAIN cars : Sent(k) /\ requests[k].photo = cars[a].photo => cars[a].photo = 0
        /\ wizard.photo # 0 /\ wizard.created = 0 /\ Spent(wizard.photo) =>
             \E k \in Positions("create") : requests[k].heard /\ requests[k].answer # "failed"
    BY DEF Photographed, PhotosOnce
  <2>2. \A a \in DOMAIN cars : cars[a].photo = c.photo => c.photo = 0
    BY <1>1, <1>5, <2>1
  <2>3. \A a, b \in DOMAIN cars' : cars'[a].photo = cars'[b].photo => a = b \/ cars'[a].photo = 0
    BY <1>3, <1>4, <2>1, <2>2
  <2>4. \A k, j \in DOMAIN requests' : Sent(k)' /\ Sent(j)' /\ requests'[k].photo = requests'[j].photo =>
          k = j \/ requests'[k].photo = 0
    BY <1>6, <1>12, <2>1
  <2>5. \A k \in DOMAIN requests', a \in DOMAIN cars' : Sent(k)' /\ requests'[k].photo = cars'[a].photo => cars'[a].photo = 0
    BY <1>1, <1>3, <1>4, <1>5, <1>6, <1>12, <2>1
  <2>6. Spent(wizard.photo)' => Spent(wizard.photo)
    BY <1>1, <1>3, <1>4, <1>5, <1>6, <1>10, <1>12 DEF Spent
  <2>7. ASSUME wizard'.photo # 0, wizard'.created = 0, Spent(wizard.photo)'
        PROVE  \E k \in Positions("create")' : requests'[k].heard /\ requests'[k].answer # "failed"
    <3>1. PICK k \in Positions("create") : requests[k].heard /\ requests[k].answer # "failed"
      BY <1>10, <2>1, <2>6, <2>7
    <3>2. k \in DOMAIN requests
      BY DEF Positions
    <3> QED BY <1>8, <1>9, <3>1, <3>2
  <2> QED BY <2>3, <2>4, <2>5, <2>7
<1>14. PlatesRead'
  <2> SUFFICES ASSUME hasty \cap {"photo", "unread"} = {}
               PROVE  /\ \A a \in DOMAIN cars' : cars'[a].read \in {0, cars'[a].photo}
                      /\ \A k \in Positions("create")' : requests'[k].read \in {0, requests'[k].photo}
                      /\ wizard'.ready => wizard'.read \in {0, wizard'.photo}
                      /\ \A k \in Positions("analyze")' :
                           /\ requests'[k].photo = wizard'.photo /\ requests'[k].read \in {0, requests'[k].photo}
                           /\ \A j \in Positions("analyze")' : k = j
    BY <1>10 DEF PlatesRead
  <2>1. \A k \in Positions("create") \cup Positions("analyze") : k \in DOMAIN requests
    BY DEF Positions
  <2>2. c.read \in {0, c.photo}
    BY <1>1, <1>8 DEF Photographed, PlatesRead
  <2>3. \A a \in DOMAIN cars' : cars'[a].read \in {0, cars'[a].photo}
    BY <1>3, <1>4, <2>2 DEF Photographed, PlatesRead
  <2> QED BY <1>8, <1>9, <1>10, <2>1, <2>3 DEF Photographed, PlatesRead
<1> QED BY <1>11, <1>13, <1>14 DEF Photographed

\* A registration that fails, or whose answer is lost.
LEMMA LoseCreatePhotos ==
  ASSUME WizardTypeOK, Photographed, NEW i \in DOMAIN requests, Lose(i), requests[i].kind = "create"
  PROVE  Photographed'
<1>1. PICK c \in Request : c = requests[i]
  BY WizardTypeFacts
<1> DEFINE r == [c EXCEPT !.answer = "failed"]
<1>2. /\ DOMAIN requests' = DOMAIN requests /\ requests'[i] = r
      /\ \A k \in DOMAIN requests \ {i} : requests'[k] = requests[k]
  <2>1. Reply(i, r)
    BY <1>1 DEF Lose
  <2> QED BY <2>1, RepliedAt, WizardTypeFacts
<1>3. r.kind = "create" /\ r.heard = c.heard /\ r.photo = c.photo /\ r.read = c.read /\ r.answer = "failed" /\ r.car = c.car
  BY <1>1 DEF Request
<1> HIDE DEF r
<1>4. wizard' = wizard /\ cars' = cars /\ hasty \subseteq hasty' /\ (c.answer = "ok" => "lost" \in hasty') /\ c.answer # "failed"
  BY <1>1 DEF Lose
<1>5. Positions("create")' = Positions("create") /\ Positions("analyze")' = Positions("analyze") /\ i \in Positions("create")
  BY <1>1, <1>2, <1>3 DEF Positions
<1>6. \A k \in DOMAIN requests : /\ requests'[k].kind = requests[k].kind /\ requests'[k].heard = requests[k].heard
                                 /\ requests'[k].photo = requests[k].photo /\ requests'[k].read = requests[k].read
                                 /\ requests'[k].car = requests[k].car
                                 /\ requests'[k].answer = "ok" => requests[k].answer = "ok"
  BY <1>1, <1>2, <1>3
<1>7. \A k \in Positions("create") \cup Positions("analyze") : k \in DOMAIN requests
  BY DEF Positions
<1>8. StepsHeard'
  <2>1. \A k \in Positions("create") : requests'[k].answer = "ok" => requests'[k].car # 0
    BY <1>6, <1>7 DEF Photographed, StepsHeard
  <2>2. \A k \in Positions("create") :
          /\ requests'[k].photo <= wizard'.shots
          /\ requests'[k].heard => "vehicle" \in wizard'.sending /\ requests'[k].photo = wizard'.photo
          /\ \A j \in Positions("create") : requests'[k].heard /\ requests'[j].heard => k = j
    BY <1>4, <1>6, <1>7 DEF Photographed, StepsHeard
  <2>3. wizard'.photo <= wizard'.shots /\ \A a \in DOMAIN cars' : cars'[a].photo <= wizard'.shots
    BY <1>4 DEF Photographed, StepsHeard
  <2>4. wizard'.open = "no" => \A k \in DOMAIN requests' : ~requests'[k].heard /\ requests'[k].kind # "analyze"
    BY <1>2, <1>4, <1>6 DEF Photographed, StepsHeard
  <2> QED BY <1>5, <2>1, <2>2, <2>3, <2>4 DEF StepsHeard
<1>9. \A k \in DOMAIN requests' : Sent(k)' => k # i /\ Sent(k) /\ requests'[k] = requests[k]
  BY <1>2, <1>3 DEF Sent, Positions
<1>10. PhotosOnce'
  <2> SUFFICES ASSUME hasty' \cap {"submit", "lost"} = {}
               PROVE  /\ \A a, b \in DOMAIN cars' : cars'[a].photo = cars'[b].photo => a = b \/ cars'[a].photo = 0
                      /\ \A k, j \in DOMAIN requests' : Sent(k)' /\ Sent(j)' /\ requests'[k].photo = requests'[j].photo =>
                           k = j \/ requests'[k].photo = 0
                      /\ \A k \in DOMAIN requests', a \in DOMAIN cars' :
                           Sent(k)' /\ requests'[k].photo = cars'[a].photo => cars'[a].photo = 0
                      /\ wizard'.photo # 0 /\ wizard'.created = 0 /\ Spent(wizard.photo)' =>
                           \E k \in Positions("create")' : requests'[k].heard /\ requests'[k].answer # "failed"
    BY DEF PhotosOnce
  <2>1. hasty \cap {"submit", "lost"} = {} /\ c.answer # "ok"
    BY <1>4
  <2>2. Sent(i)
    BY <1>1, <1>4, <1>5, <2>1 DEF Sent, Request
  <2>3. /\ \A a, b \in DOMAIN cars : cars[a].photo = cars[b].photo => a = b \/ cars[a].photo = 0
        /\ \A k, j \in DOMAIN requests : Sent(k) /\ Sent(j) /\ requests[k].photo = requests[j].photo => k = j \/ requests[k].photo = 0
        /\ \A k \in DOMAIN requests, a \in DOMAIN cars : Sent(k) /\ requests[k].photo = cars[a].photo => cars[a].photo = 0
        /\ wizard.photo # 0 /\ wizard.created = 0 /\ Spent(wizard.photo) =>
             \E k \in Positions("create") : requests[k].heard /\ requests[k].answer # "failed"
    BY <2>1 DEF Photographed, PhotosOnce
  <2>4. \A k, j \in DOMAIN requests' : Sent(k)' /\ Sent(j)' /\ requests'[k].photo = requests'[j].photo =>
          k = j \/ requests'[k].photo = 0
    BY <1>2, <1>9, <2>3
  <2>5. \A k \in DOMAIN requests', a \in DOMAIN cars' : Sent(k)' /\ requests'[k].photo = cars'[a].photo => cars'[a].photo = 0
    BY <1>2, <1>4, <1>9, <2>3
  <2>6. ASSUME wizard'.photo # 0, wizard'.created = 0, Spent(wizard.photo)'
        PROVE  \E k \in Positions("create")' : requests'[k].heard /\ requests'[k].answer # "failed"
    <3>1. Spent(wizard.photo)
      BY <1>2, <1>4, <1>9, <2>6 DEF Spent
    <3>2. PICK k \in Positions("create") : requests[k].heard /\ requests[k].answer # "failed"
      BY <1>4, <2>3, <2>6, <3>1
    <3>3. k # i
      <4> SUFFICES ASSUME k = i PROVE FALSE
        OBVIOUS
      <4>1. requests[i].photo = wizard.photo
        BY <1>5, <3>2 DEF Photographed, StepsHeard
      <4>2. \A j \in DOMAIN requests' : Sent(j)' => requests'[j].photo # wizard.photo
        BY <1>2, <1>4, <1>9, <2>2, <2>3, <2>6, <4>1
      <4>3. \A a \in DOMAIN cars' : cars'[a].photo # wizard.photo
        BY <1>4, <2>2, <2>3, <2>6, <4>1
      <4> QED BY <1>4, <2>6, <4>2, <4>3 DEF Spent
    <3> QED BY <1>2, <1>5, <1>7, <3>2, <3>3
  <2> QED BY <1>4, <2>3, <2>4, <2>5, <2>6
<1>11. PlatesRead'
  BY <1>4, <1>5, <1>6, <1>7 DEF Photographed, PlatesRead
<1> QED BY <1>8, <1>10, <1>11 DEF Photographed

LEMMA LosePhotos ==
  ASSUME WizardTypeOK, Photographed, NEW i \in DOMAIN requests, Lose(i)
  PROVE  Photographed'
<1>1. UNCHANGED <<cars, wizard>> /\ hasty \subseteq hasty' /\ Reply(i, [requests[i] EXCEPT !.answer = "failed"])
  BY DEF Lose
<1>2. CASE requests[i].kind = "create"
  BY <1>2, LoseCreatePhotos
<1>3. CASE requests[i].kind = "analyze"
  <2>1. PICK c \in Request : c = requests[i]
    BY WizardTypeFacts
  <2> DEFINE r == [c EXCEPT !.answer = "failed"]
  <2>2. r.kind = c.kind /\ r.heard = c.heard /\ r.photo = c.photo /\ r.read \in {c.read, c.photo}
    BY DEF Request
  <2>3. Reply(i, r)
    BY <1>1, <2>1
  <2> HIDE DEF r
  <2> QED BY <1>1, <1>3, <2>1, <2>2, <2>3, PhotosIfRead
<1>4. CASE requests[i].kind \notin {"create", "analyze"}
  BY <1>1, <1>4, PhotosIfAnswered
<1> QED BY <1>2, <1>3, <1>4

\* The answers that no photo waits for.
LEMMA PhotosIfTakenAsIs ==
  ASSUME WizardTypeOK, Photographed, NEW i \in DOMAIN requests, requests[i].kind # "create",
         \/ requests' = Rest(i)
         \/ \E kind \in Kinds \ {"create", "analyze"} : requests' = Append(Rest(i), Plain(kind))
         \/ \E then \in {"", "created", "finish", "page"} : requests' = Append(Rest(i), Me(then))
         \/ \E p : requests' = Rest(i) \o Loads(p),
         wizard'.open = wizard.open, wizard'.shots = wizard.shots, wizard'.photo = wizard.photo,
         wizard'.read = wizard.read, wizard'.ready = wizard.ready, wizard'.created = wizard.created,
         "vehicle" \in wizard.sending => "vehicle" \in wizard'.sending,
         cars' = cars, hasty \subseteq hasty'
  PROVE  Photographed'
<1>1. CASE requests' = Rest(i)
  <2> PICK none : none = {}
    OBVIOUS
  <2>1. PICK f : Trace(requests, requests', f, {i}, none) /\ Keeps(requests, requests', f)
    BY <1>1, TakenOnly, WizardTypeFacts
  <2>2. \A c \in none : c.kind \notin {"create", "analyze"} /\ ~c.heard
    OBVIOUS
  <2> QED BY <2>1, <2>2, PhotosIfTaken
<1>2. ASSUME NEW kind \in Kinds \ {"create", "analyze"}, requests' = Append(Rest(i), Plain(kind))
      PROVE  Photographed'
  <2>1. PICK f : Trace(requests, requests', f, {i}, {Plain(kind)}) /\ Keeps(requests, requests', f)
    BY <1>2, TakenForOne, WizardTypeFacts, NotForPhotos
  <2>2. \A c \in {Plain(kind)} : c.kind \notin {"create", "analyze"} /\ ~c.heard
    BY NotForPhotos
  <2> QED BY <2>1, <2>2, PhotosIfTaken
<1>3. ASSUME NEW then \in {"", "created", "finish", "page"}, requests' = Append(Rest(i), Me(then))
      PROVE  Photographed'
  <2>1. PICK f : Trace(requests, requests', f, {i}, {Me(then)}) /\ Keeps(requests, requests', f)
    BY <1>3, TakenForOne, WizardTypeFacts, NotForPhotos
  <2>2. \A c \in {Me(then)} : c.kind \notin {"create", "analyze"} /\ ~c.heard
    BY NotForPhotos
  <2> QED BY <2>1, <2>2, PhotosIfTaken
<1>4. ASSUME NEW p, requests' = Rest(i) \o Loads(p)
      PROVE  Photographed'
  <2>1. PICK f : Trace(requests, requests', f, {i}, Under(Loads(p))) /\ Keeps(requests, requests', f)
    BY <1>4, TakenForLoads, WizardTypeFacts
  <2>2. \A c \in Under(Loads(p)) : c.kind \notin {"create", "analyze"} /\ ~c.heard
    BY NotForPhotos
  <2> QED BY <2>1, <2>2, PhotosIfTaken
<1> QED BY <1>1, <1>2, <1>3, <1>4

LEMMA TakeLoadsPhotos ==
  ASSUME WizardTypeOK, Photographed, NEW i \in DOMAIN requests, TakeCars(i) \/ TakeCerts(i) \/ TakeFailure(i)
  PROVE  Photographed'
<1>1. requests[i].kind # "create" /\ requests' = Rest(i) /\ UNCHANGED <<cars, wizard, hasty>>
  BY DEF TakeCars, TakeCerts, TakeFailure
<1> QED BY <1>1, PhotosIfTakenAsIs

LEMMA TakeMePhotos ==
  ASSUME WizardTypeOK, Photographed, NEW i \in DOMAIN requests, TakeMe(i)
  PROVE  Photographed'
<1>1. PICK w \in Wizard : w = wizard
  BY WizardTypeFacts
<1>2. requests[i].kind = "me" /\ cars' = cars /\ hasty' = hasty
  BY DEF TakeMe
<1>3. \/ /\ requests' = Rest(i)
         /\ wizard' = [wizard EXCEPT !.step = IF wizard.open = "driver" THEN "insurance" ELSE @]
      \/ wizard' = Dialog("no") /\ Closing(Rest(i), <<Me("page")>>)
      \/ requests' = Append(Rest(i), Me("page")) /\ wizard' = wizard
      \/ wizard' = wizard /\ \E p : requests' = Rest(i) \o Loads(p)
  BY DEF TakeMe, AfterMe
<1>4. CASE /\ requests' = Rest(i)
           /\ wizard' = [wizard EXCEPT !.step = IF wizard.open = "driver" THEN "insurance" ELSE @]
  <2>1. /\ wizard'.open = w.open /\ wizard'.shots = w.shots /\ wizard'.photo = w.photo
        /\ wizard'.read = w.read /\ wizard'.ready = w.ready /\ wizard'.created = w.created /\ wizard'.sending = w.sending
    BY <1>1, <1>4 DEF Wizard
  <2> QED BY <1>1, <1>2, <1>4, <2>1, PhotosIfTakenAsIs
<1>5. CASE wizard' = Dialog("no") /\ Closing(Rest(i), <<Me("page")>>)
  <2>1. PICK f : /\ Trace(requests, requests', f, {i} \cup (DOMAIN requests \ Kept(requests)), {Me("page")})
                 /\ Silences(requests, requests', f)
    BY <1>5, ClosedTaking, WizardTypeFacts, PageAsked, OneUnder
  <2>2. DOMAIN requests \ Kept(requests) \subseteq {i} \cup (DOMAIN requests \ Kept(requests))
    OBVIOUS
  <2>3. \A c \in {Me("page")} : c.kind \notin {"create", "analyze"} /\ ~c.heard
    BY NotForPhotos
  <2> QED BY <1>2, <1>5, <2>1, <2>2, <2>3, PhotosIfClosed
<1>6. CASE requests' = Append(Rest(i), Me("page")) /\ wizard' = wizard
  BY <1>2, <1>6, PhotosIfTakenAsIs
<1>7. CASE wizard' = wizard /\ \E p : requests' = Rest(i) \o Loads(p)
  BY <1>2, <1>7, PhotosIfTakenAsIs
<1> QED BY <1>3, <1>4, <1>5, <1>6, <1>7

LEMMA TakeModePhotos ==
  ASSUME WizardTypeOK, Photographed, NEW i \in DOMAIN requests, TakeMode(i) \/ TakeDelete(i)
  PROVE  Photographed'
<1>1. "certs" \in Kinds \ {"create", "analyze"}
  BY DEF Kinds
<1>2. requests[i].kind # "create" /\ UNCHANGED <<cars, wizard, hasty>> /\ (requests' = Rest(i) \/ requests' = Append(Rest(i), Plain("certs")))
  BY DEF TakeMode, TakeDelete
<1> QED BY <1>1, <1>2, PhotosIfTakenAsIs

LEMMA TakeUploadPhotos ==
  ASSUME WizardTypeOK, Photographed, NEW i \in DOMAIN requests, TakeUpload(i)
  PROVE  Photographed'
<1>1. requests[i].kind # "create" /\ UNCHANGED <<cars, wizard, hasty>> /\ (requests' = Rest(i) \/ \E p : requests' = Rest(i) \o Loads(p))
  BY DEF TakeUpload
<1> QED BY <1>1, PhotosIfTakenAsIs

LEMMA TakeDocumentPhotos ==
  ASSUME WizardTypeOK, Photographed, NEW i \in DOMAIN requests, TakeDocument(i)
  PROVE  Photographed'
<1>1. PICK w \in Wizard : w = wizard
  BY WizardTypeFacts
<1>2. requests[i].kind \in Papers /\ requests' = Rest(i) /\ UNCHANGED <<cars, hasty>>
  BY DEF TakeDocument, TakeStep
<1>3. /\ wizard'.open = w.open /\ wizard'.shots = w.shots /\ wizard'.photo = w.photo
      /\ wizard'.read = w.read /\ wizard'.ready = w.ready /\ wizard'.created = w.created
      /\ "vehicle" \in w.sending => "vehicle" \in wizard'.sending
  <2> DEFINE q == IF requests[i].answer = "ok" /\ requests[i].flag THEN w.passed \cup {requests[i].kind} ELSE w.passed
  <2>1. wizard' = w \/ wizard' = [w EXCEPT !.sending = w.sending \ {requests[i].kind}, !.passed = q]
    BY <1>1 DEF TakeDocument, TakeStep
  <2> HIDE DEF q
  <2>2. CASE wizard' = w
    BY <2>2
  <2>3. CASE wizard' = [w EXCEPT !.sending = w.sending \ {requests[i].kind}, !.passed = q]
    <3>1. /\ wizard'.open = w.open /\ wizard'.shots = w.shots /\ wizard'.photo = w.photo /\ wizard'.read = w.read
          /\ wizard'.ready = w.ready /\ wizard'.created = w.created /\ wizard'.sending = w.sending \ {requests[i].kind}
      BY <2>3 DEF Wizard
    <3> QED BY <1>2, <3>1 DEF Papers
  <2> QED BY <2>1, <2>2, <2>3
<1> QED BY <1>1, <1>2, <1>3, PhotosIfTakenAsIs DEF Papers

LEMMA TakeAnalysisPhotos ==
  ASSUME WizardTypeOK, Photographed, NEW i \in DOMAIN requests, TakeAnalysis(i)
  PROVE  Photographed'
<1>1. PICK c \in Request : c = requests[i]
  BY WizardTypeFacts
<1>2. PICK w \in Wizard : w = wizard
  BY WizardTypeFacts
<1>3. c.kind = "analyze" /\ cars' = cars /\ hasty \subseteq hasty' /\ requests' = Rest(i)
  BY <1>1 DEF TakeAnalysis, TakeStep
<1>4. CASE ~c.heard
  <2>1. wizard' = wizard
    BY <1>1, <1>4 DEF TakeAnalysis, TakeStep
  <2> QED BY <1>1, <1>3, <2>1, PhotosIfTakenAsIs
<1>5. CASE c.heard
  <2> DEFINE read == IF c.answer = "ok" /\ c.read # 0 THEN c.read ELSE w.read
  <2>1. wizard' = [w EXCEPT !.ready = TRUE, !.read = read]
    BY <1>1, <1>2, <1>5 DEF TakeAnalysis, TakeStep
  <2>2. (c.answer = "ok" /\ c.read # 0 /\ read = c.read) \/ "unread" \in hasty'
    BY <1>1 DEF TakeAnalysis
  <2> HIDE DEF read
  <2>3. /\ wizard'.open = w.open /\ wizard'.shots = w.shots /\ wizard'.photo = w.photo
        /\ wizard'.sending = w.sending /\ wizard'.created = w.created /\ wizard'.read = read
    BY <2>1 DEF Wizard
  <2>4. PICK f : Trace(requests, requests', f, {i}, {}) /\ Keeps(requests, requests', f)
    BY <1>3, TakenOnly, WizardTypeFacts
  <2>5. \A k \in DOMAIN requests' : f[k] # 0 /\ f[k] \in DOMAIN requests \ {i} /\ requests'[k] = requests[f[k]]
    BY <2>4, TraceFacts DEF Keeps
  <2>6. \A k, m \in DOMAIN requests' : f[k] = f[m] => k = m
    BY <2>4, <2>5, TraceFacts
  <2>7. \A j \in DOMAIN requests \ {i} : \E k \in DOMAIN requests' : requests'[k] = requests[j]
    BY <2>4, TraceFacts DEF Keeps
  <2>8. StepsHeard'
    <3>1. wizard'.open = "no" => \A k \in DOMAIN requests' : ~requests'[k].heard /\ requests'[k].kind # "analyze"
      BY <1>2, <2>3, <2>5 DEF Photographed, StepsHeard
    <3>2. \A k \in DOMAIN requests' : requests'[k].kind = "create" =>
            /\ requests'[k].photo <= wizard'.shots
            /\ requests'[k].answer = "ok" => requests'[k].car # 0
            /\ requests'[k].heard => "vehicle" \in wizard'.sending /\ requests'[k].photo = wizard'.photo
      BY <1>2, <2>3, <2>5 DEF Photographed, StepsHeard, Positions
    <3>3. \A k, m \in DOMAIN requests' : requests'[k].kind = "create" /\ requests'[m].kind = "create"
            /\ requests'[k].heard /\ requests'[m].heard => k = m
      BY <2>5, <2>6 DEF Photographed, StepsHeard, Positions
    <3>4. wizard'.photo <= wizard'.shots /\ \A a \in DOMAIN cars' : cars'[a].photo <= wizard'.shots
      BY <1>2, <1>3, <2>3 DEF Photographed, StepsHeard
    <3> QED BY <3>1, <3>2, <3>3, <3>4 DEF StepsHeard, Positions
  <2>9. PhotosOnce'
    <3> SUFFICES ASSUME hasty' \cap {"submit", "lost"} = {}
                 PROVE  /\ \A a, b \in DOMAIN cars' : cars'[a].photo = cars'[b].photo => a = b \/ cars'[a].photo = 0
                        /\ \A k, j \in DOMAIN requests' : Sent(k)' /\ Sent(j)' /\ requests'[k].photo = requests'[j].photo =>
                             k = j \/ requests'[k].photo = 0
                        /\ \A k \in DOMAIN requests', a \in DOMAIN cars' :
                             Sent(k)' /\ requests'[k].photo = cars'[a].photo => cars'[a].photo = 0
                        /\ wizard'.photo # 0 /\ wizard'.created = 0 /\ Spent(wizard.photo)' =>
                             \E k \in Positions("create")' : requests'[k].heard /\ requests'[k].answer # "failed"
      BY DEF PhotosOnce
    <3>1. hasty \cap {"submit", "lost"} = {}
      BY <1>3
    <3>2. \A k \in DOMAIN requests' : Sent(k)' => f[k] \in DOMAIN requests /\ Sent(f[k]) /\ requests'[k] = requests[f[k]]
      BY <2>5 DEF Sent, Positions
    <3>3. \A a, b \in DOMAIN cars' : cars'[a].photo = cars'[b].photo => a = b \/ cars'[a].photo = 0
      BY <1>3, <3>1 DEF Photographed, PhotosOnce
    <3>4. \A k, j \in DOMAIN requests' : Sent(k)' /\ Sent(j)' /\ requests'[k].photo = requests'[j].photo =>
            k = j \/ requests'[k].photo = 0
      BY <2>6, <3>1, <3>2 DEF Photographed, PhotosOnce
    <3>5. \A k \in DOMAIN requests', a \in DOMAIN cars' :
            Sent(k)' /\ requests'[k].photo = cars'[a].photo => cars'[a].photo = 0
      BY <1>3, <3>1, <3>2 DEF Photographed, PhotosOnce
    <3>6. ASSUME wizard'.photo # 0, wizard'.created = 0, Spent(wizard.photo)'
          PROVE  \E k \in Positions("create")' : requests'[k].heard /\ requests'[k].answer # "failed"
      <4>1. Spent(wizard.photo)
        BY <1>2, <1>3, <2>3, <3>2, <3>6 DEF Spent
      <4>2. PICK j \in Positions("create") : requests[j].heard /\ requests[j].answer # "failed"
        BY <1>2, <2>3, <3>1, <3>6, <4>1 DEF Photographed, PhotosOnce
      <4>3. j \in DOMAIN requests \ {i} /\ requests[j].kind = "create"
        BY <1>1, <1>3 DEF Positions
      <4>4. PICK k \in DOMAIN requests' : requests'[k] = requests[j]
        BY <2>7, <4>3
      <4> QED BY <4>2, <4>3, <4>4 DEF Positions
    <3> QED BY <3>3, <3>4, <3>5, <3>6
  <2>10. PlatesRead'
    <3> SUFFICES ASSUME hasty' \cap {"photo", "unread"} = {}
                 PROVE  /\ \A a \in DOMAIN cars' : cars'[a].read \in {0, cars'[a].photo}
                        /\ \A k \in Positions("create")' : requests'[k].read \in {0, requests'[k].photo}
                        /\ wizard'.read \in {0, wizard'.photo}
                        /\ \A k \in Positions("analyze")' :
                             /\ requests'[k].photo = wizard'.photo /\ requests'[k].read \in {0, requests'[k].photo}
                             /\ \A j \in Positions("analyze")' : k = j
      BY DEF PlatesRead
    <3>1. hasty \cap {"photo", "unread"} = {} /\ read = c.read
      BY <1>3, <2>2
    <3>2. c.read \in {0, w.photo}
      BY <1>1, <1>2, <1>3, <3>1 DEF Photographed, PlatesRead, Positions
    <3>3. Positions("analyze")' = {}
      <4> SUFFICES ASSUME NEW k \in DOMAIN requests', requests'[k].kind = "analyze" PROVE FALSE
        BY DEF Positions
      <4> QED BY <1>1, <1>3, <2>5, <3>1 DEF Photographed, PlatesRead, Positions
    <3>4. \A k \in Positions("create")' : requests'[k].read \in {0, requests'[k].photo}
      BY <2>5, <3>1 DEF Photographed, PlatesRead, Positions
    <3>5. \A a \in DOMAIN cars' : cars'[a].read \in {0, cars'[a].photo}
      BY <1>3, <3>1 DEF Photographed, PlatesRead
    <3> QED BY <2>3, <3>1, <3>2, <3>3, <3>4, <3>5
  <2> QED BY <2>8, <2>9, <2>10 DEF Photographed
<1> QED BY <1>4, <1>5

\* The answer to a registration.
LEMMA TakeCreatePhotos ==
  ASSUME WizardTypeOK, Photographed, NEW i \in DOMAIN requests, TakeCreate(i)
  PROVE  Photographed'
<1>1. PICK c \in Request : c = requests[i]
  BY WizardTypeFacts
<1>2. PICK w \in Wizard : w = wizard
  BY WizardTypeFacts
<1>3. c.kind = "create" /\ c.answer # "none" /\ cars' = cars /\ hasty' = hasty
  BY <1>1 DEF TakeCreate, TakeStep
<1>4. c.answer = "ok" => c.car # 0
  BY <1>1, <1>3 DEF Photographed, StepsHeard, Positions
<1>5. /\ wizard'.open = w.open /\ wizard'.shots = w.shots /\ wizard'.photo = w.photo
      /\ wizard'.read = w.read /\ wizard'.ready = w.ready
      /\ wizard'.created = IF c.heard /\ c.answer = "ok" THEN c.car ELSE w.created
      /\ ~c.heard => wizard'.sending = w.sending
  <2>1. CASE ~c.heard
    BY <1>1, <1>2, <2>1 DEF TakeCreate, TakeStep
  <2>2. CASE c.heard /\ c.answer # "ok"
    <3>1. wizard' = [w EXCEPT !.sending = w.sending \ {"vehicle"}]
      BY <1>1, <1>2, <2>2 DEF TakeCreate, TakeStep
    <3> QED BY <2>2, <3>1 DEF Wizard
  <2>3. CASE c.heard /\ c.answer = "ok"
    <3>1. PICK s : wizard' = [Registered(w, c.car) EXCEPT !.step = s]
      BY <1>1, <1>2, <2>3 DEF TakeCreate, TakeStep
    <3>2. wizard' = [[w EXCEPT !.sending = w.sending \ {"vehicle"}, !.created = c.car] EXCEPT !.step = s]
      BY <3>1 DEF Registered
    <3> QED BY <2>3, <3>2 DEF Wizard
  <2> QED BY <2>1, <2>2, <2>3
<1>6. \A k \in Positions("create") \ {i} : requests[k].heard => "vehicle" \in wizard'.sending
  BY <1>1, <1>2, <1>3, <1>5 DEF Photographed, StepsHeard, Positions
<1>7. ASSUME NEW fresh, \A r \in fresh : r.kind \notin {"create", "analyze"} /\ ~r.heard
      PROVE  OfNoPhoto({i}, fresh)
  <2>1. wizard'.created # 0 \/ ~c.heard \/ c.answer = "failed"
    BY <1>3, <1>4, <1>5 DEF Request
  <2>2. wizard'.created = 0 => w.created = 0
    BY <1>4, <1>5
  <2>3. hasty \subseteq hasty'
    BY <1>3
  <2> QED BY <1>1, <1>2, <1>3, <1>5, <1>6, <1>7, <2>1, <2>2, <2>3 DEF OfNoPhoto
<1>8. CASE requests' = Rest(i)
  <2>1. PICK f : Trace(requests, requests', f, {i}, {}) /\ Keeps(requests, requests', f)
    BY <1>8, TakenOnly, WizardTypeFacts
  <2>2. OfNoPhoto({i}, {})
    BY <1>7
  <2> QED BY <2>1, <2>2, KeepsSame, PhotosStand
<1>9. CASE requests' = Append(Rest(i), Me("created"))
  <2>1. PICK f : Trace(requests, requests', f, {i}, {Me("created")}) /\ Keeps(requests, requests', f)
    BY <1>9, TakenForOne, WizardTypeFacts, NotForPhotos
  <2>2. OfNoPhoto({i}, {Me("created")})
    BY <1>7, NotForPhotos
  <2> QED BY <2>1, <2>2, KeepsSame, PhotosStand
<1> QED BY <1>8, <1>9 DEF TakeCreate

LEMMA PhotosInitially == WizardInit => Photographed
<1> SUFFICES ASSUME NEW n \in 0..1, NEW d \in BOOLEAN, Start(n, d)
             PROVE  Photographed
  BY DEF WizardInit
<1>1. \A a \in DOMAIN cars : cars[a] = [photo |-> 0, read |-> 0]
  BY DEF Start
<1>2. /\ wizard.open = "no" /\ wizard.shots = 0 /\ wizard.photo = 0 /\ ~wizard.ready /\ requests = Loads(page)
      /\ DOMAIN cars = 1..n
  BY DEF Start
<1>3. \A i \in DOMAIN requests : requests[i].kind \in {"cars", "certs"} /\ ~requests[i].heard
  BY <1>2, LoadsTypes DEF Under
<1>4. Positions("create") = {} /\ Positions("analyze") = {}
  BY <1>3 DEF Positions
<1>5. \A a \in DOMAIN cars : cars[a].photo = 0 /\ cars[a].read = 0
  BY <1>1
<1>6. StepsHeard
  BY <1>2, <1>3, <1>4, <1>5 DEF StepsHeard
<1>7. PhotosOnce
  BY <1>2, <1>4, <1>5 DEF PhotosOnce, Sent
<1>8. PlatesRead
  BY <1>2, <1>4, <1>5 DEF PlatesRead
<1> QED BY <1>6, <1>7, <1>8 DEF Photographed

LEMMA PhotosSteps ==
  WizardTypeOK /\ Photographed /\ [WizardNext]_wizard_vars => Photographed'
<1> SUFFICES ASSUME WizardTypeOK, Photographed, [WizardNext]_wizard_vars
             PROVE  Photographed'
  OBVIOUS
<1>1. CASE UNCHANGED wizard_vars
  BY <1>1, PhotosIfIdle DEF wizard_vars, WizardWaits
<1>2. CASE Toggle \/ AddVehicle \/ Close \/ SubmitDocument \/ Upload \/ NextStep \/ Back \/ Pick \/ SubmitCar
           \/ \E car \in CarIds : Delete(car)
  BY <1>2, TogglePhotos, AddVehiclePhotos, ClosePhotos, SubmitDocumentPhotos, UploadPhotos, NextStepPhotos, BackPhotos,
     PickPhotos, SubmitCarPhotos, DeletePhotos
<1>3. ASSUME NEW i \in DOMAIN requests, Serve(i) \/ Lose(i)
      PROVE  Photographed'
  BY <1>3, ServeReadPhotos, ServeCreatePhotos, ServeDocumentPhotos, ServeDeletePhotos, ServeModePhotos, LosePhotos DEF Serve
<1>4. ASSUME NEW i \in DOMAIN requests, Take(i)
      PROVE  Photographed'
  BY <1>4, TakeLoadsPhotos, TakeMePhotos, TakeModePhotos, TakeAnalysisPhotos, TakeDocumentPhotos, TakeUploadPhotos,
     TakeCreatePhotos DEF Take
<1> QED BY <1>1, <1>2, <1>3, <1>4 DEF WizardNext

\* A photo registers one car, however many wizards are opened and closed in between, unless
\* the user submits it again while the wizard asks who he has become, or an answer was lost.
THEOREM PhotoOnce == WizardSpec => []OneCarPerPhoto
<1>1. WizardInit => WizardTypeOK /\ Photographed
  BY WizardTypesInitially, PhotosInitially
<1>2. WizardTypeOK /\ Photographed /\ [WizardNext]_wizard_vars => (WizardTypeOK /\ Photographed)'
  BY WizardTypeSteps, PhotosSteps
<1>3. WizardTypeOK /\ Photographed => OneCarPerPhoto
  BY DEF WizardTypeOK, Photographed, PhotosOnce, OneCarPerPhoto
<1> QED BY <1>1, <1>2, <1>3, PTL DEF WizardSpec

\* A car is registered with the plate its own photo shows, or with one that was typed,
\* whatever the order in which the analyses of the photos answer.
THEOREM PlateOnPhoto == WizardSpec => []PlateIsOfPhoto
<1>1. WizardInit => WizardTypeOK /\ Photographed
  BY WizardTypesInitially, PhotosInitially
<1>2. WizardTypeOK /\ Photographed /\ [WizardNext]_wizard_vars => (WizardTypeOK /\ Photographed)'
  BY WizardTypeSteps, PhotosSteps
<1>3. WizardTypeOK /\ Photographed => PlateIsOfPhoto
  BY DEF WizardTypeOK, Photographed, PlatesRead, PlateIsOfPhoto
<1> QED BY <1>1, <1>2, <1>3, PTL DEF WizardSpec

\* The requests under way before a step and after it: those of lost go, or are answered,
\* and those of fresh come.
Moves(old, new, lost, fresh) ==
  /\ \A r \in old : r \in lost \/ r \in new
  /\ \A r \in new : r \in old \/ r \in fresh
  /\ fresh \subseteq new /\ lost \subseteq old

LEMMA UnderTyped ==
  ASSUME WizardTypeOK
  PROVE  \A r \in Under(requests) : r \in Request
BY WizardTypeFacts DEF Under

LEMMA MovesOfTrace ==
  ASSUME WizardTypeOK, NEW f, NEW fresh, Trace(requests, requests', f, {}, fresh), Keeps(requests, requests', f)
  PROVE  Moves(Under(requests), Under(requests'), {}, fresh)
<1>1. \A k \in DOMAIN requests' : requests'[k] \in fresh \/ (f[k] \in DOMAIN requests /\ requests'[k] = requests[f[k]])
  BY TraceFacts DEF Keeps
<1>2. \A i \in DOMAIN requests : \E k \in DOMAIN requests' : requests'[k] = requests[i]
  BY TraceFacts DEF Keeps
<1>3. \A r \in fresh : \E k \in DOMAIN requests' : requests'[k] = r
  BY DEF Trace
<1> QED BY <1>1, <1>2, <1>3 DEF Moves, Under
LEMMA MovesOfTaken ==
  ASSUME WizardTypeOK, NEW i \in DOMAIN requests, NEW f, NEW fresh,
         Trace(requests, requests', f, {i}, fresh), Keeps(requests, requests', f)
  PROVE  Moves(Under(requests), Under(requests'), {requests[i]}, fresh)
<1>1. \A k \in DOMAIN requests' : requests'[k] \in fresh \/ (f[k] \in DOMAIN requests /\ requests'[k] = requests[f[k]])
  BY TraceFacts DEF Keeps
<1>2. \A j \in DOMAIN requests : j = i \/ \E k \in DOMAIN requests' : requests'[k] = requests[j]
  BY TraceFacts DEF Keeps
<1>3. \A r \in fresh : \E k \in DOMAIN requests' : requests'[k] = r
  BY DEF Trace
<1> QED BY <1>1, <1>2, <1>3 DEF Moves, Under

LEMMA MovesAsked ==
  ASSUME WizardTypeOK, NEW r, r \in Request, Asks(<<r>>)
  PROVE  Moves(Under(requests), Under(requests'), {}, {r})
BY WizardTypeFacts, AskedOne, MovesOfTrace
LEMMA MovesTaken ==
  ASSUME WizardTypeOK, NEW i \in DOMAIN requests, requests' = Rest(i)
  PROVE  Moves(Under(requests), Under(requests'), {requests[i]}, {})
BY WizardTypeFacts, TakenOnly, MovesOfTaken
LEMMA MovesTakenForOne ==
  ASSUME WizardTypeOK, NEW i \in DOMAIN requests, NEW r, r \in Request, requests' = Append(Rest(i), r)
  PROVE  Moves(Under(requests), Under(requests'), {requests[i]}, {r})
BY WizardTypeFacts, TakenForOne, MovesOfTaken
LEMMA MovesTakenForLoads ==
  ASSUME WizardTypeOK, NEW i \in DOMAIN requests, NEW p, requests' = Rest(i) \o Loads(p)
  PROVE  Moves(Under(requests), Under(requests'), {requests[i]}, Under(Loads(p)))
BY WizardTypeFacts, TakenForLoads, MovesOfTaken
LEMMA MovesReplied ==
  ASSUME WizardTypeOK, NEW i \in DOMAIN requests, NEW c, Reply(i, c)
  PROVE  Moves(Under(requests), Under(requests'), {requests[i]}, {c})
<1>1. /\ DOMAIN requests' = DOMAIN requests /\ requests'[i] = c
      /\ \A k \in DOMAIN requests \ {i} : requests'[k] = requests[k]
  BY RepliedAt, WizardTypeFacts
<1> QED BY <1>1 DEF Moves, Under
LEMMA MovesNone ==
  ASSUME UNCHANGED requests
  PROVE  Moves(Under(requests), Under(requests'), {}, {})
BY DEF Moves, Under

\* The evidence that outlives a step.
LEMMA GoneStays ==
  ASSUME NEW lost, NEW fresh, Moves(Under(requests), Under(requests'), lost, fresh),
         \A r \in lost \cup fresh : r.kind # "delete" \/ r.answer # "ok"
  PROVE  Gone' = Gone
<1> DEFINE D(rs) == { s \in rs : s.kind = "delete" /\ s.answer = "ok" }
<1>1. D(Under(requests')) = D(Under(requests))
  BY DEF Moves
<1>2. Gone = { r.car : r \in D(Under(requests)) } /\ Gone' = { r.car : r \in D(Under(requests')) }
  BY DEF Gone
<1> HIDE DEF D
<1> QED BY <1>1, <1>2
LEMMA LoadingStays ==
  ASSUME NEW part, NEW lost, NEW fresh, Moves(Under(requests), Under(requests'), lost, fresh),
         \/ \A r \in lost : r.kind # part \/ r.answer = "failed"
         \/ \E r \in fresh : r.kind = part /\ r.answer # "failed"
  PROVE  Loading(part) => Loading(part)'
BY DEF Moves, Loading
LEMMA ReturningStays ==
  ASSUME NEW lost, NEW fresh, Moves(Under(requests), Under(requests'), lost, fresh),
         \/ \A r \in lost : r.kind # "me" \/ r.then \notin {"finish", "page"}
         \/ \E r \in fresh : r.kind = "me" /\ r.then \in {"finish", "page"}
  PROVE  Returning => Returning'
BY DEF Moves, Returning
LEMMA ToldStays ==
  ASSUME NEW lost, NEW fresh, Moves(Under(requests), Under(requests'), lost, fresh),
         \A r \in lost : r.kind # "mode" \/ r.answer # "ok"
  PROVE  Told => Told'
BY DEF Moves, Told
LEMMA ChangedStays ==
  ASSUME NEW lost, NEW fresh, Moves(Under(requests), Under(requests'), lost, fresh),
         \A r \in lost : r.kind \notin {"delete", "upload"} \/ r.answer # "ok"
  PROVE  Changed => Changed'
BY DEF Moves, Changed
LEMMA AddingStays ==
  ASSUME NEW lost, NEW fresh, Moves(Under(requests), Under(requests'), lost, fresh),
         \A r \in lost : r.kind # "create" \/ r.answer # "ok" \/ ~r.heard,
         wizard.open # "no" /\ wizard.created # 0 => wizard'.open # "no" /\ wizard'.created # 0
  PROVE  Adding => Adding'
BY DEF Moves, Adding
LEMMA PassingStays ==
  ASSUME NEW lost, NEW fresh, Moves(Under(requests), Under(requests'), lost, fresh),
         \A r \in lost : r.kind \notin Papers \/ r.answer # "ok" \/ ~r.heard \/ ~r.flag,
         wizard.open # "no" /\ wizard.passed # {} => wizard'.open # "no" /\ wizard'.passed # {}
  PROVE  Passing => Passing'
BY DEF Moves, Passing

\* Each part of the page, when only requests come and go.
LEMMA CarsStill ==
  ASSUME CarsComing, NEW lost, NEW fresh, Moves(Under(requests), Under(requests'), lost, fresh),
         UNCHANGED <<cars, garage>>, page'.cars = page.cars, "cars" \notin unsure' => "cars" \notin unsure,
         \A r \in lost \cup fresh : r.kind # "delete" \/ r.answer # "ok",
         \A r \in fresh : r.kind = "cars" /\ r.answer = "ok" => r.certs.cars = garage,
         Loading("cars") => Loading("cars")', Returning => Returning', Adding => Adding'
  PROVE  CarsComing'
<1>1. Gone' = Gone
  BY GoneStays
<1>2. Gone' \cap garage' = {} /\ Gone' \subseteq DOMAIN cars'
  BY <1>1 DEF CarsComing
<1>3. ASSUME "cars" \notin unsure'
      PROVE  /\ \A r \in Under(requests') : r.kind = "cars" /\ r.answer = "ok" => r.certs.cars = garage'
             /\ page'.cars \ Gone' = garage' \/ Loading("cars")' \/ Returning' \/ Adding'
  <2>1. \A r \in Under(requests) : r.kind = "cars" /\ r.answer = "ok" => r.certs.cars = garage
    BY <1>3 DEF CarsComing
  <2>2. page.cars \ Gone = garage \/ Loading("cars") \/ Returning \/ Adding
    BY <1>3 DEF CarsComing
  <2>3. \A r \in Under(requests') : r.kind = "cars" /\ r.answer = "ok" => r.certs.cars = garage'
    BY <2>1 DEF Moves
  <2> QED BY <1>1, <2>2, <2>3
<1> QED BY <1>2, <1>3 DEF CarsComing

LEMMA DriverStill ==
  ASSUME DriverComing, NEW lost, NEW fresh, Moves(Under(requests), Under(requests'), lost, fresh),
         UNCHANGED driver, page'.driver = page.driver, unsure \subseteq unsure' \cup {"cars"},
         \A r \in fresh : /\ r.kind \in {"me", "mode"} /\ r.answer = "ok" => r.flag = driver
                          /\ r.kind = "me" => r.answer # "failed"
                          /\ r.kind = "me" /\ r.then = "created" => Joining \/ Adding',
         Told => Told', Returning => Returning', Adding => Adding'
  PROVE  DriverComing'
<1>1. Joining' => Joining \/ Adding'
  BY DEF Moves, Joining
<1>2. ASSUME ~({"driver", "certs"} \subseteq unsure')
      PROVE  \A r \in Under(requests') :
               /\ r.kind \in {"me", "mode"} /\ r.answer = "ok" => r.flag = driver'
               /\ r.kind = "me" => r.answer # "failed"
  <2>1. ~({"driver", "certs"} \subseteq unsure)
    BY <1>2
  <2>2. \A r \in Under(requests) :
          /\ r.kind \in {"me", "mode"} /\ r.answer = "ok" => r.flag = driver
          /\ r.kind = "me" => r.answer # "failed"
    BY <2>1 DEF DriverComing
  <2> QED BY <2>2 DEF Moves
<1>3. ASSUME "driver" \notin unsure' \/ ("certs" \notin unsure' /\ Joining')
      PROVE  page'.driver = driver' \/ Told' \/ Returning' \/ Adding'
  <2>1. CASE Adding'
    BY <2>1
  <2>2. CASE ~Adding'
    <3>1. "driver" \notin unsure \/ ("certs" \notin unsure /\ Joining)
      BY <1>1, <1>3, <2>2
    <3> QED BY <3>1 DEF DriverComing
  <2> QED BY <2>1, <2>2
<1> QED BY <1>2, <1>3 DEF DriverComing

LEMMA CertsStill ==
  ASSUME CertsComing, NEW lost, NEW fresh, Moves(Under(requests), Under(requests'), lost, fresh),
         UNCHANGED <<docs, garage>>,
         page'.driver => page.driver /\ page'.certs = page.certs /\ page'.has_certs = page.has_certs,
         "certs" \notin unsure' => "certs" \notin unsure,
         \A r \in fresh : r.kind = "certs" /\ r.answer = "ok" => r.certs = CertsNow,
         Loading("certs") => Loading("certs")', Told => Told', Returning => Returning', Adding => Adding', Passing => Passing',
         Changed => Changed'
  PROVE  CertsComing'
<1>1. CertsNow' = CertsNow
  BY DEF CertsNow
<1>2. ASSUME "certs" \notin unsure'
      PROVE  /\ \A r \in Under(requests') : r.kind = "certs" /\ r.answer = "ok" => r.certs = CertsNow
             /\ page'.driver =>
                  \/ page'.has_certs /\ page'.certs = CertsNow
                  \/ Loading("certs")' \/ Told' \/ Returning' \/ Adding' \/ Passing' \/ Changed'
  <2>1. \A r \in Under(requests) : r.kind = "certs" /\ r.answer = "ok" => r.certs = CertsNow
    BY <1>2 DEF CertsComing
  <2>2. page.driver =>
          \/ page.has_certs /\ page.certs = CertsNow
          \/ Loading("certs") \/ Told \/ Returning \/ Adding \/ Passing \/ Changed
    BY <1>2 DEF CertsComing
  <2>3. \A r \in Under(requests') : r.kind = "certs" /\ r.answer = "ok" => r.certs = CertsNow
    BY <2>1 DEF Moves
  <2> QED BY <2>2, <2>3
<1> QED BY <1>1, <1>2 DEF CertsComing

\* Nothing that brings the page up to date; nothing that the page is not going to hear.
Idle(r) ==
  /\ r.kind \in {"cars", "certs"} => r.answer = "failed"
  /\ r.kind = "me" => r.then \notin {"finish", "page"}
  /\ r.kind \in {"mode", "delete", "upload"} => r.answer # "ok"
  /\ r.kind \in Papers \cup {"create"} => ~r.heard \/ r.answer # "ok" \/ (r.kind \in Papers /\ ~r.flag)
Unanswered(r) == r.answer = "none" /\ (r.kind = "me" => r.then # "created")
\* The wizard does not forget what it registered.
WizardRemembers ==
  wizard.open # "no" => /\ wizard'.open # "no"
                        /\ wizard.created # 0 => wizard'.created # 0
                        /\ wizard.passed # {} => wizard'.passed # {}

LEMMA AwaitedStill ==
  ASSUME Awaited, NEW lost, NEW fresh, Moves(Under(requests), Under(requests'), lost, fresh),
         \A r \in lost : Idle(r), \A r \in fresh : Unanswered(r), WizardRemembers,
         UNCHANGED <<cars, garage, docs, driver>>,
         page'.cars = page.cars, page'.driver = page.driver, page'.certs = page.certs, page'.has_certs = page.has_certs,
         unsure \subseteq unsure'
  PROVE  Awaited'
<1>1. CarsComing /\ DriverComing /\ CertsComing
  BY DEF Awaited
<1>2. Loading("cars") => Loading("cars")'
  BY LoadingStays DEF Idle
<1>3. Loading("certs") => Loading("certs")'
  BY LoadingStays DEF Idle
<1>4. Returning => Returning'
  BY ReturningStays DEF Idle
<1>5. Told => Told'
  BY ToldStays DEF Idle
<1>6. Changed => Changed'
  BY ChangedStays DEF Idle
<1>7. Adding => Adding'
  BY AddingStays DEF Idle, WizardRemembers, Papers
<1>8. Passing => Passing'
  BY PassingStays DEF Idle, WizardRemembers
<1>9. /\ \A r \in lost \cup fresh : r.kind # "delete" \/ r.answer # "ok"
      /\ \A r \in fresh : r.answer = "none" /\ (r.kind = "me" => r.then # "created")
  BY DEF Idle, Unanswered
<1>10. CarsComing'
  BY <1>1, <1>2, <1>4, <1>7, <1>9, CarsStill
<1>11. DriverComing'
  BY <1>1, <1>4, <1>5, <1>7, <1>9, DriverStill
<1>12. CertsComing'
  BY <1>1, <1>3, <1>4, <1>5, <1>6, <1>7, <1>8, <1>9, CertsStill
<1> QED BY <1>10, <1>11, <1>12 DEF Awaited

\* Of a page that knows it has missed something, nothing is promised.
LEMMA AwaitedUnsure ==
  ASSUME Awaited, UNCHANGED <<cars, garage>>, {"cars", "certs", "driver"} \subseteq unsure', Gone' \subseteq Gone
  PROVE  Awaited'
BY DEF Awaited, CarsComing, DriverComing, CertsComing

PageSame == UNCHANGED <<cars, garage, docs, driver>> /\ unsure' = unsure

LEMMA AwaitedIfAsked ==
  ASSUME WizardTypeOK, Awaited, NEW r, r \in Request, Asks(<<r>>), Unanswered(r), WizardRemembers, PageSame,
         page'.cars = page.cars, page'.driver = page.driver, page'.certs = page.certs, page'.has_certs = page.has_certs
  PROVE  Awaited'
<1>1. Moves(Under(requests), Under(requests'), {}, {r})
  BY MovesAsked
<1>2. \A s \in {r} : Unanswered(s)
  OBVIOUS
<1>3. \A s \in {} : Idle(s)
  OBVIOUS
<1> PICK none : none = {}
  OBVIOUS
<1>4. Moves(Under(requests), Under(requests'), none, {r}) /\ \A s \in none : Idle(s)
  BY <1>1, <1>3
<1> QED BY <1>2, <1>4, AwaitedStill DEF PageSame
LEMMA AwaitedIfTaken ==
  ASSUME WizardTypeOK, Awaited, NEW i \in DOMAIN requests, requests' = Rest(i), Idle(requests[i]), WizardRemembers, PageSame,
         page'.cars = page.cars, page'.driver = page.driver, page'.certs = page.certs, page'.has_certs = page.has_certs
  PROVE  Awaited'
<1> PICK none : none = {}
  OBVIOUS
<1>1. Moves(Under(requests), Under(requests'), {requests[i]}, none)
  BY MovesTaken
<1>2. \A s \in {requests[i]} : Idle(s)
  OBVIOUS
<1>3. \A s \in none : Unanswered(s)
  OBVIOUS
<1> QED BY <1>1, <1>2, <1>3, AwaitedStill DEF PageSame
LEMMA AwaitedIfIdle ==
  ASSUME WizardTypeOK, Awaited, UNCHANGED requests, WizardRemembers, PageSame,
         page'.cars = page.cars, page'.driver = page.driver, page'.certs = page.certs, page'.has_certs = page.has_certs
  PROVE  Awaited'
<1> PICK none : none = {}
  OBVIOUS
<1>1. Moves(Under(requests), Under(requests'), none, none)
  BY MovesNone
<1>2. \A s \in none : Idle(s) /\ Unanswered(s)
  OBVIOUS
<1> QED BY <1>1, <1>2, AwaitedStill DEF PageSame

LEMMA ToggleAwaited ==
  ASSUME WizardTypeOK, Awaited, Toggle
  PROVE  Awaited'
<1>1. PageSame
  BY DEF Toggle, PageSame
<1>2. PICK p \in Page : p = page
  BY WizardTypeFacts
<1>3. CASE ~page.driver /\ page.cars = {}
  <2>1. WizardRemembers
    BY DEF Toggle, WizardRemembers
  <2>2. UNCHANGED requests /\ page' = page
    BY <1>3 DEF Toggle
  <2> QED BY <1>1, <2>1, <2>2, AwaitedIfIdle
<1>4. CASE ~(~page.driver /\ page.cars = {})
  <2>1. PICK c \in Request : c = Plain("mode") /\ c.kind = "mode" /\ c.answer = "none"
    BY RequestTypes DEF Kinds
  <2>2. p.driver \in BOOLEAN
    BY DEF Page
  <2> DEFINE r == [c EXCEPT !.flag = ~p.driver]
  <2>3. r \in Request /\ r.kind = "mode" /\ r.answer = "none"
    BY <2>1, <2>2 DEF Request
  <2>4. Asks(<<r>>) /\ page' = [p EXCEPT !.saving = TRUE] /\ wizard' = wizard
    BY <1>2, <1>4, <2>1 DEF Toggle
  <2> HIDE DEF r
  <2>5. WizardRemembers /\ Unanswered(r)
    BY <2>3, <2>4 DEF WizardRemembers, Unanswered
  <2>6. page'.cars = p.cars /\ page'.driver = p.driver /\ page'.certs = p.certs /\ page'.has_certs = p.has_certs
    BY <2>4 DEF Page
  <2> QED BY <1>1, <1>2, <2>3, <2>4, <2>5, <2>6, AwaitedIfAsked
<1> QED BY <1>3, <1>4

LEMMA AddVehicleAwaited ==
  ASSUME WizardTypeOK, Awaited, AddVehicle
  PROVE  Awaited'
<1>1. WizardRemembers /\ PageSame /\ UNCHANGED <<requests, page>>
  BY DEF AddVehicle, WizardRemembers, PageSame
<1> QED BY <1>1, AwaitedIfIdle

LEMMA BackAwaited ==
  ASSUME WizardTypeOK, Awaited, Back
  PROVE  Awaited'
<1>1. PICK w \in Wizard : w = wizard
  BY WizardTypeFacts
<1>2. wizard'.open = w.open /\ wizard'.created = w.created /\ wizard'.passed = w.passed
  BY <1>1 DEF Back, Wizard
<1>3. WizardRemembers /\ PageSame /\ UNCHANGED <<requests, page>>
  BY <1>1, <1>2 DEF Back, WizardRemembers, PageSame
<1> QED BY <1>3, AwaitedIfIdle

LEMMA SubmitDocumentAwaited ==
  ASSUME WizardTypeOK, Awaited, SubmitDocument
  PROVE  Awaited'
<1>1. PICK w \in Wizard : w = wizard
  BY WizardTypeFacts
<1>2. w.step \in Papers
  BY <1>1 DEF SubmitDocument
<1>3. PICK c \in Request : c = Plain(w.step) /\ c.kind = w.step /\ c.answer = "none"
  BY <1>2, RequestTypes DEF Kinds
<1> DEFINE r == [c EXCEPT !.heard = TRUE]
<1>4. r \in Request /\ r.kind = w.step /\ r.answer = "none"
  BY <1>3 DEF Request
<1>5. Asks(<<r>>) /\ PageSame /\ page' = page
  BY <1>1, <1>3 DEF SubmitDocument, PageSame
<1> HIDE DEF r
<1>6. WizardRemembers
  <2>1. wizard' = [w EXCEPT !.sending = w.sending \cup {w.step}]
    BY <1>1 DEF SubmitDocument
  <2>2. wizard'.open = w.open /\ wizard'.created = w.created /\ wizard'.passed = w.passed
    BY <2>1 DEF Wizard
  <2> QED BY <1>1, <2>2 DEF WizardRemembers
<1>7. Unanswered(r)
  BY <1>2, <1>4 DEF Unanswered, Papers
<1> QED BY <1>4, <1>5, <1>6, <1>7, AwaitedIfAsked

LEMMA UploadAwaited ==
  ASSUME WizardTypeOK, Awaited, Upload
  PROVE  Awaited'
<1>1. PICK r \in Request : r = Plain("upload") /\ r.kind = "upload" /\ r.answer = "none"
  BY RequestTypes DEF Kinds
<1>2. Asks(<<r>>) /\ PageSame /\ page' = page /\ WizardRemembers /\ Unanswered(r)
  BY <1>1 DEF Upload, PageSame, WizardRemembers, Unanswered
<1> QED BY <1>1, <1>2, AwaitedIfAsked

LEMMA DeleteAwaited ==
  ASSUME WizardTypeOK, Awaited, NEW car \in CarIds, Delete(car)
  PROVE  Awaited'
<1>1. PICK c \in Request : c = Plain("delete") /\ c.kind = "delete" /\ c.answer = "none"
  BY RequestTypes DEF Kinds
<1> DEFINE r == [c EXCEPT !.car = car]
<1>2. r \in Request /\ r.kind = "delete" /\ r.answer = "none"
  <2>1. car \in 0..MaxCars
    BY Numbers DEF CarIds
  <2> QED BY <1>1, <2>1 DEF Request
<1>3. Asks(<<r>>)
  BY <1>1 DEF Delete
<1> HIDE DEF r
<1>4. PageSame /\ page' = page /\ WizardRemembers /\ Unanswered(r)
  BY <1>2 DEF Delete, PageSame, WizardRemembers, Unanswered
<1> QED BY <1>2, <1>3, <1>4, AwaitedIfAsked

LEMMA PickAwaited ==
  ASSUME WizardTypeOK, Awaited, Pick
  PROVE  Awaited'
<1>1. PICK w \in Wizard : w = wizard
  BY WizardTypeFacts
<1>2. PICK c \in Request : c = Plain("analyze") /\ c.kind = "analyze" /\ c.answer = "none"
  BY RequestTypes DEF Kinds
<1>3. w.shots + 1 \in Photos
  BY <1>1, Numbers DEF Pick, Photos, Wizard
<1> DEFINE r == [c EXCEPT !.heard = TRUE, !.photo = w.shots + 1]
<1>4. r \in Request /\ r.kind = "analyze" /\ r.answer = "none"
  BY <1>2, <1>3 DEF Request
<1>5. Asks(<<r>>) /\ PageSame /\ page' = page
  BY <1>1, <1>2 DEF Pick, PageSame
<1> HIDE DEF r
<1>6. WizardRemembers /\ Unanswered(r)
  <2>1. wizard' = [w EXCEPT !.shots = w.shots + 1, !.photo = w.shots + 1, !.ready = FALSE]
    BY <1>1 DEF Pick
  <2>2. wizard'.open = w.open /\ wizard'.created = w.created /\ wizard'.passed = w.passed
    BY <2>1 DEF Wizard
  <2> QED BY <1>1, <1>4, <2>2 DEF WizardRemembers, Unanswered
<1> QED BY <1>4, <1>5, <1>6, AwaitedIfAsked

LEMMA SubmitCarAwaited ==
  ASSUME WizardTypeOK, Awaited, SubmitCar
  PROVE  Awaited'
<1>1. PICK w \in Wizard : w = wizard
  BY WizardTypeFacts
<1>2. PICK c \in Request : c = Plain("create") /\ c.kind = "create" /\ c.answer = "none"
  BY RequestTypes DEF Kinds
<1>3. w.photo \in Photos /\ w.read \in Photos
  BY DEF Wizard
<1> DEFINE r == [c EXCEPT !.heard = TRUE, !.photo = w.photo, !.read = w.read]
<1>4. r \in Request /\ r.kind = "create" /\ r.answer = "none"
  BY <1>2, <1>3 DEF Request
<1>5. Asks(<<r>>) /\ PageSame /\ page' = page
  BY <1>1, <1>2 DEF SubmitCar, PageSame
<1> HIDE DEF r
<1>6. WizardRemembers /\ Unanswered(r)
  <2>1. wizard' = [w EXCEPT !.sending = w.sending \cup {"vehicle"}]
    BY <1>1 DEF SubmitCar
  <2>2. wizard'.open = w.open /\ wizard'.created = w.created /\ wizard'.passed = w.passed
    BY <2>1 DEF Wizard
  <2> QED BY <1>1, <1>4, <2>2 DEF WizardRemembers, Unanswered
<1> QED BY <1>4, <1>5, <1>6, AwaitedIfAsked

\* A dialog that is closed: its requests go on, unheard.
Silenced(old, new, fresh) ==
  \A r \in new : r \in fresh \/ \E s \in old : r = [s EXCEPT !.heard = FALSE]
LEMMA SilencedOfTrace ==
  ASSUME WizardTypeOK, NEW f, NEW gone, NEW fresh, Trace(requests, requests', f, gone, fresh), Silences(requests, requests', f)
  PROVE  Silenced(Under(requests), Under(requests'), fresh) /\ fresh \subseteq Under(requests')
<1>1. \A k \in DOMAIN requests' : requests'[k] \in fresh \/ (f[k] \in DOMAIN requests /\ requests'[k] = [requests[f[k]] EXCEPT !.heard = FALSE])
  BY TraceFacts DEF Silences
<1>2. \A r \in fresh : \E k \in DOMAIN requests' : requests'[k] = r
  BY DEF Trace
<1> QED BY <1>1, <1>2 DEF Silenced, Under
LEMMA SilentFields ==
  ASSUME NEW s \in Request, NEW r, r = [s EXCEPT !.heard = FALSE]
  PROVE  /\ r.kind = s.kind /\ r.then = s.then /\ r.answer = s.answer /\ r.flag = s.flag
         /\ r.car = s.car /\ r.certs = s.certs
BY DEF Request
LEMMA SilencedFields ==
  ASSUME WizardTypeOK, NEW fresh, Silenced(Under(requests), Under(requests'), fresh)
  PROVE  \A r \in Under(requests') : r \in fresh \/ \E s \in Under(requests) :
           /\ r.kind = s.kind /\ r.then = s.then /\ r.answer = s.answer /\ r.flag = s.flag
           /\ r.car = s.car /\ r.certs = s.certs
BY UnderTyped, SilentFields DEF Silenced

LEMMA SilencedTrace ==
  ASSUME WizardTypeOK, NEW f, NEW fresh, Silences(requests, requests', f),
         Trace(requests, requests', f, DOMAIN requests \ Kept(requests), fresh)
  PROVE  \A s \in Under(requests) : s.kind = "analyze" \/ \E r \in Under(requests') :
           /\ r.kind = s.kind /\ r.then = s.then /\ r.answer = s.answer /\ r.flag = s.flag
           /\ r.car = s.car /\ r.certs = s.certs
<1> SUFFICES ASSUME NEW i \in DOMAIN requests, requests[i].kind # "analyze"
             PROVE  \E r \in Under(requests') :
                      /\ r.kind = requests[i].kind /\ r.then = requests[i].then /\ r.answer = requests[i].answer
                      /\ r.flag = requests[i].flag /\ r.car = requests[i].car /\ r.certs = requests[i].certs
  BY DEF Under
<1>1. i \in DOMAIN requests \ (DOMAIN requests \ Kept(requests))
  BY DEF Kept
<1>2. PICK k \in DOMAIN requests' : requests'[k] = [requests[i] EXCEPT !.heard = FALSE]
  BY <1>1, TraceFacts DEF Silences
<1>3. requests'[k] \in Under(requests') /\ requests[i] \in Request
  BY WizardTypeFacts DEF Under
<1> QED BY <1>2, <1>3, SilentFields

LEMMA CloseAwaited ==
  ASSUME WizardTypeOK, Awaited, Close
  PROVE  Awaited'
<1>1. << >> \in Seq(Request) /\ Under(<< >>) = {}
  BY DEF Under
<1>2. PICK f : Trace(requests, requests', f, DOMAIN requests \ Kept(requests), {}) /\ Silences(requests, requests', f)
  BY <1>1, ClosedWith, WizardTypeFacts DEF Close
<1>3. PICK none : none = {} /\ Silenced(Under(requests), Under(requests'), none)
  BY <1>2, SilencedOfTrace
<1>4. \A r \in Under(requests') : \E s \in Under(requests) :
        /\ r.kind = s.kind /\ r.then = s.then /\ r.answer = s.answer /\ r.flag = s.flag
        /\ r.car = s.car /\ r.certs = s.certs
  BY <1>3, SilencedFields
<1>5. \A s \in Under(requests) : s.kind = "analyze" \/ \E r \in Under(requests') :
        /\ r.kind = s.kind /\ r.then = s.then /\ r.answer = s.answer /\ r.flag = s.flag
        /\ r.car = s.car /\ r.certs = s.certs
  BY <1>2, SilencedTrace
<1>6. UNCHANGED <<cars, garage, docs, driver, page>>
  BY DEF Close
<1>7. Gone' = Gone
  <2>1. \A x : x \in Gone' => x \in Gone
    BY <1>4 DEF Gone
  <2>2. \A x : x \in Gone => x \in Gone'
    BY <1>5 DEF Gone
  <2> QED BY <2>1, <2>2
<1>8. CASE {"cars", "certs", "driver"} \subseteq unsure'
  BY <1>6, <1>7, <1>8, AwaitedUnsure
<1>9. CASE ~({"cars", "certs", "driver"} \subseteq unsure')
  <2>1. unsure' = unsure /\ wizard.created = 0 /\ wizard.passed = {} /\ \A kind \in Papers \cup {"create"} : ~Waiting(kind)
    BY <1>9 DEF Close
  <2>2. ~Adding /\ ~Passing
    BY <2>1 DEF Adding, Passing, Waiting, Under
  <2>3. (Loading("cars") => Loading("cars")') /\ (Loading("certs") => Loading("certs")')
    BY <1>5 DEF Loading
  <2>4. (Returning => Returning') /\ (Told => Told') /\ (Changed => Changed') /\ (Joining' => Joining)
    BY <1>4, <1>5 DEF Returning, Told, Changed, Joining
  <2>5. CarsComing'
    BY <1>4, <1>6, <1>7, <2>1, <2>2, <2>3, <2>4 DEF Awaited, CarsComing
  <2>6. DriverComing'
    <3>1. ASSUME ~({"driver", "certs"} \subseteq unsure')
          PROVE  \A r \in Under(requests') :
                   /\ r.kind \in {"me", "mode"} /\ r.answer = "ok" => r.flag = driver'
                   /\ r.kind = "me" => r.answer # "failed"
      BY <1>4, <1>6, <2>1, <3>1 DEF Awaited, DriverComing
    <3>2. "driver" \notin unsure' \/ ("certs" \notin unsure' /\ Joining') => page'.driver = driver' \/ Told' \/ Returning'
      BY <1>6, <2>1, <2>2, <2>4 DEF Awaited, DriverComing
    <3> QED BY <3>1, <3>2 DEF DriverComing
  <2>7. CertsComing'
    <3>1. CertsNow' = CertsNow
      BY <1>6 DEF CertsNow
    <3>2. "certs" \notin unsure' => \A r \in Under(requests') : r.kind = "certs" /\ r.answer = "ok" => r.certs = CertsNow
      BY <1>4, <2>1 DEF Awaited, CertsComing
    <3>3. "certs" \notin unsure' /\ page'.driver =>
            (page'.has_certs /\ page'.certs = CertsNow) \/ Loading("certs")' \/ Told' \/ Returning' \/ Changed'
      BY <1>6, <2>1, <2>2, <2>3, <2>4 DEF Awaited, CertsComing
    <3> QED BY <3>1, <3>2, <3>3 DEF CertsComing
  <2> QED BY <2>5, <2>6, <2>7 DEF Awaited
<1> QED BY <1>8, <1>9

\* A page that is about to be told everything.
LEMMA AwaitedReturning ==
  ASSUME WizardTypeOK, Awaited, UNCHANGED <<cars, garage, docs, driver, unsure>>, Returning' \/ Adding',
         NEW fresh, \A r \in fresh : r.answer = "none",
         \A r \in Under(requests') : r \in fresh \/ \E s \in Under(requests) :
           /\ r.kind = s.kind /\ r.then = s.then /\ r.answer = s.answer /\ r.flag = s.flag
           /\ r.car = s.car /\ r.certs = s.certs
  PROVE  Awaited'
<1>1. Gone' \subseteq Gone
  BY DEF Gone
<1>2. CarsComing'
  <2>1. Gone' \cap garage' = {} /\ Gone' \subseteq DOMAIN cars'
    BY <1>1 DEF Awaited, CarsComing
  <2>2. "cars" \notin unsure' => \A r \in Under(requests') : r.kind = "cars" /\ r.answer = "ok" => r.certs.cars = garage'
    BY DEF Awaited, CarsComing
  <2> QED BY <2>1, <2>2 DEF CarsComing
<1>3. DriverComing'
  <2>1. ASSUME ~({"driver", "certs"} \subseteq unsure')
        PROVE  \A r \in Under(requests') :
                 /\ r.kind \in {"me", "mode"} /\ r.answer = "ok" => r.flag = driver'
                 /\ r.kind = "me" => r.answer # "failed"
    BY <2>1 DEF Awaited, DriverComing
  <2> QED BY <2>1 DEF DriverComing
<1>4. CertsComing'
  <2>1. CertsNow' = CertsNow
    BY DEF CertsNow
  <2>2. "certs" \notin unsure' => \A r \in Under(requests') : r.kind = "certs" /\ r.answer = "ok" => r.certs = CertsNow
    BY DEF Awaited, CertsComing
  <2> QED BY <2>1, <2>2 DEF CertsComing
<1> QED BY <1>2, <1>3, <1>4 DEF Awaited

LEMMA NextStepAwaited ==
  ASSUME WizardTypeOK, Awaited, NextStep
  PROVE  Awaited'
<1>1. PICK w \in Wizard : w = wizard
  BY WizardTypeFacts
<1>2. PageSame /\ page' = page
  BY DEF NextStep, PageSame
<1>3. CASE wizard' = [wizard EXCEPT !.step = "vehicle"] /\ requests' = requests
  <2>1. wizard'.open = w.open /\ wizard'.created = w.created /\ wizard'.passed = w.passed
    BY <1>1, <1>3 DEF Wizard
  <2>2. WizardRemembers
    BY <1>1, <2>1 DEF WizardRemembers
  <2> QED BY <1>2, <1>3, <2>2, AwaitedIfIdle
<1>4. CASE Asks(<<Me("finish")>>) /\ wizard' = wizard
  <2>1. WizardRemembers
    BY <1>4 DEF WizardRemembers
  <2>2. Me("finish") \in Request /\ Unanswered(Me("finish"))
    BY RequestTypes DEF Unanswered
  <2> QED BY <1>2, <1>4, <2>1, <2>2, AwaitedIfAsked
<1>5. CASE Closing(requests, <<Me("page")>>) /\ wizard' = Dialog("no")
  <2>1. PICK f : Trace(requests, requests', f, DOMAIN requests \ Kept(requests), {Me("page")}) /\ Silences(requests, requests', f)
    BY <1>5, ClosedWith, WizardTypeFacts, PageAsked, OneUnder
  <2>2. Silenced(Under(requests), Under(requests'), {Me("page")}) /\ Me("page") \in Under(requests')
    BY <2>1, SilencedOfTrace
  <2>3. Returning' /\ \A r \in {Me("page")} : r.answer = "none"
    <3>1. Me("page").kind = "me" /\ Me("page").then = "page" /\ Me("page").answer = "none"
      BY RequestTypes
    <3> QED BY <2>2, <3>1 DEF Returning
  <2>4. UNCHANGED <<cars, garage, docs, driver, unsure>>
    BY <1>2 DEF PageSame
  <2> QED BY <2>2, <2>3, <2>4, SilencedFields, AwaitedReturning
<1> QED BY <1>3, <1>4, <1>5 DEF NextStep

LEMMA LoseAwaited ==
  ASSUME WizardTypeOK, Awaited, NEW i \in DOMAIN requests, Lose(i)
  PROVE  Awaited'
<1>1. PICK c \in Request : c = requests[i]
  BY WizardTypeFacts
<1> DEFINE r == [c EXCEPT !.answer = "failed"]
<1>2. r.answer = "failed"
  BY DEF Request
<1>3. Moves(Under(requests), Under(requests'), {c}, {r})
  <2>1. Reply(i, r)
    BY <1>1 DEF Lose
  <2> HIDE DEF r
  <2> QED BY <1>1, <2>1, MovesReplied
<1> HIDE DEF r
<1>4. Gone' \subseteq Gone
  BY <1>2, <1>3 DEF Gone, Moves
<1>5. UNCHANGED <<cars, garage>> /\ {"cars", "certs", "driver"} \subseteq unsure'
  BY DEF Lose
<1> QED BY <1>4, <1>5, AwaitedUnsure

LEMMA ServedRead ==
  ASSUME WizardTypeOK, NEW i \in DOMAIN requests, ServeRead(i)
  PROVE  \E r : /\ Moves(Under(requests), Under(requests'), {requests[i]}, {r})
                /\ r.kind = requests[i].kind /\ r.then = requests[i].then /\ r.answer = "ok"
                /\ r.kind \in {"cars", "certs"} => r.certs = CertsNow
                /\ r.kind = "me" => r.flag = driver
<1>1. PICK c \in Request : c = requests[i]
  BY WizardTypeFacts
<1> DEFINE Good(r) == /\ Moves(Under(requests), Under(requests'), {requests[i]}, {r})
                      /\ r.kind = requests[i].kind /\ r.then = requests[i].then /\ r.answer = "ok"
                      /\ r.kind \in {"cars", "certs"} => r.certs = CertsNow
                      /\ r.kind = "me" => r.flag = driver
<1>2. CASE c.kind \in {"cars", "certs"} /\ Reply(i, [c EXCEPT !.answer = "ok", !.certs = CertsNow])
  <2> DEFINE r == [c EXCEPT !.answer = "ok", !.certs = CertsNow]
  <2>1. r.kind = c.kind /\ r.then = c.then /\ r.answer = "ok" /\ r.certs = CertsNow
    BY DEF Request
  <2>2. Reply(i, r)
    BY <1>2
  <2> HIDE DEF r
  <2>3. Good(r)
    BY <1>1, <1>2, <2>1, <2>2, MovesReplied
  <2> QED BY <2>3
<1>3. CASE c.kind = "me" /\ Reply(i, [c EXCEPT !.answer = "ok", !.flag = driver])
  <2> DEFINE r == [c EXCEPT !.answer = "ok", !.flag = driver]
  <2>1. r.kind = c.kind /\ r.then = c.then /\ r.answer = "ok" /\ r.flag = driver
    BY DEF Request
  <2>2. Reply(i, r)
    BY <1>3
  <2> HIDE DEF r
  <2>3. Good(r)
    BY <1>1, <1>3, <2>1, <2>2, MovesReplied
  <2> QED BY <2>3
<1>4. CASE c.kind = "analyze" /\ Reply(i, [c EXCEPT !.answer = "ok", !.read = c.photo])
  <2> DEFINE r == [c EXCEPT !.answer = "ok", !.read = c.photo]
  <2>1. r.kind = c.kind /\ r.then = c.then /\ r.answer = "ok"
    BY DEF Request
  <2>2. Reply(i, r)
    BY <1>4
  <2> HIDE DEF r
  <2>3. Good(r)
    BY <1>1, <1>4, <2>1, <2>2, MovesReplied
  <2> QED BY <2>3
<1>5. CASE c.kind = "analyze" /\ Reply(i, [c EXCEPT !.answer = "ok"])
  <2> DEFINE r == [c EXCEPT !.answer = "ok"]
  <2>1. r.kind = c.kind /\ r.then = c.then /\ r.answer = "ok"
    BY DEF Request
  <2>2. Reply(i, r)
    BY <1>5
  <2> HIDE DEF r
  <2>3. Good(r)
    BY <1>1, <1>5, <2>1, <2>2, MovesReplied
  <2> QED BY <2>3
<1> QED BY <1>1, <1>2, <1>3, <1>4, <1>5 DEF ServeRead

LEMMA ServeReadAwaited ==
  ASSUME WizardTypeOK, Awaited, NEW i \in DOMAIN requests, ServeRead(i)
  PROVE  Awaited'
<1>1. PICK c \in Request : c = requests[i]
  BY WizardTypeFacts
<1>2. PICK r : /\ Moves(Under(requests), Under(requests'), {c}, {r})
               /\ r.kind = c.kind /\ r.then = c.then /\ r.answer = "ok"
               /\ r.kind \in {"cars", "certs"} => r.certs = CertsNow
               /\ r.kind = "me" => r.flag = driver
  BY <1>1, ServedRead
<1>3. c.kind \in {"cars", "certs", "me", "analyze"} /\ c \in Under(requests)
  BY <1>1 DEF ServeRead, Under
<1>4. UNCHANGED <<cars, garage, docs, driver, page, wizard, unsure>>
  BY DEF ServeRead
<1>5. Loading("cars") => Loading("cars")'
  BY <1>2, LoadingStays
<1>6. Loading("certs") => Loading("certs")'
  BY <1>2, LoadingStays
<1>7. Returning => Returning'
  BY <1>2, ReturningStays
<1>8. Told => Told'
  BY <1>2, <1>3, ToldStays
<1>9. Changed => Changed'
  BY <1>2, <1>3, ChangedStays
<1>10. Adding => Adding'
  BY <1>2, <1>3, <1>4, AddingStays
<1>11. Passing => Passing'
  BY <1>2, <1>3, <1>4, PassingStays DEF Papers
<1>12. CarsComing'
  <2>1. \A s \in {c} \cup {r} : s.kind # "delete" \/ s.answer # "ok"
    BY <1>2, <1>3
  <2>2. \A s \in {r} : s.kind = "cars" /\ s.answer = "ok" => s.certs.cars = garage
    BY <1>2 DEF CertsNow
  <2> QED BY <1>2, <1>4, <1>5, <1>7, <1>10, <2>1, <2>2, CarsStill DEF Awaited
<1>13. DriverComing'
  <2>1. \A s \in {r} : /\ s.kind \in {"me", "mode"} /\ s.answer = "ok" => s.flag = driver
                       /\ s.kind = "me" => s.answer # "failed"
                       /\ s.kind = "me" /\ s.then = "created" => Joining \/ Adding'
    BY <1>2, <1>3 DEF Joining
  <2> QED BY <1>2, <1>4, <1>7, <1>8, <1>10, <2>1, DriverStill DEF Awaited
<1>14. CertsComing'
  <2>1. \A s \in {r} : s.kind = "certs" /\ s.answer = "ok" => s.certs = CertsNow
    BY <1>2
  <2> QED BY <1>2, <1>4, <1>6, <1>7, <1>8, <1>9, <1>10, <1>11, <2>1, CertsStill DEF Awaited
<1> QED BY <1>12, <1>13, <1>14 DEF Awaited

\* The parts that are unsure once something has changed: what an older load is still to bring.
LEMMA OlderLoadsUnsure ==
  ASSUME "cars" \notin unsure', OlderLoads \subseteq unsure'
  PROVE  \A r \in Under(requests) : r.kind = "cars" => r.answer # "ok"
BY DEF OlderLoads, Under
LEMMA OlderCertsUnsure ==
  ASSUME "certs" \notin unsure', OlderLoads \subseteq unsure'
  PROVE  \A r \in Under(requests) : r.kind = "certs" => r.answer # "ok"
BY DEF OlderLoads, Under

\* A car is registered: the dialog hears of it, or the page is unsure.
LEMMA ServeCreateAwaited ==
  ASSUME WizardTypeOK, Photographed, Awaited, NEW i \in DOMAIN requests, ServeCreate(i)
  PROVE  Awaited'
<1>1. PICK c \in Request : c = requests[i]
  BY WizardTypeFacts
<1> DEFINE r == [c EXCEPT !.answer = "ok", !.car = Len(cars'), !.flag = ~driver]
<1>2. r.kind = "create" /\ r.heard = c.heard /\ r.answer = "ok" /\ c.kind = "create" /\ c.answer = "none"
  BY <1>1 DEF ServeCreate, Request
<1>3. Moves(Under(requests), Under(requests'), {c}, {r})
  <2>1. Reply(i, r)
    BY <1>1 DEF ServeCreate
  <2> HIDE DEF r
  <2> QED BY <1>1, <2>1, MovesReplied
<1> HIDE DEF r
<1>4. UNCHANGED <<docs, page, wizard>> /\ driver' = TRUE /\ garage' = garage \cup {Len(cars')}
  BY DEF ServeCreate
<1>5. DOMAIN cars' = DOMAIN cars \cup {Len(cars')} /\ Len(cars') \notin DOMAIN cars
  <2>1. cars \in Seq([photo : Photos, read : Photos]) /\ [photo |-> c.photo, read |-> c.read] \in [photo : Photos, read : Photos]
    BY DEF WizardTypeOK, Request
  <2>2. cars' = Append(cars, [photo |-> c.photo, read |-> c.read])
    BY <1>1 DEF ServeCreate
  <2>3. Len(cars') = Len(cars) + 1 /\ DOMAIN cars' = DOMAIN cars \cup {Len(cars) + 1}
    BY <2>1, <2>2, OneAppended
  <2>4. DOMAIN cars = 1..Len(cars) /\ Len(cars) \in Nat
    BY <2>1
  <2> QED BY <2>3, <2>4
<1>6. unsure \subseteq unsure' /\ OlderLoads \subseteq unsure' /\ OlderMode(i, TRUE) \subseteq unsure' /\ Missed(c) \subseteq unsure'
  BY <1>1 DEF ServeCreate
<1>7. Gone' = Gone
  BY <1>2, <1>3, GoneStays
<1>8. Gone' \cap garage' = {} /\ Gone' \subseteq DOMAIN cars'
  BY <1>4, <1>5, <1>7 DEF Awaited, CarsComing
<1>9. r \in Under(requests')
  BY <1>3 DEF Moves
<1>10. CASE {"cars", "certs", "driver"} \subseteq unsure'
  BY <1>8, <1>10 DEF Awaited, CarsComing, DriverComing, CertsComing
<1>11. CASE ~({"cars", "certs", "driver"} \subseteq unsure')
  <2>1. c.heard
    BY <1>2, <1>6, <1>11 DEF Missed
  <2>2. Adding'
    BY <1>2, <1>9, <2>1 DEF Adding
  <2>3. CarsComing'
    <3>1. "cars" \notin unsure' => \A s \in Under(requests') : s.kind = "cars" => s.answer # "ok"
      BY <1>2, <1>3, <1>6, OlderLoadsUnsure DEF Moves
    <3> QED BY <1>8, <2>2, <3>1 DEF CarsComing
  <2>4. DriverComing'
    <3>1. ASSUME ~({"driver", "certs"} \subseteq unsure'), NEW s \in Under(requests')
          PROVE  /\ s.kind \in {"me", "mode"} /\ s.answer = "ok" => s.flag = TRUE
                 /\ s.kind = "me" => s.answer # "failed"
      <4>1. CASE s = r
        BY <1>2, <4>1
      <4>2. CASE s # r
        <5>1. PICK j \in DOMAIN requests : requests[j] = s
          BY <1>3, <4>2 DEF Moves, Under
        <5>2. s \in Under(requests)
          BY <5>1 DEF Under
        <5>3. /\ s.kind \in {"me", "mode"} /\ s.answer = "ok" => s.flag = driver
              /\ s.kind = "me" => s.answer # "failed"
          BY <1>6, <3>1, <5>2 DEF Awaited, DriverComing
        <5>4. ASSUME s.kind \in {"me", "mode"}, s.answer = "ok", s.flag # TRUE
              PROVE  FALSE
          <6>1. TRUE # driver
            BY <5>3, <5>4
          <6>2. j # i
            BY <1>1, <1>2, <5>1, <5>4
          <6>3. {"driver", "certs"} \subseteq OlderMode(i, TRUE)
            BY <5>1, <5>4, <6>1, <6>2 DEF OlderMode
          <6> QED BY <1>6, <3>1, <6>3
        <5> QED BY <5>3, <5>4
      <4> QED BY <4>1, <4>2
    <3> QED BY <1>4, <2>2, <3>1 DEF DriverComing
  <2>5. CertsComing'
    <3>1. "certs" \notin unsure' => \A s \in Under(requests') : s.kind = "certs" => s.answer # "ok"
      BY <1>2, <1>3, <1>6, OlderCertsUnsure DEF Moves
    <3> QED BY <2>2, <3>1 DEF CertsComing
  <2> QED BY <2>3, <2>4, <2>5 DEF Awaited
<1> QED BY <1>10, <1>11

\* A document is handed in.
LEMMA ServeDocumentAwaited ==
  ASSUME WizardTypeOK, Awaited, NEW i \in DOMAIN requests, ServeDocument(i)
  PROVE  Awaited'
<1>1. PICK c \in Request : c = requests[i]
  BY WizardTypeFacts
<1>2. PICK ok \in BOOLEAN : /\ Reply(i, [c EXCEPT !.answer = "ok", !.flag = ok])
                            /\ unsure' = unsure \cup OlderLoads \cup Missed(c) \cup Rejected(c, ok)
  BY <1>1 DEF ServeDocument
<1> DEFINE r == [c EXCEPT !.answer = "ok", !.flag = ok]
<1>3. /\ r.kind = c.kind /\ r.heard = c.heard /\ r.answer = "ok" /\ r.flag = ok
      /\ c.kind \in Papers \cup {"upload"} /\ c.answer = "none"
  BY <1>1 DEF ServeDocument, Request
<1>4. Moves(Under(requests), Under(requests'), {c}, {r})
  <2>1. Reply(i, r)
    BY <1>2
  <2> HIDE DEF r
  <2> QED BY <1>1, <2>1, MovesReplied
<1> HIDE DEF r
<1>5. UNCHANGED <<cars, garage, driver, page, wizard>>
  BY DEF ServeDocument
<1>6. /\ unsure \subseteq unsure' /\ OlderLoads \subseteq unsure'
      /\ Missed(c) \subseteq unsure' /\ Rejected(c, ok) \subseteq unsure'
  BY <1>2
<1>7. r \in Under(requests')
  BY <1>4 DEF Moves
<1>8. c.kind \in {"license", "insurance", "upload"}
  BY <1>3 DEF Papers
<1>9. (Loading("cars") => Loading("cars")') /\ (Returning => Returning') /\ (Told => Told')
  BY <1>4, <1>8, LoadingStays, ReturningStays, ToldStays
<1>10. Adding => Adding'
  BY <1>4, <1>5, <1>8, AddingStays
<1>11. CarsComing'
  <2>1. \A s \in {c} \cup {r} : s.kind # "delete" \/ s.answer # "ok"
    BY <1>3, <1>8
  <2>2. \A s \in {r} : s.kind = "cars" /\ s.answer = "ok" => s.certs.cars = garage
    BY <1>3, <1>8
  <2> QED BY <1>4, <1>5, <1>6, <1>9, <1>10, <2>1, <2>2, CarsStill DEF Awaited
<1>12. DriverComing'
  <2>1. \A s \in {r} : s.kind \notin {"me", "mode"}
    BY <1>3, <1>8
  <2>2. \A s \in {r} : /\ s.kind \in {"me", "mode"} /\ s.answer = "ok" => s.flag = driver
                       /\ s.kind = "me" => s.answer # "failed"
                       /\ s.kind = "me" /\ s.then = "created" => Joining \/ Adding'
    BY <2>1
  <2> QED BY <1>4, <1>5, <1>6, <1>9, <1>10, <2>2, DriverStill DEF Awaited
<1>13. CertsComing'
  <2> SUFFICES ASSUME "certs" \notin unsure'
               PROVE  /\ \A s \in Under(requests') : s.kind = "certs" => s.answer # "ok"
                      /\ Changed' \/ Passing'
    BY DEF CertsComing
  <2>1. \A s \in Under(requests') : s.kind = "certs" => s.answer # "ok"
    BY <1>3, <1>4, <1>6, <1>8, OlderCertsUnsure DEF Moves
  <2>2. ASSUME c.kind = "upload" PROVE Changed'
    BY <1>3, <1>7, <2>2 DEF Changed
  <2>3. ASSUME c.kind # "upload" PROVE Passing'
    <3>1. c.heard /\ ok
      BY <1>6, <2>3 DEF Missed, Rejected
    <3> QED BY <1>3, <1>7, <2>3, <3>1 DEF Passing
  <2> QED BY <2>1, <2>2, <2>3
<1> QED BY <1>11, <1>12, <1>13 DEF Awaited

\* A car is deleted.
LEMMA ServeDeleteAwaited ==
  ASSUME WizardTypeOK, Awaited, NEW i \in DOMAIN requests, ServeDelete(i)
  PROVE  Awaited'
<1>1. PICK c \in Request : c = requests[i]
  BY WizardTypeFacts
<1> DEFINE r == [c EXCEPT !.answer = IF c.car \in garage THEN "ok" ELSE "failed"]
<1>2. /\ r.kind = "delete" /\ r.car = c.car /\ c.kind = "delete" /\ c.answer = "none"
      /\ r.answer = IF c.car \in garage THEN "ok" ELSE "failed"
  BY <1>1 DEF ServeDelete, Request
<1>3. Moves(Under(requests), Under(requests'), {c}, {r})
  <2>1. Reply(i, r)
    BY <1>1 DEF ServeDelete
  <2> HIDE DEF r
  <2> QED BY <1>1, <2>1, MovesReplied
<1> HIDE DEF r
<1>4. UNCHANGED <<cars, docs, driver, page, wizard>> /\ garage' = garage \ {c.car} /\ unsure' = unsure \cup OlderLoads
  BY <1>1 DEF ServeDelete
<1>5. (Loading("cars") => Loading("cars")') /\ (Loading("certs") => Loading("certs")') /\ (Returning => Returning') /\ (Told => Told')
  BY <1>2, <1>3, LoadingStays, ReturningStays, ToldStays
<1>6. Adding => Adding'
  BY <1>2, <1>3, <1>4, AddingStays
<1>7. Passing => Passing'
  BY <1>2, <1>3, <1>4, PassingStays DEF Papers
<1>8. Changed => Changed'
  BY <1>2, <1>3, ChangedStays
<1>9. r \in Under(requests')
  BY <1>3 DEF Moves
<1>10. Gone' = IF c.car \in garage THEN Gone \cup {c.car} ELSE Gone
  <2>1. \A x : x \in Gone => x \in Gone'
    BY <1>2, <1>3 DEF Gone, Moves
  <2>2. \A x : x \in Gone' => x \in Gone \/ (x = c.car /\ c.car \in garage)
    BY <1>2, <1>3 DEF Gone, Moves
  <2>3. c.car \in garage => c.car \in Gone'
    BY <1>2, <1>9 DEF Gone
  <2> QED BY <2>1, <2>2, <2>3
<1>11. DriverComing'
  <2>1. \A s \in {r} : /\ s.kind \in {"me", "mode"} /\ s.answer = "ok" => s.flag = driver
                       /\ s.kind = "me" => s.answer # "failed"
                       /\ s.kind = "me" /\ s.then = "created" => Joining \/ Adding'
    BY <1>2
  <2> QED BY <1>3, <1>4, <1>5, <1>6, <2>1, DriverStill DEF Awaited
<1>12. CarsComing'
  <2>1. garage \subseteq DOMAIN cars
    BY DEF WizardTypeOK
  <2>2. Gone' \cap garage' = {} /\ Gone' \subseteq DOMAIN cars'
    BY <1>4, <1>10, <2>1 DEF Awaited, CarsComing
  <2>3. ASSUME "cars" \notin unsure'
        PROVE  /\ \A s \in Under(requests') : s.kind = "cars" => s.answer # "ok"
               /\ page'.cars \ Gone' = garage' \/ Loading("cars")' \/ Returning' \/ Adding'
    <3>1. \A s \in Under(requests') : s.kind = "cars" => s.answer # "ok"
      BY <1>2, <1>3, <1>4, <2>3, OlderLoadsUnsure DEF Moves
    <3>2. page.cars \ Gone = garage \/ Loading("cars") \/ Returning \/ Adding
      BY <1>4, <2>3 DEF Awaited, CarsComing
    <3>3. page.cars \ Gone = garage => page.cars \ Gone' = garage'
      BY <1>4, <1>10
    <3> QED BY <1>4, <1>5, <1>6, <3>1, <3>2, <3>3
  <2> QED BY <2>2, <2>3 DEF CarsComing
<1>13. CertsComing'
  <2> SUFFICES ASSUME "certs" \notin unsure'
               PROVE  /\ \A s \in Under(requests') : s.kind = "certs" => s.answer # "ok"
                      /\ page'.driver =>
                           \/ page'.has_certs /\ page'.certs = CertsNow'
                           \/ Loading("certs")' \/ Told' \/ Returning' \/ Adding' \/ Passing' \/ Changed'
    BY DEF CertsComing
  <2>1. \A s \in Under(requests') : s.kind = "certs" => s.answer # "ok"
    BY <1>2, <1>3, <1>4, OlderCertsUnsure DEF Moves
  <2>2. CASE c.car \in garage
    BY <1>2, <1>9, <2>1, <2>2 DEF Changed
  <2>3. CASE c.car \notin garage
    <3>1. CertsNow' = CertsNow
      BY <1>4, <2>3 DEF CertsNow
    <3>2. page.driver =>
            \/ page.has_certs /\ page.certs = CertsNow
            \/ Loading("certs") \/ Told \/ Returning \/ Adding \/ Passing \/ Changed
      BY <1>4 DEF Awaited, CertsComing
    <3> QED BY <1>4, <1>5, <1>6, <1>7, <1>8, <2>1, <3>1, <3>2
  <2> QED BY <2>2, <2>3
<1> QED BY <1>11, <1>12, <1>13 DEF Awaited

\* The mode is set, or refused.
LEMMA ServeModeAwaited ==
  ASSUME WizardTypeOK, Awaited, NEW i \in DOMAIN requests, ServeMode(i)
  PROVE  Awaited'
<1>1. PICK c \in Request : c = requests[i]
  BY WizardTypeFacts
<1> DEFINE ok == c.flag => garage # {} \/ driver
           r == [c EXCEPT !.answer = IF ok THEN "ok" ELSE "failed"]
<1>2. /\ r.kind = "mode" /\ r.flag = c.flag /\ c.kind = "mode" /\ c.answer = "none"
      /\ r.answer = IF ok THEN "ok" ELSE "failed"
  BY <1>1 DEF ServeMode, Request
<1>3. /\ UNCHANGED <<cars, garage, docs, page, wizard>> /\ unsure' = unsure \cup OlderMode(i, driver')
      /\ driver' = IF ok THEN c.flag ELSE driver
      /\ Reply(i, r)
  BY <1>1 DEF ServeMode
<1> HIDE DEF r, ok
<1>4. Moves(Under(requests), Under(requests'), {c}, {r})
  BY <1>1, <1>3, MovesReplied
<1>5. (Loading("cars") => Loading("cars")') /\ (Loading("certs") => Loading("certs")') /\ (Returning => Returning') /\ (Told => Told')
  BY <1>2, <1>4, LoadingStays, ReturningStays, ToldStays
<1>6. Adding => Adding'
  BY <1>2, <1>3, <1>4, AddingStays
<1>7. Passing => Passing'
  BY <1>2, <1>3, <1>4, PassingStays DEF Papers
<1>8. Changed => Changed'
  BY <1>2, <1>4, ChangedStays
<1>9. r \in Under(requests')
  BY <1>4 DEF Moves
<1>10. "cars" \notin unsure' => "cars" \notin unsure
  BY <1>3
<1>11. CarsComing'
  <2>1. \A s \in {c} \cup {r} : s.kind # "delete" \/ s.answer # "ok"
    BY <1>2
  <2>2. \A s \in {r} : s.kind = "cars" /\ s.answer = "ok" => s.certs.cars = garage
    BY <1>2
  <2> QED BY <1>3, <1>4, <1>5, <1>6, <1>10, <2>1, <2>2, CarsStill DEF Awaited
<1>12. CertsComing'
  <2>1. \A s \in {r} : s.kind = "certs" /\ s.answer = "ok" => s.certs = CertsNow
    BY <1>2
  <2>2. "certs" \notin unsure' => "certs" \notin unsure
    BY <1>3
  <2> QED BY <1>3, <1>4, <1>5, <1>6, <1>7, <1>8, <2>1, <2>2, CertsStill DEF Awaited
<1>13. DriverComing'
  <2>1. CASE ~ok
    <3>1. driver' = driver /\ unsure \subseteq unsure' /\ r.answer = "failed"
      BY <1>2, <1>3, <2>1
    <3>2. \A s \in {r} : /\ s.kind \in {"me", "mode"} /\ s.answer = "ok" => s.flag = driver
                         /\ s.kind = "me" => s.answer # "failed"
                         /\ s.kind = "me" /\ s.then = "created" => Joining \/ Adding'
      BY <1>2, <3>1
    <3> QED BY <1>3, <1>4, <1>5, <1>6, <3>1, <3>2, DriverStill DEF Awaited
  <2>2. CASE ok
    <3>1. driver' = c.flag /\ r.answer = "ok" /\ r.flag = driver'
      BY <1>2, <1>3, <2>2
    <3>2. Told'
      BY <1>2, <1>9, <3>1 DEF Told
    <3>3. ASSUME ~({"driver", "certs"} \subseteq unsure'), NEW s \in Under(requests')
          PROVE  /\ s.kind \in {"me", "mode"} /\ s.answer = "ok" => s.flag = driver'
                 /\ s.kind = "me" => s.answer # "failed"
      <4>1. CASE s = r
        BY <1>2, <3>1, <4>1
      <4>2. CASE s # r
        <5>1. PICK j \in DOMAIN requests : requests[j] = s
          BY <1>4, <4>2 DEF Moves, Under
        <5>2. s \in Under(requests)
          BY <5>1 DEF Under
        <5>3. /\ s.kind \in {"me", "mode"} /\ s.answer = "ok" => s.flag = driver
              /\ s.kind = "me" => s.answer # "failed"
          BY <1>3, <3>3, <5>2 DEF Awaited, DriverComing
        <5>4. ASSUME s.kind \in {"me", "mode"}, s.answer = "ok", s.flag # driver'
              PROVE  FALSE
          <6>1. driver' # driver
            BY <5>3, <5>4
          <6>2. j # i
            BY <1>1, <1>2, <5>1, <5>4
          <6>3. {"driver", "certs"} \subseteq OlderMode(i, driver')
            BY <5>1, <5>4, <6>1, <6>2 DEF OlderMode
          <6> QED BY <1>3, <3>3, <6>3
        <5> QED BY <5>3, <5>4
      <4> QED BY <4>1, <4>2
    <3> QED BY <3>2, <3>3 DEF DriverComing
  <2> QED BY <2>1, <2>2
<1> QED BY <1>11, <1>12, <1>13 DEF Awaited

\* What is left once a request was taken.
LEMMA LeftOver ==
  ASSUME WizardTypeOK, NEW i \in DOMAIN requests, requests' = Rest(i)
  PROVE  \A r \in Under(requests') : \E j \in DOMAIN requests \ {i} : r = requests[j]
BY WizardTypeFacts, RestOf DEF Rest, Under

LEMMA TakeCarsAwaited ==
  ASSUME WizardTypeOK, Awaited, NEW i \in DOMAIN requests, TakeCars(i)
  PROVE  Awaited'
<1>1. PICK c \in Request : c = requests[i] /\ c \in Under(requests)
  BY WizardTypeFacts DEF Under
<1>2. c.kind = "cars" /\ c.answer = "ok"
  BY <1>1 DEF TakeCars
<1>3. PICK none : none = {}
  OBVIOUS
<1>4. Moves(Under(requests), Under(requests'), {c}, none)
  BY <1>1, <1>3, MovesTaken DEF TakeCars
<1>5. UNCHANGED <<cars, garage, docs, driver, wizard>>
  BY DEF TakeCars
<1>6. PICK p \in Page : p = page
  BY WizardTypeFacts
<1>7. page'.cars = c.certs.cars /\ page'.driver = page.driver /\ page'.certs = page.certs /\ page'.has_certs = page.has_certs
  <2>1. page' = [p EXCEPT !.cars = c.certs.cars]
    BY <1>1, <1>6 DEF TakeCars
  <2> QED BY <1>6, <2>1 DEF Page
<1>8. /\ unsure' \subseteq unsure /\ unsure \subseteq unsure' \cup {"cars"}
      /\ unsure' # unsure => c.certs.cars = garage /\ \A j \in DOMAIN requests \ {i} : requests[j].kind = "certs"
  <2>1. unsure' = Sees(i, "cars", c.certs.cars = garage)
    BY <1>1 DEF TakeCars
  <2> QED BY <2>1 DEF Sees
<1>9. (Loading("certs") => Loading("certs")') /\ (Returning => Returning') /\ (Told => Told')
  BY <1>2, <1>4, LoadingStays, ReturningStays, ToldStays
<1>10. (Adding => Adding') /\ (Passing => Passing') /\ (Changed => Changed')
  BY <1>2, <1>4, <1>5, AddingStays, PassingStays, ChangedStays DEF Papers
<1>11. CarsComing'
  <2>1. Gone' = Gone
    <3>1. \A s \in {c} \cup none : s.kind # "delete" \/ s.answer # "ok"
      BY <1>2, <1>3
    <3> QED BY <1>4, <3>1, GoneStays
  <2>2. Gone' \cap garage' = {} /\ Gone' \subseteq DOMAIN cars'
    BY <1>5, <2>1 DEF Awaited, CarsComing
  <2>3. CASE "cars" \in unsure'
    BY <2>2, <2>3 DEF CarsComing
  <2>4. CASE "cars" \notin unsure' /\ "cars" \notin unsure
    <3>1. \A r \in Under(requests) : r.kind = "cars" /\ r.answer = "ok" => r.certs.cars = garage
      BY <2>4 DEF Awaited, CarsComing
    <3>2. c.certs.cars = garage
      BY <1>1, <1>2, <3>1
    <3>3. \A r \in Under(requests') : r.kind = "cars" /\ r.answer = "ok" => r.certs.cars = garage'
      BY <1>3, <1>4, <1>5, <3>1 DEF Moves
    <3>4. page'.cars \ Gone' = garage'
      BY <1>5, <1>7, <2>2, <3>2
    <3> QED BY <2>2, <3>3, <3>4 DEF CarsComing
  <2>5. CASE "cars" \notin unsure' /\ "cars" \in unsure
    <3>1. c.certs.cars = garage /\ \A j \in DOMAIN requests \ {i} : requests[j].kind = "certs"
      BY <1>8, <2>5
    <3>2. \A r \in Under(requests') : r.kind = "certs"
      BY <3>1, LeftOver DEF TakeCars
    <3>3. page'.cars \ Gone' = garage'
      BY <1>5, <1>7, <2>2, <3>1
    <3> QED BY <2>2, <3>2, <3>3 DEF CarsComing
  <2> QED BY <2>3, <2>4, <2>5
<1>12. DriverComing'
  <2>1. \A s \in none : /\ s.kind \in {"me", "mode"} /\ s.answer = "ok" => s.flag = driver
                        /\ s.kind = "me" => s.answer # "failed"
                        /\ s.kind = "me" /\ s.then = "created" => Joining \/ Adding'
    BY <1>3
  <2> QED BY <1>4, <1>5, <1>7, <1>8, <1>9, <1>10, <2>1, DriverStill DEF Awaited
<1>13. CertsComing'
  <2>1. \A s \in none : s.kind = "certs" /\ s.answer = "ok" => s.certs = CertsNow
    BY <1>3
  <2>2. "certs" \notin unsure' => "certs" \notin unsure
    BY <1>8
  <2> QED BY <1>4, <1>5, <1>7, <1>9, <1>10, <2>1, <2>2, CertsStill DEF Awaited
<1> QED BY <1>11, <1>12, <1>13 DEF Awaited

LEMMA TakeCertsAwaited ==
  ASSUME WizardTypeOK, Awaited, NEW i \in DOMAIN requests, TakeCerts(i)
  PROVE  Awaited'
<1>1. PICK c \in Request : c = requests[i] /\ c \in Under(requests)
  BY WizardTypeFacts DEF Under
<1>2. c.kind = "certs" /\ c.answer = "ok"
  BY <1>1 DEF TakeCerts
<1>3. PICK none : none = {}
  OBVIOUS
<1>4. Moves(Under(requests), Under(requests'), {c}, none)
  BY <1>1, <1>3, MovesTaken DEF TakeCerts
<1>5. UNCHANGED <<cars, garage, docs, driver, wizard>>
  BY DEF TakeCerts
<1>6. PICK p \in Page : p = page
  BY WizardTypeFacts
<1>7. page'.cars = page.cars /\ page'.driver = page.driver /\ page'.certs = c.certs /\ page'.has_certs
  <2>1. page' = [p EXCEPT !.certs = c.certs, !.has_certs = TRUE]
    BY <1>1, <1>6 DEF TakeCerts
  <2> QED BY <1>6, <2>1 DEF Page
<1>8. /\ unsure' \subseteq unsure /\ unsure \subseteq unsure' \cup {"certs"}
      /\ unsure' # unsure => c.certs = CertsNow /\ \A j \in DOMAIN requests \ {i} : requests[j].kind = "cars"
  <2>1. unsure' = Sees(i, "certs", c.certs = CertsNow)
    BY <1>1 DEF TakeCerts
  <2> QED BY <2>1 DEF Sees
<1>9. unsure' # unsure => \A r \in Under(requests') : r.kind = "cars"
  BY <1>8, LeftOver DEF TakeCerts
<1>10. (Loading("cars") => Loading("cars")') /\ (Returning => Returning') /\ (Told => Told')
  BY <1>2, <1>4, LoadingStays, ReturningStays, ToldStays
<1>11. Adding => Adding'
  BY <1>2, <1>4, <1>5, AddingStays
<1>12. CarsComing'
  <2>1. \A s \in {c} \cup none : s.kind # "delete" \/ s.answer # "ok"
    BY <1>2, <1>3
  <2>2. \A s \in none : s.kind = "cars" /\ s.answer = "ok" => s.certs.cars = garage
    BY <1>3
  <2>3. "cars" \notin unsure' => "cars" \notin unsure
    BY <1>8
  <2> QED BY <1>4, <1>5, <1>7, <1>10, <1>11, <2>1, <2>2, <2>3, CarsStill DEF Awaited
<1>13. DriverComing'
  <2>1. \A s \in none : /\ s.kind \in {"me", "mode"} /\ s.answer = "ok" => s.flag = driver
                        /\ s.kind = "me" => s.answer # "failed"
                        /\ s.kind = "me" /\ s.then = "created" => Joining \/ Adding'
    BY <1>3
  <2>2. CASE unsure' = unsure
    <3>1. unsure \subseteq unsure' \cup {"cars"}
      BY <2>2
    <3> QED BY <1>4, <1>5, <1>7, <1>10, <1>11, <2>1, <3>1, DriverStill DEF Awaited
  <2>3. CASE unsure' # unsure
    <3>1. \A r \in Under(requests') : r.kind \notin {"me", "mode"}
      BY <1>9, <2>3
    <3>2. ~Joining'
      BY <3>1 DEF Joining
    <3>3. "driver" \notin unsure' => page'.driver = driver' \/ Told' \/ Returning' \/ Adding'
      BY <1>5, <1>7, <1>8, <1>10, <1>11 DEF Awaited, DriverComing
    <3> QED BY <3>1, <3>2, <3>3 DEF DriverComing
  <2> QED BY <2>2, <2>3
<1>14. CertsComing'
  <2>1. CertsNow' = CertsNow
    BY <1>5 DEF CertsNow
  <2>2. CASE "certs" \in unsure'
    BY <2>2 DEF CertsComing
  <2>3. CASE "certs" \notin unsure' /\ "certs" \notin unsure
    <3>1. \A r \in Under(requests) : r.kind = "certs" /\ r.answer = "ok" => r.certs = CertsNow
      BY <2>3 DEF Awaited, CertsComing
    <3>2. \A r \in Under(requests') : r.kind = "certs" /\ r.answer = "ok" => r.certs = CertsNow
      BY <1>3, <1>4, <3>1 DEF Moves
    <3> QED BY <1>1, <1>2, <1>7, <2>1, <3>1, <3>2 DEF CertsComing
  <2>4. CASE "certs" \notin unsure' /\ "certs" \in unsure
    <3>1. c.certs = CertsNow /\ \A r \in Under(requests') : r.kind = "cars"
      BY <1>8, <1>9, <2>4
    <3> QED BY <1>7, <2>1, <3>1 DEF CertsComing
  <2> QED BY <2>2, <2>3, <2>4
<1> QED BY <1>12, <1>13, <1>14 DEF Awaited

\* Who the user is, once the answer has come.
LEMMA MeHeard ==
  ASSUME WizardTypeOK, Awaited, NEW c \in Under(requests), c.kind \in {"me", "mode"}, c.answer = "ok",
         ~({"driver", "certs"} \subseteq unsure)
  PROVE  c.flag = driver
BY DEF Awaited, DriverComing

LEMMA MeAnswered ==
  ASSUME WizardTypeOK, Awaited, NEW c \in Under(requests), c.kind = "me", c.answer # "none",
         ~({"driver", "certs"} \subseteq unsure)
  PROVE  c.answer = "ok" /\ c.flag = driver
<1>1. c \in Request
  BY UnderTyped
<1>2. c.answer \in {"ok", "failed"}
  BY <1>1 DEF Request
<1> QED BY <1>2 DEF Awaited, DriverComing

LEMMA MeCreatedAwaited ==
  ASSUME WizardTypeOK, Awaited, NEW i \in DOMAIN requests, TakeMe(i), requests[i].then = "created"
  PROVE  Awaited'
<1>1. PICK c \in Request : c = requests[i] /\ c \in Under(requests)
  BY WizardTypeFacts DEF Under
<1>2. PICK p \in Page : p = page
  BY WizardTypeFacts
<1>3. PICK w \in Wizard : w = wizard
  BY WizardTypeFacts
<1>4. c.kind = "me" /\ c.answer # "none" /\ c.then = "created"
  BY <1>1 DEF TakeMe
<1>5. /\ requests' = Rest(i)
      /\ page' = IF c.answer = "ok" THEN [p EXCEPT !.driver = c.flag] ELSE p
      /\ wizard' = [w EXCEPT !.step = IF w.open = "driver" THEN "insurance" ELSE w.step]
  BY <1>1, <1>2, <1>3, <1>4 DEF TakeMe
<1>6. UNCHANGED <<cars, garage, docs, driver, unsure>>
  BY DEF TakeMe
<1>7. wizard'.open = w.open /\ wizard'.created = w.created /\ wizard'.passed = w.passed
  BY <1>5 DEF Wizard
<1>8. WizardRemembers
  BY <1>3, <1>7 DEF WizardRemembers
<1>9. CASE c.answer # "ok"
  <2>1. page' = page /\ Idle(requests[i]) /\ PageSame
    BY <1>1, <1>2, <1>4, <1>5, <1>6, <1>9 DEF Idle, PageSame, Papers
  <2> QED BY <1>5, <1>8, <2>1, AwaitedIfTaken
<1>10. CASE c.answer = "ok"
  <2>1. page'.cars = page.cars /\ page'.driver = c.flag /\ page'.certs = page.certs /\ page'.has_certs = page.has_certs
    BY <1>2, <1>5, <1>10 DEF Page, Request
  <2>2. PICK none : none = {}
    OBVIOUS
  <2>3. Moves(Under(requests), Under(requests'), {c}, none)
    BY <1>1, <1>5, <2>2, MovesTaken
  <2>4. (Loading("cars") => Loading("cars")') /\ (Loading("certs") => Loading("certs")') /\ (Told => Told')
    BY <1>4, <2>3, LoadingStays, ToldStays
  <2>5. Returning => Returning'
    BY <1>4, <2>3, ReturningStays
  <2>6. Adding => Adding'
    BY <1>3, <1>4, <1>7, <2>3, AddingStays
  <2>7. Passing => Passing'
    BY <1>3, <1>4, <1>7, <2>3, PassingStays DEF Papers
  <2>8. Changed => Changed'
    BY <1>4, <2>3, ChangedStays
  <2>9. CarsComing'
    <3>1. \A s \in {c} \cup none : s.kind # "delete" \/ s.answer # "ok"
      BY <1>4, <2>2
    <3>2. \A s \in none : s.kind = "cars" /\ s.answer = "ok" => s.certs.cars = garage
      BY <2>2
    <3>3. "cars" \notin unsure' => "cars" \notin unsure
      BY <1>6
    <3> QED BY <1>6, <2>1, <2>3, <2>4, <2>5, <2>6, <3>1, <3>2, <3>3, CarsStill DEF Awaited
  <2>10. \A r \in Under(requests') : r \in Under(requests)
    BY <2>2, <2>3 DEF Moves
  <2>11. DriverComing'
    <3>1. ASSUME ~({"driver", "certs"} \subseteq unsure')
          PROVE  \A r \in Under(requests') :
                   /\ r.kind \in {"me", "mode"} /\ r.answer = "ok" => r.flag = driver'
                   /\ r.kind = "me" => r.answer # "failed"
      BY <1>6, <2>10, <3>1 DEF Awaited, DriverComing
    <3>2. "driver" \notin unsure' \/ ("certs" \notin unsure' /\ Joining') => page'.driver = driver'
      BY <1>1, <1>4, <1>6, <1>10, <2>1, MeHeard
    <3> QED BY <3>1, <3>2 DEF DriverComing
  <2>12. CertsComing'
    <3>1. CASE "certs" \in unsure'
      BY <3>1 DEF CertsComing
    <3>2. CASE page'.driver => page.driver
      <4>1. \A s \in none : s.kind = "certs" /\ s.answer = "ok" => s.certs = CertsNow
        BY <2>2
      <4>2. "certs" \notin unsure' => "certs" \notin unsure
        BY <1>6
      <4>3. page'.driver => page.driver /\ page'.certs = page.certs /\ page'.has_certs = page.has_certs
        BY <2>1, <3>2
      <4> QED BY <1>6, <2>3, <2>4, <2>5, <2>6, <2>7, <2>8, <4>1, <4>2, <4>3, CertsStill DEF Awaited
    <3>3. CASE "certs" \notin unsure' /\ page'.driver /\ ~page.driver
      <4>1. c.flag = driver
        BY <1>1, <1>4, <1>6, <1>10, <3>3, MeHeard
      <4>2. page.driver # driver
        BY <2>1, <3>3, <4>1
      <4>3. Joining
        BY <1>1, <1>4 DEF Joining
      <4>4. Told \/ Returning \/ Adding
        BY <1>6, <3>3, <4>2, <4>3 DEF Awaited, DriverComing
      <4>5. \A r \in Under(requests') : r.kind = "certs" /\ r.answer = "ok" => r.certs = CertsNow
        BY <1>6, <2>10, <3>3 DEF Awaited, CertsComing
      <4>6. CertsNow' = CertsNow
        BY <1>6 DEF CertsNow
      <4> QED BY <2>4, <2>5, <2>6, <4>4, <4>5, <4>6 DEF CertsComing
    <3> QED BY <3>1, <3>2, <3>3
  <2> QED BY <2>9, <2>11, <2>12 DEF Awaited
<1> QED BY <1>9, <1>10

LEMMA MeFinishAwaited ==
  ASSUME WizardTypeOK, Awaited, NEW i \in DOMAIN requests, TakeMe(i), requests[i].then = "finish"
  PROVE  Awaited'
<1>1. UNCHANGED <<cars, garage, docs, driver, unsure>>
  BY DEF TakeMe
<1>2. Closing(Rest(i), <<Me("page")>>) \/ requests' = Append(Rest(i), Me("page"))
  BY DEF TakeMe
<1>3. PICK r \in Request : r = Me("page") /\ r.kind = "me" /\ r.then = "page" /\ r.answer = "none"
  BY RequestTypes
<1>4. /\ r \in Under(requests')
      /\ \A q \in Under(requests') : q \in {r} \/ \E s \in Under(requests) :
           /\ q.kind = s.kind /\ q.then = s.then /\ q.answer = s.answer /\ q.flag = s.flag
           /\ q.car = s.car /\ q.certs = s.certs
  <2>1. CASE Closing(Rest(i), <<Me("page")>>)
    <3>1. PICK f : /\ Trace(requests, requests', f, {i} \cup (DOMAIN requests \ Kept(requests)), {r})
                   /\ Silences(requests, requests', f)
      BY <1>3, <2>1, ClosedTaking, WizardTypeFacts, PageAsked, OneUnder
    <3>2. Silenced(Under(requests), Under(requests'), {r}) /\ r \in Under(requests')
      BY <3>1, SilencedOfTrace
    <3> QED BY <3>2, SilencedFields
  <2>2. CASE requests' = Append(Rest(i), Me("page"))
    <3>1. Moves(Under(requests), Under(requests'), {requests[i]}, {r})
      BY <1>3, <2>2, MovesTakenForOne
    <3> QED BY <3>1 DEF Moves
  <2> QED BY <1>2, <2>1, <2>2
<1>5. Returning'
  BY <1>3, <1>4 DEF Returning
<1>6. \A q \in {r} : q.answer = "none"
  BY <1>3
<1> QED BY <1>1, <1>4, <1>5, <1>6, AwaitedReturning

\* The page asks again for everything it shows.
LEMMA LoadsComing ==
  ASSUME NEW p, NEW lost, Moves(Under(requests), Under(requests'), lost, Under(Loads(p)))
  PROVE  /\ Loading("cars")'
         /\ p.driver => Loading("certs")'
         /\ \A r \in Under(requests') :
              r \in Under(requests) \/ (r.kind \in {"cars", "certs"} /\ r.answer = "none")
<1>1. /\ Plain("cars").kind = "cars" /\ Plain("cars").answer = "none"
      /\ Plain("certs").kind = "certs" /\ Plain("certs").answer = "none"
  BY RequestTypes DEF Kinds
<1>2. Loading("cars")'
  BY <1>1, LoadsTypes DEF Moves, Loading
<1>3. p.driver => Loading("certs")'
  BY <1>1, LoadsTypes DEF Moves, Loading
<1>4. \A r \in Under(requests') : r \in Under(requests) \/ (r.kind \in {"cars", "certs"} /\ r.answer = "none")
  BY LoadsTypes DEF Moves
<1> QED BY <1>2, <1>3, <1>4

LEMMA MePageAwaited ==
  ASSUME WizardTypeOK, Awaited, NEW i \in DOMAIN requests, TakeMe(i), requests[i].then = "page"
  PROVE  Awaited'
<1>1. PICK c \in Request : c = requests[i] /\ c \in Under(requests)
  BY WizardTypeFacts DEF Under
<1>2. PICK q \in Page : q = page /\ (q.has_certs \/ q.certs = NoCerts)
  BY WizardTypeFacts DEF PageTypes
<1>3. c.kind = "me" /\ c.answer # "none"
  BY <1>1 DEF TakeMe
<1>4. PICK p \in Page : /\ p = IF c.answer = "ok" THEN [q EXCEPT !.driver = c.flag] ELSE q
                        /\ p.has_certs \/ p.certs = NoCerts
                        /\ c.answer = "ok" => p.driver = c.flag
  <2>1. CASE c.answer = "ok"
    <3> DEFINE n == [q EXCEPT !.driver = c.flag]
    <3>1. n \in Page /\ n.driver = c.flag /\ (n.has_certs \/ n.certs = NoCerts)
      BY <1>2 DEF Page, Request
    <3>2. n = IF c.answer = "ok" THEN [q EXCEPT !.driver = c.flag] ELSE q
      BY <2>1
    <3> HIDE DEF n
    <3> QED BY <3>1, <3>2
  <2>2. CASE c.answer # "ok"
    BY <1>2, <2>2
  <2> QED BY <2>1, <2>2
<1>5. requests' = Rest(i) \o Loads(p) /\ page' = WithoutCerts(p)
  BY <1>1, <1>2, <1>4 DEF TakeMe, AfterMe
<1>6. UNCHANGED <<cars, garage, docs, driver, unsure>>
  BY DEF TakeMe
<1>7. Moves(Under(requests), Under(requests'), {c}, Under(Loads(p)))
  BY <1>1, <1>5, MovesTakenForLoads
<1>8. /\ Loading("cars")' /\ (p.driver => Loading("certs")')
      /\ \A r \in Under(requests') : r \in Under(requests) \/ (r.kind \in {"cars", "certs"} /\ r.answer = "none")
  BY <1>7, LoadsComing
<1>9. page'.driver = p.driver
  BY <1>4, <1>5, WithoutCertsTypes
<1>10. CarsComing'
  <2>1. Gone' \subseteq Gone
    BY <1>8 DEF Gone
  <2>2. Gone' \cap garage' = {} /\ Gone' \subseteq DOMAIN cars'
    BY <1>6, <2>1 DEF Awaited, CarsComing
  <2>3. "cars" \notin unsure' => \A r \in Under(requests') : r.kind = "cars" /\ r.answer = "ok" => r.certs.cars = garage'
    BY <1>6, <1>8 DEF Awaited, CarsComing
  <2> QED BY <1>8, <2>2, <2>3 DEF CarsComing
<1>11. DriverComing'
  <2>1. ASSUME ~({"driver", "certs"} \subseteq unsure')
        PROVE  /\ \A r \in Under(requests') :
                    /\ r.kind \in {"me", "mode"} /\ r.answer = "ok" => r.flag = driver'
                    /\ r.kind = "me" => r.answer # "failed"
               /\ page'.driver = driver'
    <3>1. \A r \in Under(requests') :
            /\ r.kind \in {"me", "mode"} /\ r.answer = "ok" => r.flag = driver'
            /\ r.kind = "me" => r.answer # "failed"
      BY <1>6, <1>8, <2>1 DEF Awaited, DriverComing
    <3>2. c.answer = "ok" /\ c.flag = driver
      BY <1>1, <1>3, <1>6, <2>1, MeAnswered
    <3> QED BY <1>4, <1>6, <1>9, <3>1, <3>2
  <2> QED BY <2>1 DEF DriverComing
<1>12. CertsComing'
  <2>1. CertsNow' = CertsNow
    BY <1>6 DEF CertsNow
  <2>2. "certs" \notin unsure' => \A r \in Under(requests') : r.kind = "certs" /\ r.answer = "ok" => r.certs = CertsNow
    BY <1>6, <1>8 DEF Awaited, CertsComing
  <2> QED BY <1>8, <1>9, <2>1, <2>2 DEF CertsComing
<1> QED BY <1>10, <1>11, <1>12 DEF Awaited

LEMMA TakeMeAwaited ==
  ASSUME WizardTypeOK, Awaited, NEW i \in DOMAIN requests, TakeMe(i)
  PROVE  Awaited'
<1>1. requests[i].then \in {"created", "finish", "page"}
  BY DEF TakeMe
<1> QED BY <1>1, MeCreatedAwaited, MeFinishAwaited, MePageAwaited

\* The answer that changes nothing on the page.
LEMMA TakeFailureAwaited ==
  ASSUME WizardTypeOK, Awaited, NEW i \in DOMAIN requests, TakeFailure(i)
  PROVE  Awaited'
<1>1. requests' = Rest(i) /\ Idle(requests[i]) /\ WizardRemembers /\ PageSame /\ page' = page
  BY DEF TakeFailure, Idle, WizardRemembers, PageSame, Papers
<1> QED BY <1>1, AwaitedIfTaken

LEMMA TakeAnalysisAwaited ==
  ASSUME WizardTypeOK, Awaited, NEW i \in DOMAIN requests, TakeAnalysis(i)
  PROVE  Awaited'
<1>1. PICK c \in Request : c = requests[i]
  BY WizardTypeFacts
<1>2. PICK w \in Wizard : w = wizard
  BY WizardTypeFacts
<1>3. requests' = Rest(i) /\ Idle(requests[i]) /\ PageSame /\ page' = page
  BY DEF TakeAnalysis, TakeStep, Idle, PageSame, Papers
<1>4. \/ wizard' = w
      \/ wizard' = [w EXCEPT !.ready = TRUE, !.read = IF c.answer = "ok" /\ c.read # 0 THEN c.read ELSE w.read]
  BY <1>1, <1>2 DEF TakeAnalysis, TakeStep
<1>5. wizard'.open = w.open /\ wizard'.created = w.created /\ wizard'.passed = w.passed
  BY <1>4 DEF Wizard
<1>6. WizardRemembers
  BY <1>2, <1>5 DEF WizardRemembers
<1> QED BY <1>3, <1>6, AwaitedIfTaken

\* A document: the wizard that saw it accepted is going to tell the page.
LEMMA TakeDocumentAwaited ==
  ASSUME WizardTypeOK, Photographed, Awaited, NEW i \in DOMAIN requests, TakeDocument(i)
  PROVE  Awaited'
<1>1. PICK c \in Request : c = requests[i]
  BY WizardTypeFacts
<1>2. PICK w \in Wizard : w = wizard
  BY WizardTypeFacts
<1>3. c.kind \in Papers /\ c.answer # "none" /\ requests' = Rest(i) /\ PageSame /\ page' = page
  BY <1>1 DEF TakeDocument, TakeStep, PageSame
<1> DEFINE accepted == c.answer = "ok" /\ c.flag
<1>4. wizard' = IF c.heard
                THEN [w EXCEPT !.sending = w.sending \ {c.kind},
                               !.passed = IF accepted THEN w.passed \cup {c.kind} ELSE w.passed]
                ELSE w
  BY <1>1, <1>2 DEF TakeDocument, TakeStep
<1>5. /\ wizard'.open = w.open /\ wizard'.created = w.created
      /\ wizard'.passed = IF c.heard /\ accepted THEN w.passed \cup {c.kind} ELSE w.passed
  BY <1>4 DEF Wizard
<1> HIDE DEF accepted
<1>6. WizardRemembers
  BY <1>2, <1>5 DEF WizardRemembers
<1>7. CASE ~(c.heard /\ accepted)
  <2>1. Idle(requests[i])
    BY <1>1, <1>3, <1>7 DEF Idle, Papers, accepted
  <2> QED BY <1>3, <1>6, <2>1, AwaitedIfTaken
<1>8. CASE c.heard /\ accepted
  <2>1. wizard.open # "no"
    BY <1>1, <1>8 DEF Photographed, StepsHeard
  <2>2. Passing'
    BY <1>2, <1>5, <1>8, <2>1 DEF Passing
  <2>3. PICK none : none = {}
    OBVIOUS
  <2>4. Moves(Under(requests), Under(requests'), {c}, none)
    BY <1>1, <1>3, <2>3, MovesTaken
  <2>5. c.kind \in {"license", "insurance"}
    BY <1>3 DEF Papers
  <2>6. (Loading("cars") => Loading("cars")') /\ (Loading("certs") => Loading("certs")') /\ (Told => Told')
    BY <2>4, <2>5, LoadingStays, ToldStays
  <2>7. Returning => Returning'
    BY <2>4, <2>5, ReturningStays
  <2>8. Adding => Adding'
    BY <1>2, <1>5, <2>4, <2>5, AddingStays
  <2>9. Changed => Changed'
    BY <2>4, <2>5, ChangedStays
  <2>10. \A s \in {c} \cup none : s.kind # "delete" \/ s.answer # "ok"
    BY <2>3, <2>5
  <2>11. /\ \A s \in none : s.kind = "cars" /\ s.answer = "ok" => s.certs.cars = garage
         /\ \A s \in none : s.kind = "certs" /\ s.answer = "ok" => s.certs = CertsNow
         /\ \A s \in none : /\ s.kind \in {"me", "mode"} /\ s.answer = "ok" => s.flag = driver
                            /\ s.kind = "me" => s.answer # "failed"
                            /\ s.kind = "me" /\ s.then = "created" => Joining \/ Adding'
    BY <2>3
  <2>12. UNCHANGED <<cars, garage, docs, driver, page>> /\ unsure' = unsure
    BY <1>3 DEF PageSame
  <2>13. CarsComing'
    BY <2>4, <2>6, <2>7, <2>8, <2>10, <2>11, <2>12, CarsStill DEF Awaited
  <2>14. DriverComing'
    BY <2>4, <2>6, <2>7, <2>8, <2>11, <2>12, DriverStill DEF Awaited
  <2>15. CertsComing'
    BY <2>2, <2>4, <2>6, <2>7, <2>8, <2>9, <2>11, <2>12, CertsStill DEF Awaited
  <2> QED BY <2>13, <2>14, <2>15 DEF Awaited
<1> QED BY <1>7, <1>8

\* A car is registered: the wizard that knows is going to tell the page.
LEMMA TakeCreateAwaited ==
  ASSUME WizardTypeOK, Photographed, Awaited, NEW i \in DOMAIN requests, TakeCreate(i)
  PROVE  Awaited'
<1>1. PICK c \in Request : c = requests[i]
  BY WizardTypeFacts
<1>2. PICK w \in Wizard : w = wizard
  BY WizardTypeFacts
<1>3. /\ c.kind = "create" /\ c.answer # "none" /\ PageSame /\ page' = page
      /\ UNCHANGED <<cars, garage, docs, driver, unsure>>
  BY <1>1 DEF TakeCreate, TakeStep, PageSame
<1>4. CASE ~(c.heard /\ c.answer = "ok")
  <2>1. requests' = Rest(i) /\ (wizard' = w \/ wizard' = [w EXCEPT !.sending = w.sending \ {"vehicle"}])
    BY <1>1, <1>2, <1>4 DEF TakeCreate, TakeStep
  <2>2. wizard'.open = w.open /\ wizard'.created = w.created /\ wizard'.passed = w.passed
    BY <2>1 DEF Wizard
  <2>3. WizardRemembers
    BY <1>2, <2>2 DEF WizardRemembers
  <2>4. Idle(requests[i])
    BY <1>1, <1>3, <1>4 DEF Idle, Papers
  <2> QED BY <1>3, <2>1, <2>3, <2>4, AwaitedIfTaken
<1>5. CASE c.heard /\ c.answer = "ok"
  <2>1. wizard.open # "no"
    BY <1>1, <1>5 DEF Photographed, StepsHeard
  <2>2. c.car # 0
    <3>1. i \in Positions("create")
      BY <1>1, <1>3 DEF Positions
    <3> QED BY <1>1, <1>5, <3>1 DEF Photographed, StepsHeard
  <2> DEFINE asks == w.open = "driver" /\ c.flag
             v == [w EXCEPT !.sending = w.sending \ {"vehicle"}, !.created = c.car]
  <2>3. v \in Wizard /\ v.open = w.open /\ v.created = c.car
    BY DEF Wizard, Request
  <2>4. wizard' = [v EXCEPT !.step = IF asks THEN v.step ELSE "insurance"]
    BY <1>1, <1>2, <1>5 DEF TakeCreate, TakeStep, Registered
  <2>5. requests' = IF asks THEN Append(Rest(i), Me("created")) ELSE Rest(i)
    BY <1>1, <1>2, <1>5 DEF TakeCreate
  <2> HIDE DEF asks, v
  <2>6. wizard'.open = w.open /\ wizard'.created = c.car
    BY <2>3, <2>4 DEF Wizard
  <2>7. Adding'
    BY <1>2, <2>1, <2>2, <2>6 DEF Adding
  <2>8. PICK r \in Request : r = Me("created") /\ r.answer = "none"
    BY RequestTypes
  <2>9. \A q \in Under(requests') : q \in {r} \/ q \in Under(requests)
    <3>1. CASE asks
      BY <2>5, <2>8, <3>1, MovesTakenForOne DEF Moves
    <3>2. CASE ~asks
      BY <2>5, <3>2, MovesTaken DEF Moves
    <3> QED BY <3>1, <3>2
  <2>10. \A q \in {r} : q.answer = "none"
    BY <2>8
  <2>11. \A q \in Under(requests') : q \in {r} \/ \E s \in Under(requests) :
           /\ q.kind = s.kind /\ q.then = s.then /\ q.answer = s.answer /\ q.flag = s.flag
           /\ q.car = s.car /\ q.certs = s.certs
    BY <2>9
  <2> QED BY <1>3, <2>7, <2>10, <2>11, AwaitedReturning
<1> QED BY <1>4, <1>5

\* The mode, as the server set it: a driver's documents are loaded.
LEMMA TakeModeAwaited ==
  ASSUME WizardTypeOK, Awaited, NEW i \in DOMAIN requests, TakeMode(i)
  PROVE  Awaited'
<1>1. PICK c \in Request : c = requests[i] /\ c \in Under(requests)
  BY WizardTypeFacts DEF Under
<1>2. PICK q \in Page : q = page /\ (q.has_certs \/ q.certs = NoCerts)
  BY WizardTypeFacts DEF PageTypes
<1>3. c.kind = "mode" /\ UNCHANGED <<cars, garage, docs, driver, wizard, unsure>>
  BY <1>1 DEF TakeMode
<1> DEFINE p == [q EXCEPT !.saving = FALSE, !.driver = IF c.answer = "ok" THEN c.flag ELSE q.driver]
<1>4. /\ page' = IF c.answer = "ok" THEN WithoutCerts(p) ELSE p
      /\ requests' = IF c.answer = "ok" /\ c.flag THEN Append(Rest(i), Plain("certs")) ELSE Rest(i)
  BY <1>1, <1>2 DEF TakeMode
<1>5. /\ p \in Page /\ p.cars = q.cars /\ p.certs = q.certs /\ p.has_certs = q.has_certs
      /\ p.driver = IF c.answer = "ok" THEN c.flag ELSE q.driver
  BY DEF Page, Request
<1> HIDE DEF p
<1>6. CASE c.answer # "ok"
  <2>1. Idle(requests[i]) /\ WizardRemembers /\ PageSame
    BY <1>1, <1>3, <1>6 DEF Idle, WizardRemembers, PageSame, Papers
  <2>2. page'.cars = page.cars /\ page'.driver = page.driver /\ page'.certs = page.certs /\ page'.has_certs = page.has_certs
    BY <1>2, <1>4, <1>5, <1>6
  <2> QED BY <1>4, <1>6, <2>1, <2>2, AwaitedIfTaken
<1>7. CASE c.answer = "ok"
  <2>1. page'.cars = page.cars /\ page'.driver = c.flag
    BY <1>2, <1>4, <1>5, <1>7, WithoutCertsTypes
  <2>2. PICK r \in Request : r = Plain("certs") /\ r.kind = "certs" /\ r.answer = "none"
    BY RequestTypes DEF Kinds
  <2>3. PICK fresh : /\ Moves(Under(requests), Under(requests'), {c}, fresh)
                     /\ \A s \in fresh : s.kind = "certs" /\ s.answer = "none"
                     /\ c.flag => r \in fresh
    <3>1. CASE c.flag
      <4>1. Moves(Under(requests), Under(requests'), {c}, {r})
        BY <1>1, <1>4, <1>7, <2>2, <3>1, MovesTakenForOne
      <4> QED BY <2>2, <4>1
    <3>2. CASE ~c.flag
      <4>1. Moves(Under(requests), Under(requests'), {c}, {})
        BY <1>1, <1>4, <3>2, MovesTaken
      <4> QED BY <3>2, <4>1
    <3> QED BY <3>1, <3>2
  <2>4. (Loading("cars") => Loading("cars")') /\ (Returning => Returning')
    BY <1>3, <2>3, LoadingStays, ReturningStays
  <2>5. Adding => Adding'
    BY <1>3, <2>3, AddingStays
  <2>6. CarsComing'
    <3>1. \A s \in {c} \cup fresh : s.kind # "delete" \/ s.answer # "ok"
      BY <1>3, <2>3
    <3>2. \A s \in fresh : s.kind = "cars" /\ s.answer = "ok" => s.certs.cars = garage
      BY <2>3
    <3>3. "cars" \notin unsure' => "cars" \notin unsure
      BY <1>3
    <3> QED BY <1>3, <2>1, <2>3, <2>4, <2>5, <3>1, <3>2, <3>3, CarsStill DEF Awaited
  <2>7. \A s \in Under(requests') : s \in Under(requests) \/ (s.kind = "certs" /\ s.answer = "none")
    BY <2>3 DEF Moves
  <2>8. DriverComing'
    <3>1. ASSUME ~({"driver", "certs"} \subseteq unsure')
          PROVE  /\ \A s \in Under(requests') :
                      /\ s.kind \in {"me", "mode"} /\ s.answer = "ok" => s.flag = driver'
                      /\ s.kind = "me" => s.answer # "failed"
                 /\ page'.driver = driver'
      <4>1. \A s \in Under(requests') :
              /\ s.kind \in {"me", "mode"} /\ s.answer = "ok" => s.flag = driver'
              /\ s.kind = "me" => s.answer # "failed"
        BY <1>3, <2>7, <3>1 DEF Awaited, DriverComing
      <4>2. c.flag = driver
        BY <1>1, <1>3, <1>7, <3>1, MeHeard
      <4> QED BY <1>3, <2>1, <4>1, <4>2
    <3> QED BY <3>1 DEF DriverComing
  <2>9. CertsComing'
    <3>1. CertsNow' = CertsNow
      BY <1>3 DEF CertsNow
    <3>2. "certs" \notin unsure' => \A s \in Under(requests') : s.kind = "certs" /\ s.answer = "ok" => s.certs = CertsNow
      BY <1>3, <2>7 DEF Awaited, CertsComing
    <3>3. page'.driver => Loading("certs")'
      BY <2>1, <2>2, <2>3 DEF Moves, Loading
    <3> QED BY <3>1, <3>2, <3>3 DEF CertsComing
  <2> QED BY <2>6, <2>8, <2>9 DEF Awaited
<1> QED BY <1>6, <1>7

\* A car that was deleted goes, and a driver's documents are loaded.
LEMMA TakeDeleteAwaited ==
  ASSUME WizardTypeOK, Awaited, NEW i \in DOMAIN requests, TakeDelete(i)
  PROVE  Awaited'
<1>1. PICK c \in Request : c = requests[i] /\ c \in Under(requests)
  BY WizardTypeFacts DEF Under
<1>2. PICK q \in Page : q = page /\ (q.has_certs \/ q.certs = NoCerts)
  BY WizardTypeFacts DEF PageTypes
<1>3. c.kind = "delete" /\ UNCHANGED <<cars, garage, docs, driver, wizard, unsure>>
  BY <1>1 DEF TakeDelete
<1>4. CASE c.answer # "ok"
  <2>1. Idle(requests[i]) /\ WizardRemembers /\ PageSame
    BY <1>1, <1>3, <1>4 DEF Idle, WizardRemembers, PageSame, Papers
  <2>2. requests' = Rest(i) /\ page' = page
    BY <1>1, <1>4 DEF TakeDelete
  <2> QED BY <2>1, <2>2, AwaitedIfTaken
<1>5. CASE c.answer = "ok"
  <2> DEFINE p == [q EXCEPT !.cars = q.cars \ {c.car}]
  <2>1. /\ page' = WithoutCerts(p)
        /\ requests' = IF q.driver THEN Append(Rest(i), Plain("certs")) ELSE Rest(i)
    BY <1>1, <1>2, <1>5 DEF TakeDelete
  <2>2. /\ p \in Page /\ p.cars = q.cars \ {c.car} /\ p.certs = q.certs /\ p.has_certs = q.has_certs
        /\ p.driver = q.driver
    BY DEF Page
  <2> HIDE DEF p
  <2>3. page'.cars = page.cars \ {c.car} /\ page'.driver = page.driver
    BY <1>2, <2>1, <2>2, WithoutCertsTypes
  <2>4. PICK r \in Request : r = Plain("certs") /\ r.kind = "certs" /\ r.answer = "none"
    BY RequestTypes DEF Kinds
  <2>5. PICK fresh : /\ Moves(Under(requests), Under(requests'), {c}, fresh)
                     /\ \A s \in fresh : s.kind = "certs" /\ s.answer = "none"
                     /\ page.driver => r \in fresh
    <3>1. CASE q.driver
      <4>1. Moves(Under(requests), Under(requests'), {c}, {r})
        BY <1>1, <2>1, <2>4, <3>1, MovesTakenForOne
      <4> QED BY <2>4, <4>1
    <3>2. CASE ~q.driver
      <4>1. Moves(Under(requests), Under(requests'), {c}, {})
        BY <1>1, <2>1, <3>2, MovesTaken
      <4> QED BY <1>2, <3>2, <4>1
    <3> QED BY <3>1, <3>2
  <2>6. (Loading("cars") => Loading("cars")') /\ (Returning => Returning') /\ (Told => Told')
    BY <1>3, <2>5, LoadingStays, ReturningStays, ToldStays
  <2>7. Adding => Adding'
    BY <1>3, <2>5, AddingStays
  <2>8. \A s \in Under(requests') : s \in Under(requests) \/ (s.kind = "certs" /\ s.answer = "none")
    BY <2>5 DEF Moves
  <2>9. c.car \in Gone
    BY <1>1, <1>3, <1>5 DEF Gone
  <2>10. Gone' \subseteq Gone
    BY <2>8 DEF Gone
  <2>11. \A x \in Gone : x \in Gone' \/ x = c.car
    BY <2>5 DEF Gone, Moves
  <2>12. CarsComing'
    <3>1. Gone' \cap garage' = {} /\ Gone' \subseteq DOMAIN cars'
      BY <1>3, <2>10 DEF Awaited, CarsComing
    <3>2. ASSUME "cars" \notin unsure'
          PROVE  /\ \A s \in Under(requests') : s.kind = "cars" /\ s.answer = "ok" => s.certs.cars = garage'
                 /\ page'.cars \ Gone' = garage' \/ Loading("cars")' \/ Returning' \/ Adding'
      <4>1. \A s \in Under(requests') : s.kind = "cars" /\ s.answer = "ok" => s.certs.cars = garage'
        BY <1>3, <2>8, <3>2 DEF Awaited, CarsComing
      <4>2. page.cars \ Gone = garage \/ Loading("cars") \/ Returning \/ Adding
        BY <1>3, <3>2 DEF Awaited, CarsComing
      <4>3. page'.cars \ Gone' = page.cars \ Gone
        BY <2>3, <2>9, <2>10, <2>11
      <4> QED BY <1>3, <2>6, <2>7, <4>1, <4>2, <4>3
    <3> QED BY <3>1, <3>2 DEF CarsComing
  <2>13. DriverComing'
    <3>1. \A s \in fresh : /\ s.kind \in {"me", "mode"} /\ s.answer = "ok" => s.flag = driver
                           /\ s.kind = "me" => s.answer # "failed"
                           /\ s.kind = "me" /\ s.then = "created" => Joining \/ Adding'
      BY <2>5
    <3>2. unsure \subseteq unsure' \cup {"cars"}
      BY <1>3
    <3> QED BY <1>3, <2>3, <2>5, <2>6, <2>7, <3>1, <3>2, DriverStill DEF Awaited
  <2>14. CertsComing'
    <3>1. CertsNow' = CertsNow
      BY <1>3 DEF CertsNow
    <3>2. "certs" \notin unsure' => \A s \in Under(requests') : s.kind = "certs" /\ s.answer = "ok" => s.certs = CertsNow
      BY <1>3, <2>8 DEF Awaited, CertsComing
    <3>3. page'.driver => Loading("certs")'
      BY <2>3, <2>4, <2>5 DEF Moves, Loading
    <3> QED BY <3>1, <3>2, <3>3 DEF CertsComing
  <2> QED BY <2>12, <2>13, <2>14 DEF Awaited
<1> QED BY <1>4, <1>5

\* A document handed in from the page: everything is loaded.
LEMMA TakeUploadAwaited ==
  ASSUME WizardTypeOK, Awaited, NEW i \in DOMAIN requests, TakeUpload(i)
  PROVE  Awaited'
<1>1. PICK c \in Request : c = requests[i] /\ c \in Under(requests)
  BY WizardTypeFacts DEF Under
<1>2. c.kind = "upload" /\ UNCHANGED <<cars, garage, docs, driver, wizard, unsure>>
  BY <1>1 DEF TakeUpload
<1>3. CASE c.answer # "ok"
  <2>1. Idle(requests[i]) /\ WizardRemembers /\ PageSame
    BY <1>1, <1>2, <1>3 DEF Idle, WizardRemembers, PageSame, Papers
  <2>2. requests' = Rest(i) /\ page' = page
    BY <1>1, <1>3 DEF TakeUpload
  <2> QED BY <2>1, <2>2, AwaitedIfTaken
<1>4. CASE c.answer = "ok"
  <2>1. requests' = Rest(i) \o Loads(page) /\ page' = WithoutCerts(page)
    BY <1>1, <1>4 DEF TakeUpload
  <2>2. page'.cars = page.cars /\ page'.driver = page.driver
    BY <2>1, WithoutCertsTypes, WizardTypeFacts DEF PageTypes
  <2>3. Moves(Under(requests), Under(requests'), {c}, Under(Loads(page)))
    BY <1>1, <2>1, MovesTakenForLoads
  <2>4. /\ Loading("cars")' /\ (page.driver => Loading("certs")')
        /\ \A r \in Under(requests') : r \in Under(requests) \/ (r.kind \in {"cars", "certs"} /\ r.answer = "none")
    BY <2>3, LoadsComing
  <2>5. (Returning => Returning') /\ (Told => Told')
    BY <1>2, <2>3, ReturningStays, ToldStays
  <2>6. Adding => Adding'
    BY <1>2, <2>3, AddingStays
  <2>7. CarsComing'
    <3>1. Gone' \subseteq Gone
      BY <2>4 DEF Gone
    <3>2. Gone' \cap garage' = {} /\ Gone' \subseteq DOMAIN cars'
      BY <1>2, <3>1 DEF Awaited, CarsComing
    <3>3. "cars" \notin unsure' => \A r \in Under(requests') : r.kind = "cars" /\ r.answer = "ok" => r.certs.cars = garage'
      BY <1>2, <2>4 DEF Awaited, CarsComing
    <3> QED BY <2>4, <3>2, <3>3 DEF CarsComing
  <2>8. DriverComing'
    <3>1. \A s \in Under(Loads(page)) :
            /\ s.kind \in {"me", "mode"} /\ s.answer = "ok" => s.flag = driver
            /\ s.kind = "me" => s.answer # "failed"
            /\ s.kind = "me" /\ s.then = "created" => Joining \/ Adding'
      BY LoadsTypes
    <3>2. unsure \subseteq unsure' \cup {"cars"}
      BY <1>2
    <3> QED BY <1>2, <2>2, <2>3, <2>5, <2>6, <3>1, <3>2, DriverStill DEF Awaited
  <2>9. CertsComing'
    <3>1. CertsNow' = CertsNow
      BY <1>2 DEF CertsNow
    <3>2. "certs" \notin unsure' => \A r \in Under(requests') : r.kind = "certs" /\ r.answer = "ok" => r.certs = CertsNow
      BY <1>2, <2>4 DEF Awaited, CertsComing
    <3> QED BY <2>2, <2>4, <3>1, <3>2 DEF CertsComing
  <2> QED BY <2>7, <2>8, <2>9 DEF Awaited
<1> QED BY <1>3, <1>4

LEMMA AwaitedInitially ==
  ASSUME WizardInit
  PROVE  Awaited
<1>1. PICK n \in 0..1, as_driver \in BOOLEAN : Start(n, as_driver)
  BY DEF WizardInit
<1>2. requests = Loads(page) /\ page.driver = driver /\ garage = DOMAIN cars
  BY <1>1 DEF Start
<1>3. \A r \in Under(requests) : r.kind \in {"cars", "certs"} /\ r.answer = "none"
  BY <1>2, LoadsTypes
<1>4. /\ Plain("cars").kind = "cars" /\ Plain("cars").answer = "none"
      /\ Plain("certs").kind = "certs" /\ Plain("certs").answer = "none"
  BY RequestTypes DEF Kinds
<1>5. Loading("cars") /\ (page.driver => Loading("certs"))
  BY <1>2, <1>4, LoadsTypes DEF Loading
<1>6. Gone = {}
  BY <1>3 DEF Gone
<1>7. CarsComing
  BY <1>3, <1>5, <1>6 DEF CarsComing
<1>8. DriverComing
  BY <1>2, <1>3 DEF DriverComing
<1>9. CertsComing
  BY <1>3, <1>5 DEF CertsComing
<1> QED BY <1>7, <1>8, <1>9 DEF Awaited

LEMMA AwaitedSteps ==
  ASSUME WizardTypeOK, Photographed, Awaited, [WizardNext]_wizard_vars
  PROVE  Awaited'
<1>1. CASE Toggle \/ AddVehicle \/ Close \/ SubmitDocument \/ Upload
  BY <1>1, ToggleAwaited, AddVehicleAwaited, CloseAwaited, SubmitDocumentAwaited, UploadAwaited
<1>2. CASE NextStep \/ Back \/ Pick \/ SubmitCar
  BY <1>2, NextStepAwaited, BackAwaited, PickAwaited, SubmitCarAwaited
<1>3. CASE \E car \in CarIds : Delete(car)
  BY <1>3, DeleteAwaited
<1>4. ASSUME NEW i \in DOMAIN requests, Serve(i)
      PROVE  Awaited'
  BY <1>4, ServeReadAwaited, ServeCreateAwaited, ServeDocumentAwaited, ServeDeleteAwaited, ServeModeAwaited DEF Serve
<1>5. ASSUME NEW i \in DOMAIN requests, Take(i)
      PROVE  Awaited'
  <2>1. CASE TakeCars(i) \/ TakeCerts(i) \/ TakeMe(i) \/ TakeMode(i) \/ TakeDelete(i)
    BY <2>1, TakeCarsAwaited, TakeCertsAwaited, TakeMeAwaited, TakeModeAwaited, TakeDeleteAwaited
  <2>2. CASE TakeAnalysis(i) \/ TakeDocument(i) \/ TakeUpload(i) \/ TakeCreate(i) \/ TakeFailure(i)
    BY <2>2, TakeAnalysisAwaited, TakeDocumentAwaited, TakeUploadAwaited, TakeCreateAwaited, TakeFailureAwaited
  <2> QED BY <1>5, <2>1, <2>2 DEF Take
<1>6. ASSUME NEW i \in DOMAIN requests, Lose(i)
      PROVE  Awaited'
  BY <1>6, LoseAwaited
<1>7. CASE UNCHANGED wizard_vars
  BY <1>7 DEF wizard_vars, Awaited, CarsComing, DriverComing, CertsComing, Gone, Loading, Returning, Adding, Told, Passing,
              Changed, Joining, CertsNow
<1> QED BY <1>1, <1>2, <1>3, <1>4, <1>5, <1>6, <1>7 DEF WizardNext

\* Once the wizard is closed and every answer is in, the page shows what the server knows.
LEMMA NothingAwaited ==
  ASSUME Awaited
  PROVE  PageCatchesUp
<1> SUFFICES ASSUME Quiet
             PROVE  /\ page.cars = garage \/ "cars" \in unsure
                    /\ page.driver = driver \/ "driver" \in unsure
                    /\ (page.driver => page.has_certs /\ page.certs = CertsNow) \/ "certs" \in unsure
  BY DEF PageCatchesUp
<1>1. Under(requests) = {} /\ wizard.open = "no"
  BY DEF Quiet, Under
<1>2. Gone = {}
  BY <1>1 DEF Gone
<1>3. ~Loading("cars") /\ ~Loading("certs") /\ ~Returning /\ ~Told /\ ~Adding /\ ~Passing /\ ~Changed
  BY <1>1 DEF Loading, Returning, Told, Adding, Passing, Changed
<1>4. page.cars = garage \/ "cars" \in unsure
  <2>1. "cars" \notin unsure => page.cars \ Gone = garage
    BY <1>3 DEF Awaited, CarsComing
  <2> QED BY <1>2, <2>1
<1>5. page.driver = driver \/ "driver" \in unsure
  BY <1>3 DEF Awaited, DriverComing
<1>6. (page.driver => page.has_certs /\ page.certs = CertsNow) \/ "certs" \in unsure
  BY <1>3 DEF Awaited, CertsComing
<1> QED BY <1>4, <1>5, <1>6

\* However many wizards were opened, closed and answered late: once nothing is under way, the
\* page shows the cars, the mode and the documents of the server, or knows what it missed.
THEOREM PageIsCaughtUp == WizardSpec => []PageCatchesUp
<1>1. WizardInit => WizardIInv
  BY WizardTypesInitially, PhotosInitially, AwaitedInitially DEF WizardIInv
<1>2. WizardIInv /\ [WizardNext]_wizard_vars => WizardIInv'
  <2> SUFFICES ASSUME WizardTypeOK, Photographed, Awaited, [WizardNext]_wizard_vars
               PROVE  WizardTypeOK' /\ Photographed' /\ Awaited'
    BY DEF WizardIInv
  <2> QED BY WizardTypeSteps, PhotosSteps, AwaitedSteps
<1>3. WizardIInv => PageCatchesUp
  BY NothingAwaited DEF WizardIInv
<1> QED BY <1>1, <1>2, <1>3, PTL DEF WizardSpec
=============================================================================
