------------------------------- MODULE MapProofs -------------------------------
(***************************************************************************)
(* What /map quotes, and whom it shows.  The prices are right under every  *)
(* setting and for every distance; what the pages do is what Pricing       *)
(* allows; both pages end up showing what is true, whatever order answers  *)
(* come in; and the gateway's rows and the maps follow the toggles,        *)
(* whatever connections break and servers die in between.                  *)
(***************************************************************************)
EXTENDS Fares, Presence, FiniteSetTheorems, TLAPS

(* Pricing.                                                                *)
\* Math.round, whatever the unit of distance: the nearest whole number.
LEMMA RoundIsNearest ==
  ASSUME NEW n \in Int
  PROVE  /\ Round(n) \in Int
         /\ (2 * Round(n) - 1) * PerKm <= 2 * n
         /\ 2 * n < (2 * Round(n) + 1) * PerKm
<1> DEFINE d == 2 * PerKm
           q == (2 * n + PerKm) \div d
<1>1. PerKm \in Int /\ PerKm > 0 /\ d \in Int /\ d > 0
  BY PricingAssumption
<1>2. q \in Int /\ d * q <= 2 * n + PerKm /\ 2 * n + PerKm < d * q + d
  <2> DEFINE a == 2 * n + PerKm
  <2>1. a \in Int
    BY <1>1
  <2> HIDE DEF a, d
  <2>2. a \div d \in Int /\ d * (a \div d) <= a /\ a < d * (a \div d) + d
    BY <1>1, <2>1, SMTT(30)
  <2> QED
    BY <2>2 DEF a
<1>3. d * q = 2 * q * PerKm
  BY <1>1, <1>2
<1> QED
  BY <1>1, <1>2, <1>3, SMTT(30) DEF Round

\* Rounding keeps the order.
LEMMA RoundIsMonotone ==
  ASSUME NEW m \in Int, NEW n \in Int, m <= n
  PROVE  Round(m) <= Round(n)
<1>1. PerKm \in Int /\ PerKm > 0
  BY PricingAssumption
<1>2. Round(m) \in Int /\ (2 * Round(m) - 1) * PerKm <= 2 * m
  BY RoundIsNearest
<1>3. Round(n) \in Int /\ 2 * n < (2 * Round(n) + 1) * PerKm
  BY RoundIsNearest
<1> DEFINE a == 2 * Round(m) - 1
           b == 2 * Round(n) + 1
<1>4. a \in Int /\ b \in Int /\ a * PerKm < b * PerKm
  BY <1>1, <1>2, <1>3
<1> HIDE DEF a, b
<1>5. a < b
  BY <1>1, <1>4, SMTT(30)
<1> QED
  BY <1>2, <1>3, <1>5 DEF a, b

\* Rounding nothing gives nothing.
LEMMA RoundOfZero == Round(0) = 0
<1>1. PerKm \in Int /\ PerKm > 0
  BY PricingAssumption
<1>2. Round(0) \in Int /\ (2 * Round(0) - 1) * PerKm <= 0 /\ 0 < (2 * Round(0) + 1) * PerKm
  BY RoundIsNearest
<1> DEFINE a == 2 * Round(0) - 1
           b == 2 * Round(0) + 1
<1>3. a \in Int /\ b \in Int /\ a * PerKm <= 0 /\ 0 < b * PerKm
  BY <1>2
<1> HIDE DEF a, b
<1>4. a <= 0 /\ 0 < b
  BY <1>1, <1>3, SMTT(30)
<1> QED
  BY <1>2, <1>4 DEF a, b


LEMMA MarginIsInRate ==
  ASSUME TypeOK
  PROVE  /\ Base \in Int /\ Rate \in Int /\ Margin \in Int
         /\ 0 <= Base /\ 0 <= Margin /\ Margin <= Rate
BY DEF TypeOK, Base, Rate, Margin, AtLeast, AtMost, Keys

\* Before rounding, what the driver is due is a part of what is owed, the rest
\* being the base fee and the margin; and both grow with the distance.
LEMMA DueIsPartOfOwed ==
  ASSUME TypeOK, NEW m \in Int
  PROVE  /\ Owed(m) \in Int /\ Due(m) \in Int
         /\ 0 <= Due(m) /\ Due(m) <= Owed(m)
         /\ Owed(m) - Due(m) = Base * PerKm + AtLeast(0, m) * Margin
<1> DEFINE k == AtLeast(0, m)
<1>1. /\ Base \in Int /\ Rate \in Int /\ Margin \in Int
      /\ 0 <= Base /\ 0 <= Margin /\ Margin <= Rate
  BY MarginIsInRate
<1>2. k \in Int /\ k >= 0
  BY DEF AtLeast
<1>3. PerKm \in Int /\ PerKm > 0
  BY PricingAssumption
<1> HIDE DEF k
<1>4. Base * PerKm \in Int /\ Base * PerKm >= 0
  BY <1>1, <1>3, SMTT(30)
<1>5. k * Margin \in Int /\ k * Margin >= 0
  BY <1>1, <1>2, SMTT(30)
<1>6. k * (Rate - Margin) \in Int /\ k * (Rate - Margin) >= 0
  <2>1. Rate - Margin \in Int /\ Rate - Margin >= 0
    BY <1>1
  <2> QED
    BY <2>1, <1>2, SMTT(30)
<1>7. k * Rate \in Int /\ k * Rate = k * (Rate - Margin) + k * Margin
  BY <1>1, <1>2, SMTT(30)
<1> QED
  BY <1>4, <1>5, <1>6, <1>7 DEF Owed, Due, k

LEMMA OwedAndDueGrow ==
  ASSUME TypeOK, NEW m \in Int, NEW n \in Int, m <= n
  PROVE  Owed(m) <= Owed(n) /\ Due(m) <= Due(n)
<1> DEFINE j == AtLeast(0, m)
           k == AtLeast(0, n)
           r == Rate - Margin
<1>1. /\ Base \in Int /\ Rate \in Int /\ Margin \in Int
      /\ 0 <= Base /\ 0 <= Margin /\ Margin <= Rate
  BY MarginIsInRate
<1>2. j \in Int /\ k \in Int /\ j <= k
  BY DEF AtLeast
<1>3. r \in Int /\ r >= 0 /\ Rate >= 0
  BY <1>1
<1> HIDE DEF j, k, r
<1>4. j * Rate <= k * Rate /\ j * Rate \in Int /\ k * Rate \in Int
  BY <1>1, <1>2, <1>3, SMTT(30)
<1>5. j * r <= k * r
  BY <1>2, <1>3, SMTT(30)
<1>6. PerKm \in Int
  BY PricingAssumption
<1>7. Base * PerKm \in Int
  BY <1>1, <1>6
<1> QED
  BY <1>4, <1>5, <1>7 DEF Owed, Due, j, k, r

\* A quote: the share is between nothing and the fare.
LEMMA ShareIsPartOfFare ==
  ASSUME TypeOK, NEW m \in Int
  PROVE  /\ Fare(m) \in Int /\ DriverShare(m) \in Int
         /\ 0 <= DriverShare(m) /\ DriverShare(m) <= Fare(m)
<1>1. Owed(m) \in Int /\ Due(m) \in Int /\ 0 <= Due(m) /\ Due(m) <= Owed(m)
  BY DueIsPartOfOwed
<1>2. Fare(m) \in Int /\ DriverShare(m) \in Int
  BY <1>1, RoundIsNearest DEF Fare, DriverShare
<1>3. Round(0) <= DriverShare(m) /\ DriverShare(m) <= Fare(m)
  BY <1>1, RoundIsMonotone DEF Fare, DriverShare
<1> QED
  BY <1>2, <1>3, RoundOfZero

-----------------------------------------------------------------------------
Priced == TypeOK /\ QuoteIsPayable

LEMMA PricedInit == Init => Priced
BY PricingAssumption
   DEF Init, Priced, TypeOK, QuoteIsPayable, Quote, NoQuote, Base, Rate, Keys

LEMMA PricedStep == Priced /\ [Next]_vars => Priced'
<1> SUFFICES ASSUME Priced, [Next]_vars
             PROVE  Priced'
  OBVIOUS
<1> USE DEF Priced
<1>1. ASSUME NEW k \in Keys, NEW v \in Values, Update(k, v)
      PROVE  Priced'
  <2>1. v \in Int
    BY PricingAssumption
  <2>2. quote' = quote /\ setting' = [setting EXCEPT ![k] = v] /\ v >= 0
    BY <1>1 DEF Update
  <2>3. TypeOK'
    BY <2>1, <2>2 DEF TypeOK, Base, Rate, Keys
  <2> QED
    BY <2>2, <2>3 DEF QuoteIsPayable
<1>2. CASE ForgetOverrides
  <2>1. TypeOK'
    BY <1>2, PricingAssumption DEF ForgetOverrides, TypeOK, Base, Rate, Keys
  <2> QED
    BY <1>2, <2>1 DEF ForgetOverrides, QuoteIsPayable
<1>3. ASSUME NEW m \in Distances, Price(m)
      PROVE  Priced'
  <2>1. m \in Int
    BY PricingAssumption
  <2>2. /\ setting' = setting
        /\ quote' = [distance |-> m, fare |-> Fare(m), share |-> DriverShare(m)]
    BY <1>3 DEF Price
  <2>3. /\ Fare(m) \in Int /\ DriverShare(m) \in Int
        /\ 0 <= DriverShare(m) /\ DriverShare(m) <= Fare(m)
    BY <2>1, ShareIsPartOfFare
  <2>4. TypeOK'
    BY <2>1, <2>2, <2>3 DEF TypeOK, Quote, Base, Rate
  <2> QED
    BY <2>2, <2>3, <2>4 DEF QuoteIsPayable
<1>4. CASE UNCHANGED vars
  BY <1>4 DEF vars, TypeOK, QuoteIsPayable, Base, Rate
<1> QED
  BY <1>1, <1>2, <1>3, <1>4 DEF Next

\* The settings stay well typed and every quote is payable, in every state.
LEMMA Invariance == Spec => []Priced
BY PricedInit, PricedStep, PTL DEF Spec

\* Types of settings and quotes.
THEOREM TypeCorrect == Spec => []TypeOK
<1>1. Priced => TypeOK
  BY DEF Priced
<1> QED
  BY Invariance, <1>1, PTL

\* settleTrip never refuses a quote for its share, for any unit of distance,
\* any distances and any values typed by the admins.
THEOREM QuotesArePayable == Spec => []QuoteIsPayable
<1>1. Priced => QuoteIsPayable
  BY DEF Priced
<1> QED
  BY Invariance, <1>1, PTL

\* A longer route never costs less nor earns less.
THEOREM LongerCostsMore == Spec => []LongerIsNotCheaper
<1>1. TypeOK => LongerIsNotCheaper
  <2> SUFFICES ASSUME TypeOK, NEW m \in Distances, NEW n \in Distances, m <= n
               PROVE  Fare(m) <= Fare(n) /\ DriverShare(m) <= DriverShare(n)
    BY DEF LongerIsNotCheaper
  <2>1. m \in Int /\ n \in Int
    BY PricingAssumption
  <2>2. Owed(m) <= Owed(n) /\ Due(m) <= Due(n)
    BY <2>1, OwedAndDueGrow
  <2>3. Owed(m) \in Int /\ Owed(n) \in Int /\ Due(m) \in Int /\ Due(n) \in Int
    BY <2>1, DueIsPartOfOwed
  <2> QED
    BY <2>2, <2>3, RoundIsMonotone DEF Fare, DriverShare
<1> QED
  BY TypeCorrect, <1>1, PTL

\* Rounding twice moves the platform's part by one franc at most.
THEOREM PlatformIsPaid == Spec => []PlatformKeepsItsCut
<1>1. TypeOK => PlatformKeepsItsCut
  <2> SUFFICES ASSUME TypeOK, NEW m \in Distances
               PROVE  LET part == (Fare(m) - DriverShare(m)) * PerKm
                          cut == Base * PerKm + AtLeast(0, m) * Margin
                      IN  cut - PerKm <= part /\ part <= cut + PerKm
    BY DEF PlatformKeepsItsCut
  <2> DEFINE f == Fare(m)
             s == DriverShare(m)
             cut == Base * PerKm + AtLeast(0, m) * Margin
  <2>1. PerKm \in Int /\ PerKm > 0 /\ m \in Int
    BY PricingAssumption
  <2>2. Owed(m) \in Int /\ Due(m) \in Int /\ Owed(m) - Due(m) = cut
    BY <2>1, DueIsPartOfOwed
  <2>3. f \in Int /\ (2 * f - 1) * PerKm <= 2 * Owed(m) /\ 2 * Owed(m) < (2 * f + 1) * PerKm
    BY <2>2, RoundIsNearest DEF Fare
  <2>4. s \in Int /\ (2 * s - 1) * PerKm <= 2 * Due(m) /\ 2 * Due(m) < (2 * s + 1) * PerKm
    BY <2>2, RoundIsNearest DEF DriverShare
  <2> HIDE DEF f, s, cut
  <2>5. (2 * f - 1) * PerKm = 2 * (f * PerKm) - PerKm /\ (2 * f + 1) * PerKm = 2 * (f * PerKm) + PerKm
    BY <2>1, <2>3
  <2>6. (2 * s - 1) * PerKm = 2 * (s * PerKm) - PerKm /\ (2 * s + 1) * PerKm = 2 * (s * PerKm) + PerKm
    BY <2>1, <2>4
  <2>7. f * PerKm \in Int /\ s * PerKm \in Int /\ (f - s) * PerKm = f * PerKm - s * PerKm
    BY <2>1, <2>3, <2>4
  <2>8. cut - PerKm <= (f - s) * PerKm /\ (f - s) * PerKm <= cut + PerKm
    BY <2>1, <2>2, <2>3, <2>4, <2>5, <2>6, <2>7
  <2> QED
    BY <2>8 DEF f, s, cut
<1> QED
  BY TypeCorrect, <1>1, PTL

\* The fare is what is owed, to the nearest franc.
THEOREM FareIsRounded == Spec => []FareIsNearest
<1>1. TypeOK => FareIsNearest
  <2> SUFFICES ASSUME TypeOK, NEW m \in Distances
               PROVE  LET low == (2 * Fare(m) - 1) * PerKm
                      IN  low <= 2 * Owed(m) /\ 2 * Owed(m) < low + 2 * PerKm
    BY DEF FareIsNearest
  <2>1. PerKm \in Int /\ m \in Int
    BY PricingAssumption
  <2>2. Owed(m) \in Int
    BY <2>1, DueIsPartOfOwed
  <2>3. /\ Fare(m) \in Int
        /\ (2 * Fare(m) - 1) * PerKm <= 2 * Owed(m)
        /\ 2 * Owed(m) < (2 * Fare(m) + 1) * PerKm
    BY <2>2, RoundIsNearest DEF Fare
  <2>4. (2 * Fare(m) + 1) * PerKm = (2 * Fare(m) - 1) * PerKm + 2 * PerKm
    BY <2>1, <2>3
  <2> QED
    BY <2>3, <2>4
<1> QED
  BY TypeCorrect, <1>1, PTL

-----------------------------------------------------------------------------
(* The pages: the inductive invariant.                                     *)
\* An answer is the fare of the journey it was asked for.
Answered(ask) == ask.answer = NoFare \/ (~ask.failed /\ ask.answer.of = ask.of)
\* Only the last estimate is heeded; once the timer is still it is of the journey chosen.
Live(i) == asks[i].live
Following ==
  /\ \A i \in DOMAIN asks : Answered(asks[i])
  /\ \A i, j \in DOMAIN asks : Live(i) /\ Live(j) => i = j
  /\ \A i \in DOMAIN asks : Live(i) /\ ~map.timer => asks[i].of = Journey

\* What the desk does not show yet is on its way.
Saved(c) == c.kind = "save" => c.key \in Keys /\ c.value \in Values
InForce(c) == c.kind = "load" => c.answer = "none" \/ (c.answer = "ok" /\ c.all = setting)
Brings(c) == c.kind = "load" \/ c.answer = "ok"
UpToDate == desk.cards /\ desk.seen = setting
Catching ==
  /\ \A i \in DOMAIN calls : Saved(calls[i])
  /\ ~unsure => /\ \A i \in DOMAIN calls : InForce(calls[i])
                /\ desk.open => UpToDate \/ \E i \in DOMAIN calls : Brings(calls[i])

IInv == FaresTypeOK /\ QuoteIsPayable /\ Following /\ FareIsOfJourney /\ Catching

-----------------------------------------------------------------------------
(* Sequences.                                                              *)
\* One element replaced.
LEMMA OneReplaced ==
  ASSUME NEW S, NEW s \in Seq(S), NEW i \in DOMAIN s, NEW e \in S, NEW t, t = [s EXCEPT ![i] = e]
  PROVE  /\ t \in Seq(S) /\ Len(t) = Len(s) /\ DOMAIN t = DOMAIN s
         /\ t[i] = e /\ \A k \in DOMAIN s \ {i} : t[k] = s[k]
OBVIOUS

\* One element appended.
LEMMA OneAppended ==
  ASSUME NEW S, NEW s \in Seq(S), NEW e \in S, NEW t, t = Append(s, e)
  PROVE  /\ t \in Seq(S) /\ Len(t) = Len(s) + 1 /\ DOMAIN t = DOMAIN s \cup {Len(s) + 1}
         /\ t[Len(s) + 1] = e /\ \A k \in DOMAIN s : t[k] = s[k]
OBVIOUS

\* Where element k was before element i was removed.
Was(i, k) == IF k < i THEN k ELSE k + 1
\* One element removed: the others keep their order.
LEMMA OneRemoved ==
  ASSUME NEW S, NEW s \in Seq(S), NEW i \in DOMAIN s, NEW t, t = RemoveAt(s, i)
  PROVE  /\ t \in Seq(S) /\ Len(t) = Len(s) - 1
         /\ \A k \in DOMAIN t : t[k] = s[Was(i, k)] /\ Was(i, k) \in DOMAIN s
         /\ \A j \in DOMAIN s \ {i} : \E k \in DOMAIN t : t[k] = s[j]
<1> DEFINE u == SubSeq(s, 1, i - 1)
           v == SubSeq(s, i + 1, Len(s))
<1>1. i \in 1..Len(s) /\ Len(s) \in Nat
  OBVIOUS
<1>2. u \in Seq(S) /\ Len(u) = i - 1 /\ \A k \in 1..(i - 1) : u[k] = s[k]
  BY <1>1
<1>3. v \in Seq(S) /\ Len(v) = Len(s) - i /\ \A k \in 1..(Len(s) - i) : v[k] = s[i + k]
  BY <1>1
<1>4. t = u \o v
  BY DEF RemoveAt
<1> HIDE DEF u, v
<1>5. t \in Seq(S) /\ Len(t) = Len(s) - 1
  BY <1>1, <1>2, <1>3, <1>4
<1>6. ASSUME NEW k \in DOMAIN t
      PROVE  /\ t[k] = s[IF k < i THEN k ELSE k + 1]
             /\ (IF k < i THEN k ELSE k + 1) \in DOMAIN s
  <2>1. k \in 1..(Len(s) - 1)
    BY <1>5
  <2>2. CASE k < i
    BY <2>1, <2>2, <1>1, <1>2, <1>3, <1>4
  <2>3. CASE ~(k < i)
    <3> DEFINE m == k - (i - 1)
    <3>1. t[k] = v[m]
      BY <2>1, <2>3, <1>1, <1>2, <1>3, <1>4
    <3>2. m \in 1..(Len(s) - i) /\ i + m = k + 1 /\ k + 1 \in 1..Len(s)
      BY <2>1, <2>3, <1>1
    <3> HIDE DEF m
    <3>3. v[m] = s[k + 1]
      BY <3>2, <1>3
    <3> QED BY <3>1, <3>2, <3>3, <2>3
  <2> QED BY <2>2, <2>3
<1>7. ASSUME NEW j \in DOMAIN s \ {i}
      PROVE  \E k \in DOMAIN t : t[k] = s[j]
  <2> DEFINE k == IF j < i THEN j ELSE j - 1
  <2>1. k \in DOMAIN t /\ (IF k < i THEN k ELSE k + 1) = j
    BY <1>1, <1>5
  <2> HIDE DEF k
  <2> QED BY <2>1, <1>6
<1> QED BY <1>5, <1>6, <1>7 DEF Was

-----------------------------------------------------------------------------
(* Whose steps there are.                                                  *)
OnMap ==
  \/ \E p \in Places : Fix(p)
  \/ \E p \in Places \cup {None} : Place(p)
  \/ \E town \in Towns \cup {None} : Choose(town)
  \/ Visible \/ Fire \/ Remount \/ Reload \/ Wait \/ StopWaiting
  \/ \E balance \in Balances \cup {Unknown} : Credit(balance)
  \/ \E i \in DOMAIN asks : ServeEstimate(i) \/ TakeEstimate(i)
OnDesk ==
  \/ OpenDesk \/ Elsewhere
  \/ \E k \in Keys, v \in Values : Save(k, v)
  \/ \E i \in DOMAIN calls : ServeSave(i) \/ ServeLoad(i) \/ Lose(i) \/ TakeSave(i) \/ TakeLoad(i)
OnTrip == \E legs \in Routes : PriceRoute(legs)

\* The map, the desk and the trips only meet in the tariffs.
LEMMA Apart ==
  ASSUME [FaresNext]_all
  PROVE  \/ OnMap /\ UNCHANGED <<vars, admin, route>>
         \/ OnDesk /\ UNCHANGED <<page, route>>
         \/ OnTrip /\ UNCHANGED <<page, admin>>
         \/ UNCHANGED all
<1>1. OnMap => UNCHANGED <<vars, admin, route>>
  BY DEF OnMap, Fix, Place, Choose, Visible, Fire, Remount, Reload, Wait, StopWaiting, Credit,
         ServeEstimate, TakeEstimate
<1>2. OnDesk => UNCHANGED <<page, route>>
  BY DEF OnDesk, OpenDesk, Elsewhere, Save, ServeSave, ServeLoad, Lose, TakeSave, TakeLoad
<1>3. OnTrip => UNCHANGED <<page, admin>>
  BY DEF OnTrip, PriceRoute
<1>4. FaresNext => OnMap \/ OnDesk \/ OnTrip
  BY DEF FaresNext, OnMap, OnDesk, OnTrip
<1> QED BY <1>1, <1>2, <1>3, <1>4

\* A step of the desk or of a trip is one that Pricing allows.
LEMMA Allowed ==
  ASSUME Catching, [FaresNext]_all
  PROVE  [Next]_vars
<1>1. CASE OnDesk
  <2>1. ASSUME NEW i \in DOMAIN calls, ServeSave(i)
        PROVE  Next
    <3>1. calls[i].key \in Keys /\ calls[i].value \in Values /\ Update(calls[i].key, calls[i].value)
      BY <2>1 DEF Catching, Saved, ServeSave
    <3> QED BY <3>1 DEF Next
  <2>2. CASE Elsewhere
    BY <2>2 DEF Elsewhere, Next
  <2>3. CASE \/ OpenDesk \/ \E k \in Keys, v \in Values : Save(k, v)
             \/ \E i \in DOMAIN calls : ServeLoad(i) \/ Lose(i) \/ TakeSave(i) \/ TakeLoad(i)
    BY <2>3 DEF OpenDesk, Save, ServeLoad, Lose, TakeSave, TakeLoad
  <2> QED BY <1>1, <2>1, <2>2, <2>3 DEF OnDesk
<1>2. CASE OnTrip
  <2>1. PICK legs \in Routes : PriceRoute(legs)
    BY <1>2 DEF OnTrip
  <2>2. PICK m \in Measures(legs) : Price(m)
    BY <2>1 DEF PriceRoute
  <2>3. m \in Distances
    BY <2>2, FaresAssumption
  <2> QED BY <2>2, <2>3 DEF Next
<1> QED BY <1>1, <1>2, Apart DEF all

-----------------------------------------------------------------------------
(* Types.                                                                  *)
LEMMA JourneyType ==
  ASSUME map \in Map
  PROVE  Journey \in Journeys \cup {None}
BY DEF Map, Journey, Effective, Journeys

LEMMA SameJourney ==
  ASSUME map'.manual = map.manual, map'.fix = map.fix, map'.town = map.town
  PROVE  Journey' = Journey
BY DEF Journey, Effective

\* No fare is of a journey.
LEMMA NoFareIsOfNone == NoFare.of = None /\ None \notin Journeys
BY FaresAssumption DEF NoFare

\* Aborting keeps the estimates, but for their being heeded.
LEMMA AbortedType ==
  ASSUME asks \in Seq(Estimate)
  PROVE  /\ Aborted \in Seq(Estimate) /\ Len(Aborted) = Len(asks) /\ DOMAIN Aborted = DOMAIN asks
         /\ \A i \in DOMAIN asks : /\ ~Aborted[i].live /\ Aborted[i].of = asks[i].of
                                   /\ Aborted[i].answer = asks[i].answer
                                   /\ Aborted[i].failed = asks[i].failed
<1>1. \A i \in DOMAIN asks : asks[i] \in Estimate
  OBVIOUS
<1>2. \A i \in DOMAIN asks : [asks[i] EXCEPT !.live = FALSE] \in Estimate
  BY <1>1 DEF Estimate
<1>3. /\ DOMAIN Aborted = DOMAIN asks
      /\ \A i \in DOMAIN asks : Aborted[i] = [asks[i] EXCEPT !.live = FALSE]
  BY DEF Aborted
<1>4. DOMAIN asks = 1..Len(asks) /\ Len(asks) \in Nat
  OBVIOUS
<1> DEFINE t == Aborted
<1>5. t = [i \in 1..Len(asks) |-> t[i]]
  BY <1>4 DEF Aborted
<1>6. \A i \in 1..Len(asks) : t[i] \in Estimate
  BY <1>2, <1>3, <1>4
<1>7. DOMAIN t = DOMAIN asks /\ \A i \in DOMAIN asks : t[i] = [asks[i] EXCEPT !.live = FALSE]
  BY <1>3
<1> HIDE DEF t
<1>8. t \in [1..Len(asks) -> Estimate]
  BY <1>5, <1>6
<1>9. t \in Seq(Estimate) /\ Len(t) = Len(asks)
  BY <1>4, <1>8
<1>10. \A i \in DOMAIN asks : ~t[i].live /\ t[i].of = asks[i].of /\ t[i].answer = asks[i].answer
                              /\ t[i].failed = asks[i].failed
  BY <1>1, <1>7 DEF Estimate
<1> QED BY <1>7, <1>9, <1>10 DEF t

\* What was asked before, and aborted; and the new estimate.
Asking == [of |-> Journey, live |-> TRUE, answer |-> NoFare, failed |-> FALSE]
LEMMA AskingType ==
  ASSUME map \in Map, Journey # None
  PROVE  Asking \in Estimate
BY JourneyType DEF Asking, Estimate, Shown

\* An answer to an estimate is one.
LEMMA ServedType ==
  ASSUME FaresTypeOK, NEW i \in DOMAIN asks, ServeEstimate(i)
  PROVE  \E e \in Estimate :
           /\ asks' = [asks EXCEPT ![i] = e]
           /\ e.of = asks[i].of /\ e.live = asks[i].live
           /\ Answered(e)
<1> DEFINE e == asks'[i]
<1>0. asks[i] \in Estimate /\ asks \in Seq(Estimate)
  BY DEF FaresTypeOK
<1>1. asks[i] \in Estimate /\ asks[i].of \in Journeys /\ asks \in Seq(Estimate)
  BY <1>0 DEF Estimate
<1>2. ASSUME NEW m \in Lengths[asks[i].of],
             asks' = [asks EXCEPT ![i].answer = [of |-> asks[i].of, fare |-> Fare(m)]]
      PROVE  /\ asks' = [asks EXCEPT ![i] = e] /\ e \in Estimate
             /\ e.of = asks[i].of /\ e.live = asks[i].live /\ Answered(e)
  <2>1. m \in Int
    BY <1>1, FaresAssumption, PricingAssumption
  <2>2. Fare(m) \in Int
    BY <2>1, ShareIsPartOfFare DEF FaresTypeOK
  <2>3. e = [asks[i] EXCEPT !.answer = [of |-> asks[i].of, fare |-> Fare(m)]]
    BY <1>1, <1>2
  <2>4. [of |-> asks[i].of, fare |-> Fare(m)] \in Shown
    BY <1>1, <2>2 DEF Shown
  <2>5. e \in Estimate /\ e.of = asks[i].of /\ e.live = asks[i].live /\ e.failed = asks[i].failed
        /\ e.answer.of = asks[i].of
    BY <1>1, <2>3, <2>4 DEF Estimate
  <2> QED BY <1>1, <1>2, <2>3, <2>5 DEF Answered, ServeEstimate
<1>3. ASSUME asks' = [asks EXCEPT ![i].failed = TRUE]
      PROVE  /\ asks' = [asks EXCEPT ![i] = e] /\ e \in Estimate
             /\ e.of = asks[i].of /\ e.live = asks[i].live /\ Answered(e)
  <2>1. e = [asks[i] EXCEPT !.failed = TRUE]
    BY <1>1, <1>3
  <2>2. e \in Estimate /\ e.of = asks[i].of /\ e.live = asks[i].live /\ e.answer = asks[i].answer
    BY <1>1, <2>1 DEF Estimate
  <2> QED BY <1>1, <1>3, <2>1, <2>2 DEF Answered, ServeEstimate
<1> QED BY <1>2, <1>3 DEF ServeEstimate

\* What the actions make of the map is a map.
LEMMA MapWith ==
  ASSUME NEW m \in Map, NEW p \in Places \cup {None}, NEW town \in Towns \cup {None},
         NEW b \in BOOLEAN, NEW c \in BOOLEAN, NEW s \in Shown, NEW balance \in Balances \cup {Unknown}
  PROVE  /\ [m EXCEPT !.fix = p, !.timer = b] \in Map
         /\ [m EXCEPT !.manual = p, !.timer = b] \in Map
         /\ [m EXCEPT !.town = town, !.timer = b] \in Map
         /\ [m EXCEPT !.gps = b] \in Map
         /\ [m EXCEPT !.timer = b, !.shown = s, !.error = c, !.spins = c] \in Map
         /\ [m EXCEPT !.timer = b, !.error = b, !.spins = c] \in Map
         /\ [m EXCEPT !.shown = s, !.error = b, !.spins = c] \in Map
         /\ [m EXCEPT !.spins = b] \in Map
         /\ [m EXCEPT !.credit = balance] \in Map
         /\ [m EXCEPT !.waiting = b] \in Map
<1>1. [m EXCEPT !.fix = p, !.timer = b] \in Map
  BY DEF Map
<1>2. [m EXCEPT !.manual = p, !.timer = b] \in Map
  BY DEF Map
<1>3. [m EXCEPT !.town = town, !.timer = b] \in Map
  BY DEF Map
<1>4. [m EXCEPT !.gps = b] \in Map
  BY DEF Map
<1>5. [m EXCEPT !.timer = b, !.shown = s, !.error = c, !.spins = c] \in Map
  BY DEF Map
<1>6. [m EXCEPT !.timer = b, !.error = b, !.spins = c] \in Map
  BY DEF Map
<1>7. [m EXCEPT !.shown = s, !.error = b, !.spins = c] \in Map
  BY DEF Map
<1>8. [m EXCEPT !.spins = b] \in Map
  BY DEF Map
<1>9. [m EXCEPT !.credit = balance] \in Map
  BY DEF Map
<1>10. [m EXCEPT !.waiting = b] \in Map
  BY DEF Map
<1> QED BY <1>1, <1>2, <1>3, <1>4, <1>5, <1>6, <1>7, <1>8, <1>9, <1>10

\* The map keeps its type.
LEMMA MapStep ==
  ASSUME FaresTypeOK, OnMap
  PROVE  map' \in Map /\ kept' \in Storage /\ asks' \in Seq(Estimate) /\ turns' \in 0..MaxTurns
<1>0. /\ map \in Map /\ kept \in Storage /\ asks \in Seq(Estimate) /\ turns \in 0..MaxTurns
      /\ NoFare \in Shown /\ TRUE \in BOOLEAN /\ FALSE \in BOOLEAN
  BY DEF FaresTypeOK, Shown
<1>1. turns' \in 0..MaxTurns
  <2>1. Turn \/ UNCHANGED turns
    BY DEF OnMap, Fix, Place, Choose, Visible, Fire, Remount, Reload, Wait, StopWaiting, Credit,
           ServeEstimate, TakeEstimate
  <2> QED BY <1>0, <2>1, FaresAssumption DEF Turn
<1>2. kept' \in Storage
  <2>1. \/ UNCHANGED kept
        \/ \E p \in Places \cup {None} : kept' = [kept EXCEPT !.manual = p]
        \/ \E town \in Towns \cup {None} : kept' = [kept EXCEPT !.town = town]
    BY DEF OnMap, Fix, Place, Choose, Visible, Fire, Remount, Reload, Wait, StopWaiting, Credit,
           ServeEstimate, TakeEstimate, KeptPlace, KeptTown
  <2> QED BY <1>0, <2>1 DEF Storage
<1>3. asks' \in Seq(Estimate)
  <2>1. CASE Fire /\ Journey = None
    BY <1>0, <2>1, AbortedType DEF Fire
  <2>2. CASE Fire /\ Journey # None
    <3>1. asks' = Append(Aborted, Asking)
      BY <2>2 DEF Fire, Asking
    <3>2. Asking \in Estimate /\ Aborted \in Seq(Estimate)
      BY <1>0, <2>2, AskingType, AbortedType
    <3> QED BY <3>1, <3>2
  <2>3. ASSUME NEW i \in DOMAIN asks, ServeEstimate(i)
        PROVE  asks' \in Seq(Estimate)
    <3>1. PICK e \in Estimate : asks' = [asks EXCEPT ![i] = e]
      BY <2>3, ServedType
    <3> QED BY <1>0, <3>1, OneReplaced
  <2>4. ASSUME NEW i \in DOMAIN asks, TakeEstimate(i)
        PROVE  asks' \in Seq(Estimate)
    BY <1>0, <2>4, OneRemoved DEF TakeEstimate
  <2>5. asks' = << >> \/ UNCHANGED asks \/ Fire
        \/ (\E i \in DOMAIN asks : ServeEstimate(i) \/ TakeEstimate(i))
    BY DEF OnMap, Fix, Place, Choose, Visible, Remount, Reload, Wait, StopWaiting, Credit
  <2>6. asks' = << >> => asks' \in Seq(Estimate)
    OBVIOUS
  <2>7. asks' = asks => asks' \in Seq(Estimate)
    BY <1>0
  <2> QED BY <2>1, <2>2, <2>3, <2>4, <2>5, <2>6, <2>7, Zenon
<1>4. map' \in Map
  <2>1. ASSUME NEW p \in Places, Fix(p)
        PROVE  map' \in Map
    <3>1. (map.timer \/ map.manual = None) \in BOOLEAN
      BY Zenon
    <3> QED BY <1>0, <2>1, <3>1, MapWith DEF Fix
  <2>2. ASSUME NEW p \in Places \cup {None}, Place(p)
        PROVE  map' \in Map
    BY <1>0, <2>2, MapWith DEF Place
  <2>3. ASSUME NEW town \in Towns \cup {None}, Choose(town)
        PROVE  map' \in Map
    BY <1>0, <2>3, MapWith DEF Choose, Chosen
  <2>4. CASE Visible
    <3>1. (~map.gps) \in BOOLEAN
      BY Zenon
    <3> QED BY <1>0, <2>4, <3>1, MapWith DEF Visible
  <2>5. CASE Fire
    BY <1>0, <2>5, MapWith DEF Fire
  <2>6. CASE Remount
    BY <1>0, <2>6 DEF Remount, Mounted, Map
  <2>7. CASE Reload
    BY <1>0, <2>7 DEF Reload, Blank, Map, Storage
  <2>8. CASE Wait \/ StopWaiting
    BY <1>0, <2>8, MapWith DEF Wait, StopWaiting
  <2>9. ASSUME NEW balance \in Balances \cup {Unknown}, Credit(balance)
        PROVE  map' \in Map
    BY <1>0, <2>9, MapWith DEF Credit
  <2>10. CASE \E i \in DOMAIN asks : ServeEstimate(i)
    BY <1>0, <2>10 DEF ServeEstimate
  <2>11. ASSUME NEW i \in DOMAIN asks, TakeEstimate(i)
         PROVE  map' \in Map
    <3>1. asks[i] \in Estimate
      BY <1>0
    <3>2. asks[i].answer \in Shown /\ (asks[i].failed = TRUE \/ asks[i].failed = FALSE)
      BY <3>1 DEF Estimate
    <3>3. asks[i].failed \in BOOLEAN
      BY <3>2, Zenon
    <3> QED BY <1>0, <2>11, <3>2, <3>3, MapWith DEF TakeEstimate
  <2> QED BY <2>1, <2>2, <2>3, <2>4, <2>5, <2>6, <2>7, <2>8, <2>9, <2>10, <2>11 DEF OnMap
<1> QED BY <1>1, <1>2, <1>3, <1>4

-----------------------------------------------------------------------------
(* The passenger's map.                                                    *)

\* Estimates are answered, taken and asked in whatever order: only the last one is heeded.
LEMMA FollowingStep ==
  ASSUME FaresTypeOK, Following, FareIsOfJourney, OnMap
  PROVE  Following' /\ FareIsOfJourney'
<1>0. map \in Map /\ asks \in Seq(Estimate) /\ \A i \in DOMAIN asks : asks[i] \in Estimate
  BY DEF FaresTypeOK
<1>1. ASSUME UNCHANGED asks, map'.timer
      PROVE  Following' /\ FareIsOfJourney'
  BY <1>1 DEF Following, FareIsOfJourney, Awaited, Live, Answered
<1>2. ASSUME UNCHANGED asks,
             UNCHANGED <<map.manual, map.fix, map.town, map.timer, map.shown, map.spins, map.error>>
      PROVE  Following' /\ FareIsOfJourney'
  <2>1. Journey' = Journey
    BY <1>2, SameJourney
  <2> QED BY <1>2, <2>1 DEF Following, FareIsOfJourney, Awaited, Live, Answered
<1>3. ASSUME NEW p \in Places, Fix(p)
      PROVE  Following' /\ FareIsOfJourney'
  <2>1. CASE map.timer \/ map.manual = None
    <3>1. map'.timer /\ UNCHANGED asks
      BY <1>0, <1>3, <2>1 DEF Fix, Map
    <3> QED BY <3>1, <1>1
  <2>2. CASE ~(map.timer \/ map.manual = None)
    <3>1. /\ UNCHANGED asks /\ UNCHANGED <<map.manual, map.town, map.shown, map.spins, map.error>>
          /\ ~map'.timer
      BY <1>0, <1>3, <2>2 DEF Fix, Map
    <3>2. Journey' = Journey
      BY <2>2, <3>1 DEF Journey, Effective
    <3> QED BY <2>2, <3>1, <3>2 DEF Following, FareIsOfJourney, Awaited, Live, Answered
  <2> QED BY <2>1, <2>2
<1>4. ASSUME NEW p \in Places \cup {None}, Place(p)
      PROVE  Following' /\ FareIsOfJourney'
  <2>1. map'.timer /\ UNCHANGED asks
    BY <1>0, <1>4 DEF Place, Map
  <2> QED BY <2>1, <1>1
<1>5. ASSUME NEW town \in Towns \cup {None}, Choose(town)
      PROVE  Following' /\ FareIsOfJourney'
  <2>1. map'.timer /\ UNCHANGED asks
    BY <1>0, <1>5 DEF Choose, Chosen, Map
  <2> QED BY <2>1, <1>1
<1>6. CASE Visible \/ Wait \/ StopWaiting \/ \E balance \in Balances \cup {Unknown} : Credit(balance)
  <2>1. /\ UNCHANGED asks
        /\ UNCHANGED <<map.manual, map.fix, map.town, map.timer, map.shown, map.spins, map.error>>
    BY <1>0, <1>6 DEF Visible, Wait, StopWaiting, Credit, Map
  <2> QED BY <2>1, <1>2
<1>7. CASE Fire /\ Journey = None
  <2>1. /\ asks' = Aborted
        /\ map' = [map EXCEPT !.timer = FALSE, !.shown = NoFare, !.error = FALSE, !.spins = FALSE]
    BY <1>7 DEF Fire
  <2>2. /\ UNCHANGED <<map.manual, map.fix, map.town>>
        /\ map'.shown = NoFare /\ ~map'.spins
    BY <1>0, <2>1 DEF Map
  <2>3. Journey' = None
    BY <1>7, <2>2, SameJourney
  <2>4. \A i \in DOMAIN asks' : i \in DOMAIN asks /\ ~asks'[i].live /\ Answered(asks'[i])
    BY <1>0, <2>1, AbortedType DEF Following, Answered
  <2> QED BY <2>2, <2>3, <2>4, NoFareIsOfNone DEF Following, FareIsOfJourney, Live, Answered
<1>8. CASE Fire /\ Journey # None
  <2>1. /\ asks' = Append(Aborted, Asking)
        /\ map' = [map EXCEPT !.timer = FALSE, !.error = FALSE, !.spins = TRUE]
    BY <1>8 DEF Fire, Asking
  <2>2. UNCHANGED <<map.manual, map.fix, map.town>>
    BY <1>0, <2>1 DEF Map
  <2>3. Journey' = Journey
    BY <2>2, SameJourney
  <2>4. /\ DOMAIN asks' = DOMAIN asks \cup {Len(asks) + 1}
        /\ asks'[Len(asks) + 1] = Asking /\ \A k \in DOMAIN asks : asks'[k] = Aborted[k]
    BY <1>0, <1>8, <2>1, AbortedType, AskingType, OneAppended
  <2>5. \A i \in DOMAIN asks : ~asks'[i].live /\ Answered(asks'[i])
    BY <1>0, <2>4, AbortedType DEF Following, Answered
  <2>6. Asking.live /\ Asking.of = Journey /\ Answered(Asking)
    BY DEF Asking, Answered
  <2> QED BY <2>3, <2>4, <2>5, <2>6 DEF Following, FareIsOfJourney, Awaited, Live, Answered
<1>9. CASE Remount \/ Reload
  <2>1. map'.timer /\ asks' = << >>
    BY <1>0, <1>9 DEF Remount, Reload, Mounted, Blank, Map
  <2> QED BY <2>1 DEF Following, FareIsOfJourney, Awaited
<1>10. ASSUME NEW i \in DOMAIN asks, ServeEstimate(i)
       PROVE  Following' /\ FareIsOfJourney'
  <2>1. PICK e \in Estimate : /\ asks' = [asks EXCEPT ![i] = e]
                              /\ e.of = asks[i].of /\ e.live = asks[i].live /\ Answered(e)
    BY <1>10, ServedType
  <2>2. UNCHANGED map
    BY <1>10 DEF ServeEstimate
  <2>3. /\ DOMAIN asks' = DOMAIN asks /\ asks'[i] = e
        /\ \A k \in DOMAIN asks \ {i} : asks'[k] = asks[k]
    BY <1>0, <2>1, OneReplaced
  <2>4. \A k \in DOMAIN asks : asks'[k].of = asks[k].of /\ asks'[k].live = asks[k].live
    BY <2>1, <2>3
  <2>5. Journey' = Journey
    BY <2>2, SameJourney
  <2>6. \A k \in DOMAIN asks : Answered(asks'[k])
    BY <2>1, <2>3 DEF Following
  <2> QED BY <2>2, <2>3, <2>4, <2>5, <2>6 DEF Following, FareIsOfJourney, Awaited, Live, Answered
<1>11. ASSUME NEW i \in DOMAIN asks, TakeEstimate(i)
       PROVE  Following' /\ FareIsOfJourney'
  <2>1. /\ asks' = RemoveAt(asks, i)
        /\ map' = IF asks[i].live
                  THEN [map EXCEPT !.shown = asks[i].answer, !.error = asks[i].failed, !.spins = FALSE]
                  ELSE [map EXCEPT !.spins = FALSE]
        /\ asks[i].live => asks[i].failed \/ asks[i].answer # NoFare
    BY <1>11 DEF TakeEstimate, Heeded
  <2>2. UNCHANGED <<map.manual, map.fix, map.town, map.timer>> /\ ~map'.spins
    BY <1>0, <2>1 DEF Map
  <2>3. Journey' = Journey
    BY <2>2, SameJourney
  <2>4. /\ \A k \in DOMAIN asks' : asks'[k] = asks[Was(i, k)] /\ Was(i, k) \in DOMAIN asks
        /\ \A j \in DOMAIN asks \ {i} : \E k \in DOMAIN asks' : asks'[k] = asks[j]
    BY <1>0, <2>1, OneRemoved
  <2>5. \A k, m \in DOMAIN asks' : Was(i, k) = Was(i, m) => k = m
    <3>1. \A k \in DOMAIN asks' : k \in Nat
      BY <1>0, <2>1, OneRemoved
    <3> QED BY <1>0, <3>1 DEF Was
  <2>6. Following'
    BY <2>2, <2>3, <2>4, <2>5 DEF Following, Live, Answered
  <2>7. CASE asks[i].live
    <3>1. map'.shown = asks[i].answer /\ map'.error = asks[i].failed
      BY <1>0, <2>1, <2>7 DEF Map
    <3>2. Answered(asks[i]) /\ (~map.timer => asks[i].of = Journey)
      BY <2>7 DEF Following, Live
    <3>3. ~map'.timer => map'.shown.of = Journey' \/ (map'.error /\ map'.shown = NoFare)
      BY <2>1, <2>2, <2>3, <2>7, <3>1, <3>2 DEF Answered
    <3> QED BY <2>2, <2>6, <3>3 DEF FareIsOfJourney, Awaited
  <2>8. CASE ~asks[i].live
    <3>1. UNCHANGED <<map.shown, map.error>>
      BY <1>0, <2>1, <2>8 DEF Map
    <3>2. Awaited => Awaited'
      BY <2>2, <2>4, <2>8 DEF Awaited
    <3> QED BY <2>2, <2>3, <2>6, <3>1, <3>2 DEF FareIsOfJourney
  <2> QED BY <2>7, <2>8
<1> QED BY <1>3, <1>4, <1>5, <1>6, <1>7, <1>8, <1>9, <1>10, <1>11 DEF OnMap

-----------------------------------------------------------------------------
(* The settings page.                                                      *)
LEMMA CallWith ==
  ASSUME NEW c \in Call, NEW answer \in {"none", "ok", "failed"}, NEW alls \in [Keys -> Int]
  PROVE  /\ [c EXCEPT !.answer = answer] \in Call
         /\ [c EXCEPT !.answer = answer, !.all = alls] \in Call
BY DEF Call

\* A load, the load after the save of a tariff, and the save.
LEMMA LoadType == Load \in Call /\ Load.kind = "load" /\ Load.answer = "none"
<1>1. Default \in [Keys -> Int]
  BY PricingAssumption
<1> QED BY <1>1 DEF Load, Call

LoadOf(k) == [Load EXCEPT !.key = k]
LEMMA AfterSaveType ==
  ASSUME NEW k \in Keys
  PROVE  LoadOf(k) \in Call /\ LoadOf(k).kind = "load" /\ LoadOf(k).answer = "none"
BY LoadType DEF LoadOf, Call

Saves(k, v) == [Load EXCEPT !.kind = "save", !.key = k, !.value = v]
LEMMA SavesType ==
  ASSUME NEW k \in Keys, NEW v \in Values
  PROVE  /\ Saves(k, v) \in Call /\ Saves(k, v).kind = "save"
         /\ Saves(k, v).key = k /\ Saves(k, v).value = v
<1>1. v \in Int
  BY PricingAssumption
<1> QED BY <1>1, LoadType DEF Saves, Call

\* The desk keeps its type.
LEMMA DeskStep ==
  ASSUME FaresTypeOK, Catching, TypeOK', OnDesk
  PROVE  desk' \in Desk /\ calls' \in Seq(Call) /\ turns' \in 0..MaxTurns /\ unsure' \in BOOLEAN
<1>0. /\ desk \in Desk /\ calls \in Seq(Call) /\ turns \in 0..MaxTurns /\ unsure \in BOOLEAN
      /\ \A i \in DOMAIN calls : calls[i] \in Call
      /\ setting \in [Keys -> Int] /\ setting' \in [Keys -> Int] /\ Default \in [Keys -> Int]
  BY PricingAssumption DEF FaresTypeOK, TypeOK
<1>1. turns' \in 0..MaxTurns
  <2>1. Turn \/ UNCHANGED turns
    BY DEF OnDesk, OpenDesk, Elsewhere, Save, ServeSave, ServeLoad, Lose, TakeSave, TakeLoad
  <2> QED BY <1>0, <2>1, FaresAssumption DEF Turn
<1>2. unsure' \in BOOLEAN
  <2>1. ASSUME NEW i \in DOMAIN calls, ServeSave(i)
        PROVE  unsure' \in BOOLEAN
    <3>1. unsure' = (unsure \/ Overtaken)
      BY <2>1 DEF ServeSave
    <3> QED BY <3>1, Zenon
  <2>2. ASSUME NEW i \in DOMAIN calls, TakeLoad(i)
        PROVE  unsure' \in BOOLEAN
    BY <2>2, Zenon DEF TakeLoad
  <2>3. \/ UNCHANGED unsure \/ unsure' = TRUE
        \/ \E i \in DOMAIN calls : ServeSave(i) \/ TakeLoad(i)
    BY DEF OnDesk, OpenDesk, Elsewhere, Save, ServeLoad, Lose, TakeSave
  <2> QED BY <1>0, <2>1, <2>2, <2>3, Zenon
<1>3. desk' \in Desk
  <2>1. CASE OpenDesk
    BY <1>0, <2>1 DEF OpenDesk, Desk
  <2>2. ASSUME NEW i \in DOMAIN calls, TakeLoad(i)
        PROVE  desk' \in Desk
    <3>1. calls[i].all \in [Keys -> Int]
      BY <1>0 DEF Call
    <3> QED BY <1>0, <2>2, <3>1 DEF TakeLoad, Desk
  <2>3. UNCHANGED desk \/ OpenDesk \/ \E i \in DOMAIN calls : TakeLoad(i)
    BY DEF OnDesk, Elsewhere, Save, ServeSave, ServeLoad, Lose, TakeSave
  <2>4. desk' = desk => desk' \in Desk
    BY <1>0
  <2> QED BY <2>1, <2>2, <2>3, <2>4
<1>4. calls' \in Seq(Call)
  <2>1. CASE OpenDesk
    <3>1. calls' = <<Load>>
      BY <2>1 DEF OpenDesk
    <3> QED BY <3>1, LoadType
  <2>2. CASE Elsewhere
    BY <1>0, <2>2 DEF Elsewhere
  <2>3. ASSUME NEW k \in Keys, NEW v \in Values, Save(k, v)
        PROVE  calls' \in Seq(Call)
    <3>1. calls' = Append(calls, Saves(k, v))
      BY <2>3 DEF Save, Saves
    <3> QED BY <1>0, <3>1, SavesType, OneAppended
  <2>4. ASSUME NEW i \in DOMAIN calls, ServeSave(i) \/ ServeLoad(i) \/ Lose(i)
        PROVE  calls' \in Seq(Call)
    <3>1. PICK c \in Call : calls' = [calls EXCEPT ![i] = c]
      <4>1. \E answer \in {"none", "ok", "failed"}, alls \in [Keys -> Int] :
              \/ calls' = [calls EXCEPT ![i] = [calls[i] EXCEPT !.answer = answer]]
              \/ calls' = [calls EXCEPT ![i] = [calls[i] EXCEPT !.answer = answer, !.all = alls]]
        BY <1>0, <2>4 DEF ServeSave, ServeLoad, Lose
      <4> QED BY <1>0, <4>1, CallWith
    <3> QED BY <1>0, <3>1, OneReplaced
  <2>5. ASSUME NEW i \in DOMAIN calls, TakeSave(i)
        PROVE  calls' \in Seq(Call)
    <3>1. RemoveAt(calls, i) \in Seq(Call)
      BY <1>0, OneRemoved
    <3>2. AfterSave(calls[i]) \in Seq(Call)
      <4>1. calls[i].key \in Keys
        BY <2>5 DEF TakeSave, Catching, Saved
      <4>2. AfterSave(calls[i]) = << >> \/ AfterSave(calls[i]) = <<LoadOf(calls[i].key)>>
        BY DEF AfterSave, LoadOf
      <4>3. LoadOf(calls[i].key) \in Call
        BY <4>1, AfterSaveType
      <4>4. << >> \in Seq(Call) /\ <<LoadOf(calls[i].key)>> \in Seq(Call)
        BY <4>3
      <4> QED BY <4>2, <4>4, Zenon
    <3> QED BY <2>5, <3>1, <3>2 DEF TakeSave
  <2>6. ASSUME NEW i \in DOMAIN calls, TakeLoad(i)
        PROVE  calls' \in Seq(Call)
    BY <1>0, <2>6, OneRemoved DEF TakeLoad
  <2> QED BY <2>1, <2>2, <2>3, <2>4, <2>5, <2>6 DEF OnDesk
<1> QED BY <1>1, <1>2, <1>3, <1>4

\* Whatever the desk does, or the tariffs become, what it misses is on its way or it is unsure.
LEMMA CatchingStep ==
  ASSUME FaresTypeOK, Catching, OnDesk
  PROVE  Catching'
<1>0. /\ calls \in Seq(Call) /\ \A i \in DOMAIN calls : calls[i] \in Call
      /\ desk \in Desk
  BY DEF FaresTypeOK
<1>1. CASE OpenDesk
  <2>1. /\ DOMAIN calls' = {1} /\ calls'[1] = Load
    BY <1>1 DEF OpenDesk
  <2> QED BY <2>1, LoadType DEF Catching, Saved, InForce, Brings
<1>2. CASE Elsewhere
  BY <1>2 DEF Elsewhere, Catching, Saved
<1>3. ASSUME NEW k \in Keys, NEW v \in Values, Save(k, v)
      PROVE  Catching'
  <2> DEFINE c == Saves(k, v)
  <2>1. c \in Call /\ c.kind = "save" /\ c.key = k /\ c.value = v
    BY SavesType
  <2>2. calls' = Append(calls, c) /\ UNCHANGED <<setting, desk, unsure>>
    BY <1>3 DEF Save, Saves, vars
  <2> HIDE DEF c
  <2>3. /\ DOMAIN calls' = DOMAIN calls \cup {Len(calls) + 1}
        /\ calls'[Len(calls) + 1] = c /\ \A j \in DOMAIN calls : calls'[j] = calls[j]
    BY <1>0, <2>1, <2>2, OneAppended
  <2>4. Saved(c) /\ InForce(c)' /\ Saved(c)'
    BY <2>1 DEF Saved, InForce
  <2>5. \A j \in DOMAIN calls' : Saved(calls'[j])
    BY <2>3, <2>4 DEF Catching
  <2> QED BY <2>1, <2>2, <2>3, <2>5 DEF Catching, Saved, InForce, Brings, UpToDate
<1>4. ASSUME NEW i \in DOMAIN calls, ServeSave(i)
      PROVE  Catching'
  <2> DEFINE c == [calls[i] EXCEPT !.answer = "ok"]
  <2>1. /\ c \in Call /\ c.kind = "save" /\ c.answer = "ok"
        /\ c.key = calls[i].key /\ c.value = calls[i].value
    BY <1>0, <1>4 DEF ServeSave, Call
  <2>2. calls' = [calls EXCEPT ![i] = c] /\ UNCHANGED desk /\ unsure' = (unsure \/ Overtaken)
    BY <1>0, <1>4 DEF ServeSave
  <2> HIDE DEF c
  <2>3. /\ DOMAIN calls' = DOMAIN calls
        /\ calls'[i] = c /\ \A j \in DOMAIN calls \ {i} : calls'[j] = calls[j]
    BY <1>0, <2>1, <2>2, OneReplaced
  <2>4. \A j \in DOMAIN calls' : Saved(calls'[j])
    BY <1>4, <2>1, <2>3 DEF Catching, Saved, ServeSave
  <2>5. ASSUME ~unsure', NEW j \in DOMAIN calls'
        PROVE  InForce(calls[j])'
    <3>1. calls'[j].kind = "load" => j # i
      BY <2>1, <2>3
    <3>2. calls[j].kind = "load" => calls[j].answer = "none"
      BY <2>2, <2>3, <2>5 DEF Catching, InForce, Overtaken
    <3> QED BY <2>3, <3>1, <3>2 DEF InForce
  <2>6. Brings(calls[i])'
    BY <2>1, <2>3 DEF Brings
  <2> QED BY <2>3, <2>4, <2>5, <2>6 DEF Catching, Saved
<1>5. ASSUME NEW i \in DOMAIN calls, ServeLoad(i)
      PROVE  Catching'
  <2> DEFINE c == [calls[i] EXCEPT !.answer = "ok", !.all = setting]
  <2>1. c \in Call /\ c.kind = "load" /\ c.answer = "ok" /\ c.all = setting
    BY <1>0, <1>5 DEF ServeLoad, Call, FaresTypeOK, TypeOK
  <2>2. calls' = [calls EXCEPT ![i] = c] /\ UNCHANGED <<setting, desk, unsure>>
    BY <1>0, <1>5 DEF ServeLoad, vars
  <2> HIDE DEF c
  <2>3. /\ DOMAIN calls' = DOMAIN calls
        /\ calls'[i] = c /\ \A j \in DOMAIN calls \ {i} : calls'[j] = calls[j]
    BY <1>0, <2>1, <2>2, OneReplaced
  <2> QED BY <2>1, <2>2, <2>3 DEF Catching, Saved, InForce, Brings, UpToDate
<1>6. ASSUME NEW i \in DOMAIN calls, Lose(i)
      PROVE  Catching'
  <2> DEFINE c == [calls[i] EXCEPT !.answer = "failed", !.all = Default]
  <2>1. c \in Call /\ c.kind = calls[i].kind /\ c.key = calls[i].key /\ c.value = calls[i].value
    BY <1>0, PricingAssumption DEF Call
  <2>2. calls' = [calls EXCEPT ![i] = c] /\ unsure'
    BY <1>0, <1>6 DEF Lose
  <2> HIDE DEF c
  <2>3. /\ DOMAIN calls' = DOMAIN calls
        /\ calls'[i] = c /\ \A j \in DOMAIN calls \ {i} : calls'[j] = calls[j]
    BY <1>0, <2>1, <2>2, OneReplaced
  <2>4. \A j \in DOMAIN calls' : Saved(calls'[j])
    BY <2>1, <2>3 DEF Catching, Saved
  <2> QED BY <2>2, <2>4 DEF Catching, Saved
<1>7. ASSUME NEW i \in DOMAIN calls, TakeSave(i)
      PROVE  Catching'
  <2> DEFINE t == RemoveAt(calls, i)
             u == AfterSave(calls[i])
  <2>1. calls' = t \o u /\ UNCHANGED <<setting, desk, unsure>> /\ calls[i].kind = "save"
    BY <1>7 DEF TakeSave, vars
  <2>0. t = RemoveAt(calls, i)
    OBVIOUS
  <2> HIDE DEF t
  <2>2. /\ t \in Seq(Call)
        /\ \A k \in DOMAIN t : t[k] = calls[Was(i, k)] /\ Was(i, k) \in DOMAIN calls
        /\ \A j \in DOMAIN calls \ {i} : \E k \in DOMAIN t : t[k] = calls[j]
    BY <1>0, <2>0, OneRemoved
  <2>3. /\ u \in Seq(Call)
        /\ \A k \in DOMAIN u : u[k].kind = "load" /\ u[k].answer = "none"
        /\ calls[i].answer = "ok" => DOMAIN u = {1}
    <3>1. calls[i].key \in Keys
      BY <2>1 DEF Catching, Saved
    <3>2. \/ u = << >> /\ calls[i].answer # "ok"
          \/ u = <<LoadOf(calls[i].key)>> /\ calls[i].answer = "ok"
      BY DEF AfterSave, LoadOf
    <3> HIDE DEF u
    <3>3. LoadOf(calls[i].key) \in Call /\ LoadOf(calls[i].key).kind = "load"
          /\ LoadOf(calls[i].key).answer = "none"
      BY <3>1, AfterSaveType
    <3>4. u = << >> => u \in Seq(Call) /\ DOMAIN u = {}
      OBVIOUS
    <3>5. u = <<LoadOf(calls[i].key)>> =>
            u \in Seq(Call) /\ DOMAIN u = {1} /\ u[1] = LoadOf(calls[i].key)
      BY <3>3
    <3> QED BY <3>2, <3>3, <3>4, <3>5
  <2> HIDE DEF u
  <2>4. /\ DOMAIN calls' = 1..(Len(t) + Len(u))
        /\ \A k \in DOMAIN t : k \in DOMAIN calls' /\ calls'[k] = t[k]
        /\ \A k \in DOMAIN u : Len(t) + k \in DOMAIN calls' /\ calls'[Len(t) + k] = u[k]
    BY <2>1, <2>2, <2>3
  <2>5. \A j \in DOMAIN calls' :
          \/ j \in DOMAIN t /\ Was(i, j) \in DOMAIN calls /\ calls'[j] = calls[Was(i, j)]
          \/ calls'[j].kind = "load" /\ calls'[j].answer = "none"
    <3> TAKE j \in DOMAIN calls'
    <3>1. CASE j \in 1..Len(t)
      BY <2>2, <2>4, <3>1
    <3>2. CASE j \notin 1..Len(t)
      <4>1. j - Len(t) \in DOMAIN u /\ Len(t) + (j - Len(t)) = j
        BY <2>2, <2>3, <2>4, <3>2
      <4> QED BY <2>3, <2>4, <4>1
    <3> QED BY <3>1, <3>2
  <2>6. \A j \in DOMAIN calls' : Saved(calls'[j])
    BY <2>5 DEF Catching, Saved
  <2>7. ~unsure' => \A j \in DOMAIN calls' : InForce(calls[j])'
    BY <2>1, <2>5 DEF Catching, InForce
  <2>8. ASSUME NEW j \in DOMAIN calls, Brings(calls[j])
        PROVE  \E k \in DOMAIN calls' : Brings(calls'[k])
    <3>1. CASE j = i
      <4>1. 1 \in DOMAIN u
        BY <2>1, <2>3, <2>8, <3>1 DEF Brings
      <4>2. Len(t) + 1 \in DOMAIN calls' /\ calls'[Len(t) + 1].kind = "load"
        BY <2>3, <2>4, <4>1
      <4> QED BY <4>2 DEF Brings
    <3>2. CASE j # i
      BY <2>2, <2>4, <2>8, <3>2
    <3> QED BY <3>1, <3>2
  <2> QED BY <2>1, <2>6, <2>7, <2>8 DEF Catching, Saved, Brings, UpToDate
<1>8. ASSUME NEW i \in DOMAIN calls, TakeLoad(i)
      PROVE  Catching'
  <2>1. calls' = RemoveAt(calls, i) /\ UNCHANGED setting /\ calls[i].kind = "load"
    BY <1>8 DEF TakeLoad, vars
  <2>2. /\ \A k \in DOMAIN calls' : calls'[k] = calls[Was(i, k)] /\ Was(i, k) \in DOMAIN calls
        /\ \A k \in DOMAIN calls' : Was(i, k) # i
        /\ \A j \in DOMAIN calls \ {i} : \E k \in DOMAIN calls' : calls'[k] = calls[j]
    <3>1. \A k \in DOMAIN calls' : k \in Nat
      BY <1>0, <2>1, OneRemoved
    <3>2. \A k \in DOMAIN calls' : Was(i, k) # i
      BY <1>0, <3>1 DEF Was
    <3> QED BY <1>0, <2>1, <3>2, OneRemoved
  <2>3. \A j \in DOMAIN calls' : Saved(calls'[j])
    BY <2>2 DEF Catching, Saved
  <2>4. CASE calls[i].answer = "ok" /\ calls[i].all = setting
    <3>1. desk'.cards /\ desk'.seen = setting
      BY <1>0, <1>8, <2>4 DEF TakeLoad, Desk
    <3>2. ~unsure' => \A j \in DOMAIN calls \ {i} : InForce(calls[j])
      BY <1>8, <2>4 DEF TakeLoad, Catching, InForce
    <3> QED BY <2>1, <2>2, <2>3, <3>1, <3>2 DEF Catching, Saved, InForce, UpToDate
  <2>5. CASE ~(calls[i].answer = "ok" /\ calls[i].all = setting)
    <3>1. unsure
      BY <1>8, <2>1, <2>5 DEF TakeLoad, Catching, InForce
    <3>2. unsure'
      BY <1>8, <2>5, <3>1 DEF TakeLoad
    <3> QED BY <2>3, <3>2 DEF Catching, Saved
  <2> QED BY <2>4, <2>5
<1> QED BY <1>1, <1>2, <1>3, <1>4, <1>5, <1>6, <1>7, <1>8 DEF OnDesk

-----------------------------------------------------------------------------
(* The theorems about the pages.                                           *)
LEMMA FirstState == FaresInit => IInv
<1> SUFFICES ASSUME FaresInit PROVE IInv
  OBVIOUS
<1>1. TypeOK /\ QuoteIsPayable
  BY PricedInit DEF FaresInit, Priced
<1>2. NoFare \in Shown /\ Default \in [Keys -> Int]
  BY PricingAssumption DEF Shown
<1>3. map \in Map /\ kept \in Storage /\ desk \in Desk /\ map.timer
  BY <1>2 DEF FaresInit, Blank, Map, Storage, Closed, Desk
<1>4. /\ asks = << >> /\ calls = << >> /\ route = << >> /\ turns = 0 /\ unsure = FALSE /\ ~desk.open
  BY DEF FaresInit, Closed
<1>5. asks \in Seq(Estimate) /\ calls \in Seq(Call) /\ turns \in 0..MaxTurns
  BY <1>4, FaresAssumption
<1>6. FaresTypeOK
  BY <1>1, <1>3, <1>4, <1>5 DEF FaresTypeOK
<1>7. Following /\ FareIsOfJourney /\ Catching
  BY <1>3, <1>4 DEF Following, FareIsOfJourney, Awaited, Catching
<1> QED BY <1>1, <1>6, <1>7 DEF IInv

LEMMA EveryStep == IInv /\ [FaresNext]_all => IInv'
<1> SUFFICES ASSUME IInv, [FaresNext]_all PROVE IInv'
  OBVIOUS
<1>1. FaresTypeOK /\ QuoteIsPayable /\ Following /\ FareIsOfJourney /\ Catching
  BY DEF IInv
<1>2. TypeOK' /\ QuoteIsPayable'
  BY <1>1, Allowed, PricedStep DEF FaresTypeOK, Priced
<1>3. CASE OnMap /\ UNCHANGED <<vars, admin, route>>
  <2>1. Following' /\ FareIsOfJourney'
    BY <1>1, <1>3, FollowingStep
  <2>2. UNCHANGED <<setting, desk, calls, unsure, route>>
    BY <1>3 DEF vars, admin
  <2>3. Catching'
    BY <1>1, <2>2 DEF Catching, Saved, InForce, Brings, UpToDate
  <2>4. FaresTypeOK'
    BY <1>1, <1>2, <1>3, <2>2, MapStep DEF FaresTypeOK
  <2> QED BY <1>2, <2>1, <2>3, <2>4 DEF IInv
<1>4. CASE OnDesk /\ UNCHANGED <<page, route>>
  <2>1. Catching'
    BY <1>1, <1>4, CatchingStep
  <2>2. UNCHANGED <<map, asks, kept, route>>
    BY <1>4 DEF page
  <2>3. Following' /\ FareIsOfJourney'
    BY <1>1, <2>2 DEF Following, Live, Answered, FareIsOfJourney, Awaited, Journey, Effective
  <2>4. FaresTypeOK'
    BY <1>1, <1>2, <1>4, <2>2, DeskStep DEF FaresTypeOK
  <2> QED BY <1>2, <2>1, <2>3, <2>4 DEF IInv
<1>5. CASE OnTrip /\ UNCHANGED <<page, admin>>
  <2>1. PICK legs \in Routes : PriceRoute(legs)
    BY <1>5 DEF OnTrip
  <2>2. UNCHANGED <<map, asks, kept, desk, calls, unsure, setting>> /\ route' = legs /\ Turn
    BY <1>5, <2>1 DEF PriceRoute, Price, page, admin
  <2>3. Following' /\ FareIsOfJourney' /\ Catching'
    BY <1>1, <2>2 DEF Following, Live, Answered, FareIsOfJourney, Awaited, Journey, Effective,
                      Catching, Saved, InForce, Brings, UpToDate
  <2>4. turns' \in 0..MaxTurns
    BY <1>1, <2>2, FaresAssumption DEF FaresTypeOK, Turn
  <2>5. FaresTypeOK'
    BY <1>1, <1>2, <2>2, <2>4 DEF FaresTypeOK
  <2> QED BY <1>2, <2>3, <2>5 DEF IInv
<1>6. CASE UNCHANGED all
  BY <1>1, <1>2, <1>6
     DEF all, page, admin, vars, IInv, FaresTypeOK, Following, Live, Answered, FareIsOfJourney,
     Awaited, Journey, Effective, Catching, Saved, InForce, Brings, UpToDate
<1> QED BY <1>3, <1>4, <1>5, <1>6, Apart

\* IInv holds in every state of the pages, whatever answers are late, lost or out of order.
THEOREM Inductive == FaresSpec => []IInv
BY FirstState, EveryStep, PTL DEF FaresSpec

\* What the pages and the trips do to tariffs and quotes is what Pricing allows: FaresSpec
\* implements Spec.
THEOREM OnlyPricing == FaresSpec => Spec
<1>1. FaresInit => Init
  BY DEF FaresInit
<1>2. IInv /\ [FaresNext]_all => [Next]_vars
  BY Allowed DEF IInv
<1> QED BY <1>1, <1>2, Inductive, PTL DEF FaresSpec, Spec

\* So every quote is payable, leaves the platform its part and grows with the distance also
\* when trips are measured by Mapbox and tariffs change under the pages.
THEOREM RoutesArePriced ==
  FaresSpec => [](QuoteIsPayable /\ PlatformKeepsItsCut /\ LongerIsNotCheaper /\ FareIsNearest)
BY OnlyPricing, QuotesArePayable, PlatformIsPaid, LongerCostsMore, FareIsRounded, PTL

\* Types of the pages.
THEOREM PagesTypeCorrect == FaresSpec => []FaresTypeOK
<1>1. IInv => FaresTypeOK
  BY DEF IInv
<1> QED BY Inductive, <1>1, PTL

\* refreshEstimate: once nothing is awaited the map shows the fare of the journey chosen, for
\* any number of estimates under way, answered in any order.
THEOREM FareFollows == FaresSpec => []FareIsOfJourney
<1>1. IInv => FareIsOfJourney
  BY DEF IInv
<1> QED BY Inductive, <1>1, PTL

\* insufficientCredit: nobody starts to wait with a fare he has seen and cannot pay.
THEOREM WaitersCanPay == FaresSpec => NobodyWaitsShort
<1>1. ASSUME IInv, [FaresNext]_all, map'.waiting, ~map.waiting
      PROVE  \/ Awaited \/ map.error \/ map.credit = Unknown
             \/ map.shown.of = Journey /\ map.shown.fare <= map.credit
  <2>1. map \in Map
    BY <1>1 DEF IInv, FaresTypeOK
  <2>2. Wait
    <3>1. ASSUME OnMap PROVE Wait
      BY <1>1, <2>1, <3>1
      DEF OnMap, Fix, Place, Choose, Chosen, Visible, Fire, Remount, Mounted, Reload, Blank,
         StopWaiting, Credit, ServeEstimate, TakeEstimate, Map
    <3> QED BY <1>1, <3>1, Apart DEF page, all
  <2>3. Journey # None /\ ~Short
    BY <2>2 DEF Wait
  <2>4. FareIsOfJourney
    BY <1>1 DEF IInv
  <2>5. SUFFICES ASSUME ~Awaited, ~map.error, map.credit # Unknown
                 PROVE  map.shown.of = Journey /\ map.shown.fare <= map.credit
    OBVIOUS
  <2>6. map.shown.of = Journey /\ map.shown # NoFare
    BY <2>3, <2>4, <2>5, NoFareIsOfNone DEF FareIsOfJourney
  <2>7. map.shown \in Shown /\ map.credit \in Balances \cup {Unknown}
    BY <2>1 DEF Map
  <2>8. map.shown.fare \in Int /\ map.credit \in Int
    BY <2>5, <2>6, <2>7, FaresAssumption DEF Shown
  <2> QED BY <2>3, <2>5, <2>6, <2>8 DEF Short
<1>2. IInv /\ [FaresNext]_all =>
        [map'.waiting /\ ~map.waiting =>
           \/ Awaited \/ map.error \/ map.credit = Unknown
           \/ map.shown.of = Journey /\ map.shown.fare <= map.credit]_all
  BY <1>1
<1> QED BY Inductive, <1>2, PTL DEF FaresSpec, NobodyWaitsShort

\* The settings page shows the tariffs in force when its calls are answered, for any tariffs,
\* any number of saves at a time and any order of their answers.
THEOREM DeskAgrees == FaresSpec => []DeskCatchesUp
<1>1. IInv => DeskCatchesUp
  <2> SUFFICES ASSUME IInv, desk.open, calls = << >>, ~unsure
               PROVE  desk.cards /\ desk.seen = setting
    BY DEF DeskCatchesUp
  <2>1. DOMAIN calls = {}
    OBVIOUS
  <2> QED BY <2>1 DEF IInv, Catching, UpToDate
<1> QED BY Inductive, <1>1, PTL

-----------------------------------------------------------------------------
(* Presence.                                                               *)
(* What is left of an agenda.                                              *)
JoinLeft(r) == { << Do("write", r), Do("broadcast", r), Do("snapshot", r) >>,
                 << Do("broadcast", r), Do("snapshot", r) >>, << Do("snapshot", r) >> }
LeaveLeft(r) == { << Do("write", r), Do("removed", r) >>, << Do("removed", r) >> }
MoveLeft == { << Do("write", "driver"), Do("broadcast", "driver") >>, << Do("broadcast", "driver") >>,
              << Do("write", "passenger"), Do("record", "passenger") >>,
              << Do("record", "passenger") >>, << Do("broadcast", "passenger") >> }
CleanupLeft == { Cleanup, << Do("write", "passenger"), Do("removed", "driver"), Do("removed", "passenger") >>,
                 << Do("removed", "driver"), Do("removed", "passenger") >>, << Do("removed", "passenger") >> }
Left(kind) == { s \in Seq(Job) :
  \/ kind = "join" /\ \E r \in Roles : s \in JoinLeft(r)
  \/ kind = "leave" /\ \E r \in Roles : s \in LeaveLeft(r)
  \/ kind = "position" /\ s \in MoveLeft
  \/ kind = "disconnect" /\ s \in CleanupLeft }

Has(s, j) == \E k \in DOMAIN s : s[k] = j

\* The parts of a job.
LEMMA Jobs ==
  ASSUME NEW does \in Routines, NEW r \in Roles
  PROVE  Do(does, r) \in Job /\ Do(does, r).does = does /\ Do(does, r).role = r
BY DEF Job, Do

LEMMA JobParts ==
  \A does, r : Do(does, r).does = does /\ Do(does, r).role = r
BY DEF Do

\* Lists of one to four jobs, and the empty one.
LEMMA List1 ==
  ASSUME NEW a \in Job
  PROVE  /\ << a >> \in Seq(Job) /\ << a >> # << >> /\ Head(<< a >>) = a /\ Tail(<< a >>) = << >>
         /\ \A j : Has(<< a >>, j) <=> j \in { a }
BY DEF Has

LEMMA List2 ==
  ASSUME NEW a \in Job, NEW b \in Job
  PROVE  /\ << a, b >> \in Seq(Job) /\ << a, b >> # << >> /\ Head(<< a, b >>) = a /\ Tail(<< a, b >>) = << b >>
         /\ \A j : Has(<< a, b >>, j) <=> j \in { a, b }
BY DEF Has

LEMMA List3 ==
  ASSUME NEW a \in Job, NEW b \in Job, NEW c \in Job
  PROVE  /\ << a, b, c >> \in Seq(Job) /\ << a, b, c >> # << >> /\ Head(<< a, b, c >>) = a /\ Tail(<< a, b, c >>) = << b, c >>
         /\ \A j : Has(<< a, b, c >>, j) <=> j \in { a, b, c }
BY DEF Has

LEMMA List4 ==
  ASSUME NEW a \in Job, NEW b \in Job, NEW c \in Job, NEW d \in Job
  PROVE  /\ << a, b, c, d >> \in Seq(Job) /\ << a, b, c, d >> # << >> /\ Head(<< a, b, c, d >>) = a /\ Tail(<< a, b, c, d >>) = << b, c, d >>
         /\ \A j : Has(<< a, b, c, d >>, j) <=> j \in { a, b, c, d }
BY DEF Has

LEMMA List0 ==
  \A j : ~ Has(<< >>, j)
BY DEF Has

\* A list holds its head and what its tail holds.
LEMMA HeadOrTail ==
  ASSUME NEW S, NEW s \in Seq(S), s # << >>, NEW j
  PROVE  Has(s, j) <=> (j = Head(s) \/ Has(Tail(s), j))
<1>1. Len(s) \in Nat /\ Len(s) > 0 /\ DOMAIN s = 1..Len(s) /\ DOMAIN Tail(s) = 1..(Len(s) - 1)
  OBVIOUS
<1>2. Head(s) = s[1] /\ \A k \in DOMAIN Tail(s) : Tail(s)[k] = s[k + 1]
  OBVIOUS
<1>3. \A k \in DOMAIN s : k = 1 \/ k - 1 \in DOMAIN Tail(s)
  BY <1>1
<1>4. \A k \in DOMAIN Tail(s) : k + 1 \in DOMAIN s
  BY <1>1
<1>5. 1 \in DOMAIN s
  BY <1>1
<1>6. ASSUME Has(s, j) PROVE j = Head(s) \/ Has(Tail(s), j)
  <2>1. PICK k \in DOMAIN s : s[k] = j
    BY <1>6 DEF Has
  <2>2. CASE k = 1
    BY <1>2, <2>1, <2>2
  <2>3. CASE k # 1
    <3>1. k - 1 \in DOMAIN Tail(s) /\ Tail(s)[k - 1] = s[(k - 1) + 1] /\ (k - 1) + 1 = k
      BY <1>1, <1>2, <1>3, <2>1, <2>3
    <3> QED BY <2>1, <3>1 DEF Has
  <2> QED BY <2>2, <2>3
<1>7. ASSUME Has(Tail(s), j) PROVE Has(s, j)
  BY <1>2, <1>4, <1>7 DEF Has
<1>8. Has(s, Head(s))
  BY <1>2, <1>5 DEF Has
<1> QED BY <1>6, <1>7, <1>8

\* What an agenda still holds, and what its first job leaves.
LEMMA Agendas ==
  ASSUME NEW kind, NEW s \in Left(kind)
  PROVE  /\ s \in Seq(Job) /\ s # << >> /\ Head(s) \in Job
         /\ Tail(s) # << >> => Tail(s) \in Left(kind)
         /\ Head(s).does = "record" => kind = "position" /\ Head(s).role = "passenger"
         /\ Head(s).does = "snapshot" => kind = "join" /\ Tail(s) = << >>
         /\ Head(s).does = "removed" => kind \in {"leave", "disconnect"}
         /\ kind # "disconnect" \/ Head(s).does # "write" => \A q : ~ Has(Tail(s), Do("write", q))
         /\ Head(s).does = "write" /\ kind # "position" => ~ Has(Tail(s), Do("write", Head(s).role))
         /\ \A j : Has(s, j) <=> (j = Head(s) \/ Has(Tail(s), j))
<1> DEFINE Goal ==
      /\ s # << >>
      /\ Tail(s) # << >> => Tail(s) \in Left(kind)
      /\ Head(s).does = "record" => kind = "position" /\ Head(s).role = "passenger"
      /\ Head(s).does = "snapshot" => kind = "join" /\ Tail(s) = << >>
      /\ Head(s).does = "removed" => kind \in {"leave", "disconnect"}
      /\ kind # "disconnect" \/ Head(s).does # "write" => \A q : ~ Has(Tail(s), Do("write", q))
      /\ Head(s).does = "write" /\ kind # "position" => ~ Has(Tail(s), Do("write", Head(s).role))
<1>1. s \in Seq(Job)
  BY DEF Left
<1>2. Goal
  <2>2. CASE kind = "join" /\ \E r \in Roles : s \in JoinLeft(r)
    <3>0. PICK r \in Roles : s \in JoinLeft(r)
      BY <2>2
    <3>1. Do("write", r) \in Job /\ Do("broadcast", r) \in Job /\ Do("snapshot", r) \in Job
      BY Jobs DEF Routines
    <3>2. CASE s = << Do("write", r), Do("broadcast", r), Do("snapshot", r) >>
      <4>0. /\ s # << >> /\ Head(s) = Do("write", r) /\ Tail(s) = << Do("broadcast", r), Do("snapshot", r) >>
        BY <3>1, <3>2, List3
      <4>9. << Do("broadcast", r), Do("snapshot", r) >> # << >> /\ << Do("broadcast", r), Do("snapshot", r) >> \in Seq(Job) /\ \A j : Has(<< Do("broadcast", r), Do("snapshot", r) >>, j) <=> j \in { Do("broadcast", r), Do("snapshot", r) }
        BY <3>1, List2
      <4>1. /\ s # << >> /\ Head(s) = Do("write", r) /\ Tail(s) = << Do("broadcast", r), Do("snapshot", r) >>
            /\ \A j : Has(Tail(s), j) <=> j \in { Do("broadcast", r), Do("snapshot", r) }
            /\ Tail(s) # << >> /\ Tail(s) \in Seq(Job)
        BY <4>0, <4>9
      <4>2. Tail(s) \in Left(kind)
        BY <2>2, <4>1 DEF Left, JoinLeft
      <4>3. \A q : ~ Has(Tail(s), Do("write", q))
        BY <4>1, JobParts
      <4> QED BY <2>2, <4>1, <4>2, <4>3, JobParts
    <3>3. CASE s = << Do("broadcast", r), Do("snapshot", r) >>
      <4>1. /\ s # << >> /\ Head(s) = Do("broadcast", r) /\ Tail(s) = << Do("snapshot", r) >>
            /\ \A j : Has(Tail(s), j) <=> j \in { Do("snapshot", r) }
            /\ Tail(s) # << >> /\ Tail(s) \in Seq(Job)
        BY <3>1, <3>3, List2, List1
      <4>2. Tail(s) \in Left(kind)
        BY <2>2, <4>1 DEF Left, JoinLeft
      <4>3. \A q : ~ Has(Tail(s), Do("write", q))
        BY <4>1, JobParts
      <4> QED BY <2>2, <4>1, <4>2, <4>3, JobParts
    <3>4. CASE s = << Do("snapshot", r) >>
      <4>1. /\ s # << >> /\ Head(s) = Do("snapshot", r) /\ Tail(s) = << >>
            /\ \A j : ~ Has(Tail(s), j)
        BY <3>1, <3>4, List1, List0
      <4>3. \A q : ~ Has(Tail(s), Do("write", q))
        BY <4>1, JobParts
      <4> QED BY <2>2, <4>1, <4>3, JobParts
    <3> QED BY <3>0, <3>2, <3>3, <3>4 DEF JoinLeft
  <2>3. CASE kind = "leave" /\ \E r \in Roles : s \in LeaveLeft(r)
    <3>0. PICK r \in Roles : s \in LeaveLeft(r)
      BY <2>3
    <3>1. Do("write", r) \in Job /\ Do("removed", r) \in Job
      BY Jobs DEF Routines
    <3>2. CASE s = << Do("write", r), Do("removed", r) >>
      <4>1. /\ s # << >> /\ Head(s) = Do("write", r) /\ Tail(s) = << Do("removed", r) >>
            /\ \A j : Has(Tail(s), j) <=> j \in { Do("removed", r) }
            /\ Tail(s) # << >> /\ Tail(s) \in Seq(Job)
        BY <3>1, <3>2, List2, List1
      <4>2. Tail(s) \in Left(kind)
        BY <2>3, <4>1 DEF Left, LeaveLeft
      <4>3. \A q : ~ Has(Tail(s), Do("write", q))
        BY <4>1, JobParts
      <4> QED BY <2>3, <4>1, <4>2, <4>3, JobParts
    <3>3. CASE s = << Do("removed", r) >>
      <4>1. /\ s # << >> /\ Head(s) = Do("removed", r) /\ Tail(s) = << >>
            /\ \A j : ~ Has(Tail(s), j)
        BY <3>1, <3>3, List1, List0
      <4>3. \A q : ~ Has(Tail(s), Do("write", q))
        BY <4>1, JobParts
      <4> QED BY <2>3, <4>1, <4>3, JobParts
    <3> QED BY <3>0, <3>2, <3>3 DEF LeaveLeft
  <2>4. CASE kind = "position" /\ s \in MoveLeft
    <3>1. Do("write", "driver") \in Job /\ Do("broadcast", "driver") \in Job /\ Do("write", "passenger") \in Job /\ Do("record", "passenger") \in Job /\ Do("broadcast", "passenger") \in Job
      BY Jobs DEF Routines, Roles
    <3>2. CASE s = << Do("write", "driver"), Do("broadcast", "driver") >>
      <4>1. /\ s # << >> /\ Head(s) = Do("write", "driver") /\ Tail(s) = << Do("broadcast", "driver") >>
            /\ \A j : Has(Tail(s), j) <=> j \in { Do("broadcast", "driver") }
            /\ Tail(s) # << >> /\ Tail(s) \in Seq(Job)
        BY <3>1, <3>2, List2, List1
      <4>2. Tail(s) \in Left(kind)
        BY <2>4, <4>1 DEF Left, MoveLeft
      <4>3. \A q : ~ Has(Tail(s), Do("write", q))
        BY <4>1, JobParts
      <4> QED BY <2>4, <4>1, <4>2, <4>3, JobParts
    <3>3. CASE s = << Do("broadcast", "driver") >>
      <4>1. /\ s # << >> /\ Head(s) = Do("broadcast", "driver") /\ Tail(s) = << >>
            /\ \A j : ~ Has(Tail(s), j)
        BY <3>1, <3>3, List1, List0
      <4>3. \A q : ~ Has(Tail(s), Do("write", q))
        BY <4>1, JobParts
      <4> QED BY <2>4, <4>1, <4>3, JobParts
    <3>4. CASE s = << Do("write", "passenger"), Do("record", "passenger") >>
      <4>1. /\ s # << >> /\ Head(s) = Do("write", "passenger") /\ Tail(s) = << Do("record", "passenger") >>
            /\ \A j : Has(Tail(s), j) <=> j \in { Do("record", "passenger") }
            /\ Tail(s) # << >> /\ Tail(s) \in Seq(Job)
        BY <3>1, <3>4, List2, List1
      <4>2. Tail(s) \in Left(kind)
        BY <2>4, <4>1 DEF Left, MoveLeft
      <4>3. \A q : ~ Has(Tail(s), Do("write", q))
        BY <4>1, JobParts
      <4> QED BY <2>4, <4>1, <4>2, <4>3, JobParts
    <3>5. CASE s = << Do("record", "passenger") >>
      <4>1. /\ s # << >> /\ Head(s) = Do("record", "passenger") /\ Tail(s) = << >>
            /\ \A j : ~ Has(Tail(s), j)
        BY <3>1, <3>5, List1, List0
      <4>3. \A q : ~ Has(Tail(s), Do("write", q))
        BY <4>1, JobParts
      <4> QED BY <2>4, <4>1, <4>3, JobParts
    <3>6. CASE s = << Do("broadcast", "passenger") >>
      <4>1. /\ s # << >> /\ Head(s) = Do("broadcast", "passenger") /\ Tail(s) = << >>
            /\ \A j : ~ Has(Tail(s), j)
        BY <3>1, <3>6, List1, List0
      <4>3. \A q : ~ Has(Tail(s), Do("write", q))
        BY <4>1, JobParts
      <4> QED BY <2>4, <4>1, <4>3, JobParts
    <3> QED BY <2>4, <3>2, <3>3, <3>4, <3>5, <3>6 DEF MoveLeft
  <2>5. CASE kind = "disconnect" /\ s \in CleanupLeft
    <3>1. Do("write", "driver") \in Job /\ Do("write", "passenger") \in Job /\ Do("removed", "driver") \in Job /\ Do("removed", "passenger") \in Job
      BY Jobs DEF Routines, Roles
    <3>2. CASE s = << Do("write", "driver"), Do("write", "passenger"), Do("removed", "driver"), Do("removed", "passenger") >>
      <4>0. /\ s # << >> /\ Head(s) = Do("write", "driver") /\ Tail(s) = << Do("write", "passenger"), Do("removed", "driver"), Do("removed", "passenger") >>
        BY <3>1, <3>2, List4
      <4>9. << Do("write", "passenger"), Do("removed", "driver"), Do("removed", "passenger") >> # << >> /\ << Do("write", "passenger"), Do("removed", "driver"), Do("removed", "passenger") >> \in Seq(Job) /\ \A j : Has(<< Do("write", "passenger"), Do("removed", "driver"), Do("removed", "passenger") >>, j) <=> j \in { Do("write", "passenger"), Do("removed", "driver"), Do("removed", "passenger") }
        BY <3>1, List3
      <4>1. /\ s # << >> /\ Head(s) = Do("write", "driver") /\ Tail(s) = << Do("write", "passenger"), Do("removed", "driver"), Do("removed", "passenger") >>
            /\ \A j : Has(Tail(s), j) <=> j \in { Do("write", "passenger"), Do("removed", "driver"), Do("removed", "passenger") }
            /\ Tail(s) # << >> /\ Tail(s) \in Seq(Job)
        BY <4>0, <4>9
      <4>2. Tail(s) \in Left(kind)
        BY <2>5, <4>1 DEF Left, CleanupLeft
      <4>3. \A q : Has(Tail(s), Do("write", q)) <=> q = "passenger"
        BY <4>1, JobParts
      <4> QED BY <2>5, <4>1, <4>2, <4>3, JobParts
    <3>3. CASE s = << Do("write", "passenger"), Do("removed", "driver"), Do("removed", "passenger") >>
      <4>0. /\ s # << >> /\ Head(s) = Do("write", "passenger") /\ Tail(s) = << Do("removed", "driver"), Do("removed", "passenger") >>
        BY <3>1, <3>3, List3
      <4>9. << Do("removed", "driver"), Do("removed", "passenger") >> # << >> /\ << Do("removed", "driver"), Do("removed", "passenger") >> \in Seq(Job) /\ \A j : Has(<< Do("removed", "driver"), Do("removed", "passenger") >>, j) <=> j \in { Do("removed", "driver"), Do("removed", "passenger") }
        BY <3>1, List2
      <4>1. /\ s # << >> /\ Head(s) = Do("write", "passenger") /\ Tail(s) = << Do("removed", "driver"), Do("removed", "passenger") >>
            /\ \A j : Has(Tail(s), j) <=> j \in { Do("removed", "driver"), Do("removed", "passenger") }
            /\ Tail(s) # << >> /\ Tail(s) \in Seq(Job)
        BY <4>0, <4>9
      <4>2. Tail(s) \in Left(kind)
        BY <2>5, <4>1 DEF Left, CleanupLeft
      <4>3. \A q : ~ Has(Tail(s), Do("write", q))
        BY <4>1, JobParts
      <4> QED BY <2>5, <4>1, <4>2, <4>3, JobParts
    <3>4. CASE s = << Do("removed", "driver"), Do("removed", "passenger") >>
      <4>1. /\ s # << >> /\ Head(s) = Do("removed", "driver") /\ Tail(s) = << Do("removed", "passenger") >>
            /\ \A j : Has(Tail(s), j) <=> j \in { Do("removed", "passenger") }
            /\ Tail(s) # << >> /\ Tail(s) \in Seq(Job)
        BY <3>1, <3>4, List2, List1
      <4>2. Tail(s) \in Left(kind)
        BY <2>5, <4>1 DEF Left, CleanupLeft
      <4>3. \A q : ~ Has(Tail(s), Do("write", q))
        BY <4>1, JobParts
      <4> QED BY <2>5, <4>1, <4>2, <4>3, JobParts
    <3>5. CASE s = << Do("removed", "passenger") >>
      <4>1. /\ s # << >> /\ Head(s) = Do("removed", "passenger") /\ Tail(s) = << >>
            /\ \A j : ~ Has(Tail(s), j)
        BY <3>1, <3>5, List1, List0
      <4>3. \A q : ~ Has(Tail(s), Do("write", q))
        BY <4>1, JobParts
      <4> QED BY <2>5, <4>1, <4>3, JobParts
    <3> QED BY <2>5, <3>2, <3>3, <3>4, <3>5 DEF CleanupLeft, Cleanup
  <2> QED BY <2>2, <2>3, <2>4, <2>5 DEF Left
<1>3. Head(s) \in Job
  BY <1>1, <1>2
<1>4. \A j : Has(s, j) <=> (j = Head(s) \/ Has(Tail(s), j))
  BY <1>1, <1>2, HeadOrTail
<1> QED BY <1>1, <1>2, <1>3, <1>4

Stages == {"sent", "own", "near", "emit"}
\* A handler as the gateway has them.
Formed(h) ==
  /\ h.agenda \in Left(h.kind)
  /\ h.stage = "sent" => Head(h.agenda).does = "write"
  /\ h.stage \in {"near", "emit"} => Head(h.agenda).does \notin {"write", "record"}
  /\ h.kind \in {"join", "position"} /\ Head(h.agenda).does = "write" => h.at \in Positions
Working == { h \in Handler : Formed(h) }
Spoken == { m \in Message : m.kind # "leave" => m.at \in Positions }
PresenceTyped ==
  /\ client \in [Users -> Tab]
  /\ link \in [Users -> {"up", "dead", "down", "out"}]
  /\ zombie \subseteq Users
  /\ buffer \in [Users -> Seq(Spoken)]
  /\ row \in [Roles -> [Users -> Row]]
  /\ recent \in [Users -> 0 .. Throttle]
  /\ riding \subseteq Users
  /\ flight \in Seq(Working)
  /\ events \in [Users -> 0 .. MaxEvents]
  /\ shaken \subseteq Users
  /\ blurred \subseteq Stores

\* The agenda of a message begins by writing the row of its role, and no other.
LEMMA AgendaOf ==
  ASSUME NEW m \in Message
  PROVE  /\ Agenda(m) \in Left(m.kind) /\ Head(Agenda(m)) = Do("write", m.role)
         /\ \A r : Has(Agenda(m), Do("write", r)) <=> r = m.role
<1>1. m.role \in Roles /\ m.kind \in Kinds
  BY DEF Message
<1>2. /\ Do("write", m.role) \in Job /\ Do("broadcast", m.role) \in Job /\ Do("snapshot", m.role) \in Job
      /\ Do("removed", m.role) \in Job /\ Do("record", m.role) \in Job
  BY <1>1, Jobs DEF Routines
<1> DEFINE Goal == Agenda(m) \in Left(m.kind) /\ Head(Agenda(m)) = Do("write", m.role)
<1>3. ASSUME m.kind = "join" PROVE Goal
  <2>1. Agenda(m) = << Do("write", m.role), Do("broadcast", m.role), Do("snapshot", m.role) >>
    BY <1>3 DEF Agenda
  <2>0. << Do("write", m.role), Do("broadcast", m.role), Do("snapshot", m.role) >> \in Seq(Job) /\ Head(<< Do("write", m.role), Do("broadcast", m.role), Do("snapshot", m.role) >>) = Do("write", m.role)
    BY <1>2, List3
  <2>2. Agenda(m) \in Seq(Job) /\ Head(Agenda(m)) = Do("write", m.role)
    BY <1>2, <2>0, <2>1
  <2>3. Agenda(m) \in Left(m.kind)
    BY <1>1, <1>3, <2>1, <2>2 DEF Left, JoinLeft
  <2> QED BY <2>2, <2>3
<1>4. ASSUME m.kind = "leave" PROVE Goal
  <2>1. Agenda(m) = << Do("write", m.role), Do("removed", m.role) >>
    BY <1>4 DEF Agenda
  <2>0. << Do("write", m.role), Do("removed", m.role) >> \in Seq(Job) /\ Head(<< Do("write", m.role), Do("removed", m.role) >>) = Do("write", m.role)
    BY <1>2, List2
  <2>2. Agenda(m) \in Seq(Job) /\ Head(Agenda(m)) = Do("write", m.role)
    BY <1>2, <2>0, <2>1
  <2>3. Agenda(m) \in Left(m.kind)
    BY <1>1, <1>4, <2>1, <2>2 DEF Left, LeaveLeft
  <2> QED BY <2>2, <2>3
<1>5. ASSUME m.kind = "position" /\ m.role = "driver" PROVE Goal
  <2>1. Agenda(m) = << Do("write", "driver"), Do("broadcast", "driver") >>
    BY <1>5 DEF Agenda
  <2>0. << Do("write", m.role), Do("broadcast", m.role) >> \in Seq(Job) /\ Head(<< Do("write", m.role), Do("broadcast", m.role) >>) = Do("write", m.role)
    BY <1>2, List2
  <2>2. Agenda(m) \in Seq(Job) /\ Head(Agenda(m)) = Do("write", m.role)
    BY <1>2, <1>5, <2>0, <2>1
  <2>3. Agenda(m) \in Left(m.kind)
    BY <1>1, <1>5, <2>1, <2>2 DEF Left, MoveLeft
  <2> QED BY <2>2, <2>3
<1>6. ASSUME m.kind = "position" /\ m.role = "passenger" PROVE Goal
  <2>1. Agenda(m) = << Do("write", "passenger"), Do("record", "passenger") >>
    BY <1>6 DEF Agenda
  <2>0. << Do("write", m.role), Do("record", m.role) >> \in Seq(Job) /\ Head(<< Do("write", m.role), Do("record", m.role) >>) = Do("write", m.role)
    BY <1>2, List2
  <2>2. Agenda(m) \in Seq(Job) /\ Head(Agenda(m)) = Do("write", m.role)
    BY <1>2, <1>6, <2>0, <2>1
  <2>3. Agenda(m) \in Left(m.kind)
    BY <1>1, <1>6, <2>1, <2>2 DEF Left, MoveLeft
  <2> QED BY <2>2, <2>3
<1>7. Goal
  BY <1>1, <1>3, <1>4, <1>5, <1>6 DEF Kinds, Roles
<1>8. m.kind # "disconnect"
  BY <1>1 DEF Kinds
<1>9. \A r : ~ Has(Tail(Agenda(m)), Do("write", r))
  BY <1>7, <1>8, Agendas
<1>10. \A r : Has(Agenda(m), Do("write", r)) <=> Do("write", r) = Do("write", m.role)
  BY <1>7, <1>9, Agendas
<1>11. \A r : Do("write", r) = Do("write", m.role) <=> r = m.role
  BY JobParts
<1> QED BY <1>7, <1>10, <1>11

LEMMA Handlings ==
  ASSUME NEW u, NEW kind, NEW p, NEW stage, NEW agenda
  PROVE  LET h == Handling(u, kind, p, stage, agenda) IN
           h.who = u /\ h.kind = kind /\ h.agenda = agenda /\ h.stage = stage /\ h.at = p /\ h.found = {}
BY DEF Handling

\* The messages a socket sends are well formed, in order, and not yet dispatched.
LEMMA SentForm ==
  ASSUME NEW u \in Users, NEW ms \in Seq(Spoken)
  PROVE  /\ Sent(u, ms) \in Seq(Working) /\ Len(Sent(u, ms)) = Len(ms) /\ DOMAIN Sent(u, ms) = DOMAIN ms
         /\ \A i \in DOMAIN ms : /\ Sent(u, ms)[i].who = u /\ Sent(u, ms)[i].kind = ms[i].kind
                                 /\ Sent(u, ms)[i].stage = "sent" /\ Sent(u, ms)[i].agenda = Agenda(ms[i])
<1> DEFINE h(i) == Handling(u, ms[i].kind, ms[i].at, "sent", Agenda(ms[i]))
<1>1. ASSUME NEW i \in DOMAIN ms PROVE h(i) \in Working
  <2>1. ms[i] \in Message /\ (ms[i].kind # "leave" => ms[i].at \in Positions)
    BY DEF Spoken
  <2>2. Agenda(ms[i]) \in Left(ms[i].kind) /\ Head(Agenda(ms[i])) = Do("write", ms[i].role)
    BY <2>1, AgendaOf
  <2>3. Agenda(ms[i]) \in Seq(Job) /\ Head(Agenda(ms[i])).does = "write"
    BY <2>2, JobParts DEF Left
  <2>4. ms[i].kind \in Kinds /\ ms[i].at \in Seen \cup {Nowhere}
    BY <2>1, PresenceAssumption DEF Message
  <2>5. h(i) \in Handler
    BY <2>3, <2>4 DEF Handling, Handler
  <2> HIDE DEF h
  <2>6. h(i).kind = ms[i].kind /\ h(i).agenda = Agenda(ms[i]) /\ h(i).stage = "sent" /\ h(i).at = ms[i].at
    BY Handlings DEF h
  <2>7. Formed(h(i))
    BY <2>1, <2>2, <2>3, <2>6 DEF Formed
  <2> QED BY <2>5, <2>7 DEF Working
<1> HIDE DEF h
<1>2. Sent(u, ms) = [i \in DOMAIN ms |-> h(i)]
  BY DEF Sent, h
<1>3. Len(ms) \in Nat /\ DOMAIN ms = 1..Len(ms)
  OBVIOUS
<1>4. Sent(u, ms) \in Seq(Working) /\ Len(Sent(u, ms)) = Len(ms) /\ DOMAIN Sent(u, ms) = DOMAIN ms
  BY <1>1, <1>2, <1>3
<1>5. \A i \in DOMAIN ms : Sent(u, ms)[i] = h(i)
  BY <1>2
<1>6. \A i \in DOMAIN ms : h(i).who = u /\ h(i).kind = ms[i].kind /\ h(i).stage = "sent" /\ h(i).agenda = Agenda(ms[i])
  BY Handlings DEF h
<1> QED BY <1>4, <1>5, <1>6

\* So is what handleDisconnect begins.
LEMMA CleanupForm ==
  ASSUME NEW u \in Users
  PROVE  LET h == Handling(u, "disconnect", Nowhere, "own", Cleanup) IN
           /\ h \in Working /\ h.who = u /\ h.kind = "disconnect" /\ h.stage = "own" /\ h.agenda = Cleanup
           /\ Has(Cleanup, Do("write", "driver")) /\ Has(Cleanup, Do("write", "passenger"))
<1>1. /\ Do("write", "driver") \in Job /\ Do("write", "passenger") \in Job
      /\ Do("removed", "driver") \in Job /\ Do("removed", "passenger") \in Job
  BY Jobs DEF Routines, Roles
<1> DEFINE s == << Do("write", "driver"), Do("write", "passenger"), Do("removed", "driver"), Do("removed", "passenger") >>
<1>0. /\ s \in Seq(Job) /\ Head(s) = Do("write", "driver")
      /\ \A j : Has(s, j) <=> j \in { Do("write", "driver"), Do("write", "passenger"), Do("removed", "driver"), Do("removed", "passenger") }
  BY <1>1 DEF Has
<1>2. Cleanup \in Seq(Job) /\ Head(Cleanup) = Do("write", "driver")
      /\ \A j : Has(Cleanup, j) <=> j \in { Do("write", "driver"), Do("write", "passenger"), Do("removed", "driver"), Do("removed", "passenger") }
  BY <1>0 DEF Cleanup
<1>3. Cleanup \in Left("disconnect")
  BY <1>2 DEF Left, CleanupLeft
<1> DEFINE h == Handling(u, "disconnect", Nowhere, "own", Cleanup)
<1>4. h \in Handler
  BY <1>2 DEF Handling, Handler
<1> HIDE DEF h
<1>5. h.who = u /\ h.kind = "disconnect" /\ h.stage = "own" /\ h.agenda = Cleanup
  BY Handlings DEF h
<1>6. Formed(h)
  BY <1>3, <1>5 DEF Formed
<1>7. h \in Working
  BY <1>4, <1>6 DEF Working
<1>8. Has(Cleanup, Do("write", "driver")) /\ Has(Cleanup, Do("write", "passenger"))
  BY <1>2
<1> QED BY <1>5, <1>7, <1>8 DEF h

\* Sequences of something are sequences of anything wider.
LEMMA SeqWider ==
  ASSUME NEW A, NEW B, A \subseteq B
  PROVE  Seq(A) \subseteq Seq(B)
<1> SUFFICES ASSUME NEW s \in Seq(A) PROVE s \in Seq(B)
  OBVIOUS
<1> QED OBVIOUS

\* Two sequences joined.
LEMMA Concatenated ==
  ASSUME NEW S, NEW s \in Seq(S), NEW e \in Seq(S), NEW t, t = s \o e
  PROVE  /\ t \in Seq(S) /\ Len(t) = Len(s) + Len(e)
         /\ DOMAIN s = 1..Len(s) /\ DOMAIN e = 1..Len(e) /\ DOMAIN t = 1..(Len(s) + Len(e))
         /\ Len(s) \in Nat /\ Len(e) \in Nat
         /\ \A k \in DOMAIN s : k \in DOMAIN t /\ t[k] = s[k]
         /\ \A k \in DOMAIN e : Len(s) + k \in DOMAIN t /\ t[Len(s) + k] = e[k]
         /\ \A k \in DOMAIN t : k \in DOMAIN s \/ (k - Len(s) \in DOMAIN e /\ k = Len(s) + (k - Len(s)))
<1>1. /\ t \in Seq(S) /\ Len(t) = Len(s) + Len(e) /\ Len(s) \in Nat /\ Len(e) \in Nat
      /\ DOMAIN s = 1..Len(s) /\ DOMAIN e = 1..Len(e) /\ DOMAIN t = 1..(Len(s) + Len(e))
  OBVIOUS
<1>2. \A k \in 1..Len(s) : t[k] = s[k]
  OBVIOUS
<1>3. \A k \in 1..Len(e) : t[Len(s) + k] = e[k]
  OBVIOUS
<1> QED BY <1>1, <1>2, <1>3

\* What is inductive implies the type invariant of the runs.
LEMMA TypeGivesOK == PresenceTyped => PresenceTypeOK
<1> SUFFICES ASSUME PresenceTyped PROVE PresenceTypeOK
  OBVIOUS
<1>1. Working \subseteq Handler /\ Spoken \subseteq Message
  BY DEF Working, Spoken
<1>2. Seq(Working) \subseteq Seq(Handler) /\ Seq(Spoken) \subseteq Seq(Message)
  BY <1>1, SeqWider
<1>3. buffer \in [Users -> Seq(Message)] /\ flight \in Seq(Handler)
  BY <1>2 DEF PresenceTyped
<1> QED BY <1>3 DEF PresenceTyped, PresenceTypeOK

LEMMA TwoRoles == "driver" \in Roles /\ "passenger" \in Roles /\ \A r \in Roles : Other(r) \in Roles /\ Other(r) # r /\ Other(Other(r)) = r /\ \A q \in Roles : q = r \/ q = Other(r)
BY DEF Roles, Other

\* A tab of the client, part by part, and the changes that keep it one.
LEMMA TabParts ==
  ASSUME NEW t \in Tab
  PROVE  /\ t.is_driver \in BOOLEAN /\ t.on_map \in BOOLEAN /\ t.fix \in Positions \cup {Nowhere}
         /\ t.on \in [Roles -> BOOLEAN] /\ t.store \in [Roles -> SUBSET Users]
         /\ \A r \in Roles : t.on[r] \in BOOLEAN /\ t.store[r] \subseteq Users
         /\ DOMAIN t = {"is_driver", "on_map", "fix", "on", "store"}
BY DEF Tab

LEMMA TabMade ==
  ASSUME NEW d \in BOOLEAN, NEW m \in BOOLEAN, NEW f \in Positions \cup {Nowhere}, NEW o \in [Roles -> BOOLEAN], NEW s \in [Roles -> SUBSET Users]
  PROVE  [is_driver |-> d, on_map |-> m, fix |-> f, on |-> o, store |-> s] \in Tab
BY DEF Tab

LEMMA TabChanged ==
  ASSUME NEW t \in Tab
  PROVE  /\ \A b \in BOOLEAN : [t EXCEPT !.is_driver = b] \in Tab /\ [t EXCEPT !.on_map = b] \in Tab
         /\ \A f \in Positions \cup {Nowhere} : [t EXCEPT !.fix = f] \in Tab
         /\ \A o \in [Roles -> BOOLEAN] : [t EXCEPT !.on = o] \in Tab
         /\ \A s \in [Roles -> SUBSET Users] : [t EXCEPT !.store = s] \in Tab
         /\ \A r \in Roles, b \in BOOLEAN : [t EXCEPT !.on[r] = b] \in Tab
         /\ \A r \in Roles, s \in SUBSET Users : [t EXCEPT !.store[r] = s] \in Tab
         /\ ClearStores(t) \in Tab
<1>1. /\ t.on \in [Roles -> BOOLEAN] /\ t.store \in [Roles -> SUBSET Users]
  BY TabParts
<1>2. \A r \in Roles, b \in BOOLEAN : [t.on EXCEPT ![r] = b] \in [Roles -> BOOLEAN]
  BY <1>1
<1>3. \A r \in Roles, s \in SUBSET Users : [t.store EXCEPT ![r] = s] \in [Roles -> SUBSET Users]
  BY <1>1
<1>4. [r \in Roles |-> {}] \in [Roles -> SUBSET Users]
  OBVIOUS
<1>5. /\ \A b \in BOOLEAN : [t EXCEPT !.is_driver = b] \in Tab /\ [t EXCEPT !.on_map = b] \in Tab
      /\ \A f \in Positions \cup {Nowhere} : [t EXCEPT !.fix = f] \in Tab
  BY DEF Tab
<1>6. \A o \in [Roles -> BOOLEAN] : [t EXCEPT !.on = o] \in Tab
  BY DEF Tab
<1>7. \A s \in [Roles -> SUBSET Users] : [t EXCEPT !.store = s] \in Tab
  BY DEF Tab
<1>8. \A r \in Roles, b \in BOOLEAN : [t EXCEPT !.on[r] = b] \in Tab
  BY <1>2, <1>6
<1>9. \A r \in Roles, s \in SUBSET Users : [t EXCEPT !.store[r] = s] \in Tab
  BY <1>3, <1>7
<1>10. ClearStores(t) \in Tab
  BY <1>4, <1>7 DEF ClearStores
<1> QED BY <1>5, <1>6, <1>7, <1>8, <1>9, <1>10

LEMMA RoleOfUser ==
  ASSUME PresenceTyped, NEW u \in Users
  PROVE  RoleOf(u) \in Roles /\ client[u] \in Tab
BY DEF PresenceTyped, RoleOf, Roles, Tab

LEMMA OneTab ==
  ASSUME NEW c \in [Users -> Tab], NEW u \in Users, NEW t \in Tab
  PROVE  [c EXCEPT ![u] = t] \in [Users -> Tab]
OBVIOUS

\* A message, part by part.
LEMMA Messages ==
  ASSUME NEW kind \in Kinds, NEW r \in Roles, NEW p \in Positions \cup {Nowhere}
  PROVE  /\ Msg(kind, r, p) \in Message
         /\ Msg(kind, r, p).kind = kind /\ Msg(kind, r, p).role = r /\ Msg(kind, r, p).at = p
         /\ kind = "leave" \/ p # Nowhere => Msg(kind, r, p) \in Spoken
BY DEF Msg, Message, Spoken

LEMMA EventTypes ==
  ASSUME PresenceTyped, NEW u \in Users, Event(u)
  PROVE  events' \in [Users -> 0 .. MaxEvents]
<1>1. MaxEvents \in Nat
  BY PresenceAssumption
<1> QED BY <1>1 DEF PresenceTyped, Event

LEMMA WithTypes ==
  ASSUME PresenceTyped, NEW u \in Users, NEW ms \in Seq(Spoken), Emit(u, ms)
  PROVE  flight' \in Seq(Working) /\ buffer' \in [Users -> Seq(Spoken)]
<1>1. Sent(u, ms) \in Seq(Working)
  BY SentForm
<1>2. flight \o Sent(u, ms) \in Seq(Working)
  BY <1>1 DEF PresenceTyped
<1>3. buffer[u] \o ms \in Seq(Spoken)
  BY DEF PresenceTyped
<1> QED BY <1>2, <1>3 DEF PresenceTyped, Emit

\* A message that says whether its sender is there in the role r.
Speaks(m, r) == m.kind # "position" /\ m.role = r
AllSay(ms, r, b) == \A i \in DOMAIN ms : Speaks(ms[i], r) => (ms[i].kind = "join") = b
Silent(ms, r) == \A i \in DOMAIN ms : ~ Speaks(ms[i], r)
RoleIn(tab) == IF tab.is_driver THEN "driver" ELSE "passenger"

\* What a client that says something does.
Says(u, ms, tab) ==
  /\ client' = [client EXCEPT ![u] = tab]
  /\ Emit(u, ms)
  /\ UNCHANGED <<link, zombie, server, blurred>>
  /\ shaken' \in SUBSET Users /\ shaken \subseteq shaken'
  /\ events' \in [Users -> 0 .. MaxEvents]
  /\ \A r \in Roles : tab.store[r] = client[u].store[r] \/ tab.store[r] = {}
  /\ ~ client[u].on[Other(RoleOf(u))] => ~ tab.on[Other(RoleIn(tab))]
  /\ ~ client[u].on[Other(RoleOf(u))] => \A r \in Roles : AllSay(ms, r, tab.on[r])
  /\ u \notin shaken' => \A r \in Roles : Silent(ms, r) => tab.on[r] = client[u].on[r]

\* Messages of one role that all say what the toggle says.
LEMMA RoleSays ==
  ASSUME NEW ms \in Seq(Spoken), NEW r \in Roles, NEW tab \in Tab,
         \A i \in DOMAIN ms : ms[i].role = r /\ (ms[i].kind # "position" => (ms[i].kind = "join") = tab.on[r])
  PROVE  \A q \in Roles : AllSay(ms, q, tab.on[q]) /\ (q # r => Silent(ms, q))
BY DEF AllSay, Silent, Speaks

LEMMA OneMessage ==
  ASSUME NEW m \in Spoken
  PROVE  << m >> \in Seq(Spoken) /\ DOMAIN << m >> = {1} /\ << m >>[1] = m
OBVIOUS

\* A tab whose toggle of the role r, or whose position, or whose store, changes.
Toggled(t, r, b) == [t EXCEPT !.on[r] = b]
Placed(t, p) == [t EXCEPT !.fix = p]
Stored(t, r, s) == [t EXCEPT !.store[r] = s]

\* What a change of one part of a tab leaves alone.
LEMMA OnChanged ==
  ASSUME NEW t \in Tab, NEW r \in Roles, NEW b \in BOOLEAN
  PROVE  LET tab == Toggled(t, r, b) IN
         /\ tab \in Tab /\ tab.on[r] = b /\ \A q \in Roles : q # r => tab.on[q] = t.on[q]
         /\ tab.is_driver = t.is_driver /\ tab.on_map = t.on_map /\ tab.fix = t.fix /\ tab.store = t.store
<1> DEFINE tab == Toggled(t, r, b)
<1>1. t.on \in [Roles -> BOOLEAN]
  BY TabParts
<1>2. tab.on = [t.on EXCEPT ![r] = b] /\ tab.is_driver = t.is_driver /\ tab.on_map = t.on_map /\ tab.fix = t.fix /\ tab.store = t.store
  BY DEF Tab, Toggled
<1>3. tab \in Tab
  BY TabChanged DEF Toggled
<1> HIDE DEF tab
<1> QED BY <1>1, <1>2, <1>3 DEF tab

LEMMA FixChanged ==
  ASSUME NEW t \in Tab, NEW p \in Positions \cup {Nowhere}
  PROVE  LET tab == Placed(t, p) IN
         /\ tab \in Tab /\ tab.fix = p
         /\ tab.is_driver = t.is_driver /\ tab.on_map = t.on_map /\ tab.on = t.on /\ tab.store = t.store
<1>1. Placed(t, p) \in Tab
  BY TabChanged DEF Placed
<1> QED BY <1>1 DEF Tab, Placed

LEMMA StoresCleared ==
  ASSUME NEW t \in Tab
  PROVE  LET tab == ClearStores(t) IN
         /\ tab \in Tab /\ \A r \in Roles : tab.store[r] = {}
         /\ tab.is_driver = t.is_driver /\ tab.on_map = t.on_map /\ tab.on = t.on /\ tab.fix = t.fix
<1> DEFINE tab == ClearStores(t)
<1>1. tab \in Tab
  BY TabChanged
<1>2. tab = [t EXCEPT !.store = [r \in Roles |-> {}]]
  BY DEF ClearStores
<1>3. tab.store = [r \in Roles |-> {}] /\ tab.is_driver = t.is_driver /\ tab.on_map = t.on_map /\ tab.on = t.on /\ tab.fix = t.fix
  BY <1>2 DEF Tab
<1> HIDE DEF tab
<1> QED BY <1>1, <1>3 DEF tab

LEMMA StoreChanged ==
  ASSUME NEW t \in Tab, NEW r \in Roles, NEW s \in SUBSET Users
  PROVE  LET tab == Stored(t, r, s) IN
         /\ tab \in Tab /\ tab.store[r] = s /\ \A q \in Roles : q # r => tab.store[q] = t.store[q]
         /\ tab.is_driver = t.is_driver /\ tab.on_map = t.on_map /\ tab.on = t.on /\ tab.fix = t.fix
<1> DEFINE tab == Stored(t, r, s)
<1>1. t.store \in [Roles -> SUBSET Users]
  BY TabParts
<1>2. tab.store = [t.store EXCEPT ![r] = s] /\ tab.is_driver = t.is_driver /\ tab.on_map = t.on_map /\ tab.on = t.on /\ tab.fix = t.fix
  BY DEF Tab, Stored
<1>3. tab \in Tab
  BY TabChanged DEF Stored
<1> HIDE DEF tab
<1> QED BY <1>1, <1>2, <1>3 DEF tab

\* Each step of the client is a case of Says: what it sends agrees with the toggle.
LEMMA ToggleOnSays ==
  ASSUME PresenceTyped, NEW u \in Users, ToggleOn(u)
  PROVE  \E ms \in Seq(Spoken), tab \in Tab : Says(u, ms, tab)
<1> DEFINE r == RoleOf(u)
           m == Msg("join", r, client[u].fix)
           tab == Toggled(client[u], r, TRUE)
<1>1. r \in Roles /\ client[u] \in Tab
  BY RoleOfUser
<1>2. client[u].fix # Nowhere /\ With(u, tab, << m >>) /\ UNCHANGED events
  BY DEF ToggleOn, Toggled
<1>3. m \in Spoken /\ m.kind = "join" /\ m.role = r
  BY <1>1, <1>2, Messages, TabParts DEF Kinds
<1>4. << m >> \in Seq(Spoken) /\ DOMAIN << m >> = {1} /\ << m >>[1] = m
  BY <1>3, OneMessage
<1>5. /\ tab \in Tab /\ tab.on[r] = TRUE /\ \A q \in Roles : q # r => tab.on[q] = client[u].on[q]
      /\ tab.is_driver = client[u].is_driver /\ tab.store = client[u].store
  BY <1>1, OnChanged
<1>6. RoleIn(tab) = r
  BY <1>5 DEF RoleIn, RoleOf
<1> HIDE DEF m, tab
<1>7. /\ \A q \in Roles : AllSay(<< m >>, q, tab.on[q]) /\ (q # r => Silent(<< m >>, q))
      /\ ~ Silent(<< m >>, r)
  <2>1. \A i \in DOMAIN << m >> : << m >>[i].role = r /\ (<< m >>[i].kind # "position" => (<< m >>[i].kind = "join") = tab.on[r])
    BY <1>3, <1>4, <1>5
  <2>2. ~ Silent(<< m >>, r)
    BY <1>3, <1>4 DEF Silent, Speaks
  <2> DEFINE ms == << m >>
  <2>3. ms \in Seq(Spoken) /\ ~ Silent(ms, r)
    BY <1>4, <2>2
  <2>4. \A i \in DOMAIN ms : ms[i].role = r /\ (ms[i].kind # "position" => (ms[i].kind = "join") = tab.on[r])
    BY <2>1
  <2> HIDE DEF r, ms
  <2>5. \A q \in Roles : AllSay(ms, q, tab.on[q]) /\ (q # r => Silent(ms, q))
    <3>1. r \in Roles /\ tab \in Tab
      BY <1>1, <1>5
    <3> QED BY <2>3, <2>4, <3>1 DEF AllSay, Silent, Speaks
  <2>6. /\ \A q \in Roles : AllSay(ms, q, tab.on[q]) /\ (q # r => Silent(ms, q))
        /\ ~ Silent(ms, r)
    BY <2>3, <2>5
  <2> QED BY <2>6 DEF ms
<1>8. Says(u, << m >>, tab)
  <2>1. client' = [client EXCEPT ![u] = tab] /\ Emit(u, << m >>) /\ UNCHANGED <<link, zombie, server, shaken, blurred>>
    BY <1>2 DEF With
  <2>2. ~ client[u].on[Other(r)] => ~ tab.on[Other(r)]
    BY <1>1, <1>5, TwoRoles
  <2>3. events' \in [Users -> 0 .. MaxEvents] /\ shaken' \in SUBSET Users
    BY <1>2, <2>1 DEF PresenceTyped
  <2>4. \A q \in Roles : Silent(<< m >>, q) => tab.on[q] = client[u].on[q]
    BY <1>5, <1>7
  <2> QED BY <1>1, <1>5, <1>6, <1>7, <2>1, <2>2, <2>3, <2>4 DEF Says
<1> QED BY <1>4, <1>5, <1>8

LEMMA ToggleOffSays ==
  ASSUME PresenceTyped, NEW u \in Users, ToggleOff(u)
  PROVE  \E ms \in Seq(Spoken), tab \in Tab : Says(u, ms, tab)
<1> DEFINE r == RoleOf(u)
           m == Msg("leave", r, Nowhere)
           off == Toggled(client[u], r, FALSE)
           tab == Stored(off, Other(r), {})
<1>1. r \in Roles /\ Other(r) \in Roles /\ client[u] \in Tab
  BY RoleOfUser, TwoRoles
<1>2. With(u, [client[u] EXCEPT !.on[r] = FALSE, !.store[Other(r)] = {}], << m >>) /\ UNCHANGED events
  BY DEF ToggleOff
<1>3. m \in Spoken /\ m.kind = "leave" /\ m.role = r
  BY <1>1, Messages DEF Kinds
<1>4. << m >> \in Seq(Spoken) /\ DOMAIN << m >> = {1} /\ << m >>[1] = m
  BY <1>3, OneMessage
<1>5. /\ off \in Tab /\ off.on[r] = FALSE /\ \A q \in Roles : q # r => off.on[q] = client[u].on[q]
      /\ off.is_driver = client[u].is_driver /\ off.store = client[u].store
  BY <1>1, OnChanged
<1>6. /\ tab \in Tab /\ tab.store[Other(r)] = {} /\ \A q \in Roles : q # Other(r) => tab.store[q] = client[u].store[q]
      /\ tab.is_driver = client[u].is_driver /\ tab.on = off.on
  <2> HIDE DEF off
  <2> QED BY <1>1, <1>5, StoreChanged
<1>7. tab.on[r] = FALSE /\ \A q \in Roles : q # r => tab.on[q] = client[u].on[q]
  BY <1>5, <1>6
<1>8. RoleIn(tab) = r
  BY <1>6 DEF RoleIn, RoleOf
<1>9. [client[u] EXCEPT !.on[r] = FALSE, !.store[Other(r)] = {}] = tab
  BY DEF Toggled, Stored
<1> HIDE DEF m, off, tab
<1>10. /\ \A q \in Roles : AllSay(<< m >>, q, tab.on[q]) /\ (q # r => Silent(<< m >>, q))
       /\ ~ Silent(<< m >>, r)
  <2>1. \A i \in DOMAIN << m >> : << m >>[i].role = r /\ (<< m >>[i].kind # "position" => (<< m >>[i].kind = "join") = tab.on[r])
    BY <1>3, <1>4, <1>7
  <2>2. ~ Silent(<< m >>, r)
    BY <1>3, <1>4 DEF Silent, Speaks
  <2> HIDE DEF r
  <2> QED BY <1>1, <1>4, <1>6, <2>1, <2>2, RoleSays
<1>11. Says(u, << m >>, tab)
  <2>1. client' = [client EXCEPT ![u] = tab] /\ Emit(u, << m >>) /\ UNCHANGED <<link, zombie, server, shaken, blurred>>
    BY <1>2, <1>9 DEF With
  <2>2. ~ client[u].on[Other(r)] => ~ tab.on[Other(r)]
    BY <1>1, <1>7, TwoRoles
  <2>3. events' \in [Users -> 0 .. MaxEvents] /\ shaken' \in SUBSET Users
    BY <1>2, <2>1 DEF PresenceTyped
  <2>4. \A q \in Roles : Silent(<< m >>, q) => tab.on[q] = client[u].on[q]
    BY <1>7, <1>10
  <2>5. \A q \in Roles : tab.store[q] = client[u].store[q] \/ tab.store[q] = {}
    BY <1>6
  <2> QED BY <1>1, <1>6, <1>8, <1>10, <2>1, <2>2, <2>3, <2>4, <2>5 DEF Says
<1> QED BY <1>4, <1>6, <1>11

\* An element of two sequences joined is an element of one of them.
LEMMA EitherPart ==
  ASSUME NEW S, NEW a \in Seq(S), NEW b \in Seq(S)
  PROVE  /\ a \o b \in Seq(S)
         /\ \A i \in DOMAIN (a \o b) : (\E j \in DOMAIN a : (a \o b)[i] = a[j]) \/ (\E j \in DOMAIN b : (a \o b)[i] = b[j])
<1> DEFINE t == a \o b
<1>1. t = a \o b
  OBVIOUS
<1> HIDE DEF t
<1>2. /\ t \in Seq(S)
      /\ \A k \in DOMAIN a : t[k] = a[k]
      /\ \A k \in DOMAIN b : t[Len(a) + k] = b[k]
      /\ \A k \in DOMAIN t : k \in DOMAIN a \/ (k - Len(a) \in DOMAIN b /\ k = Len(a) + (k - Len(a)))
  BY <1>1, Concatenated
<1> QED BY <1>1, <1>2

\* Whatever a moving client says, it only repeats its toggle.
LEMMA MovingSays ==
  ASSUME PresenceTyped, NEW u \in Users, NEW p \in Positions, NEW ms \in Seq(Spoken),
         \A i \in DOMAIN ms : \/ ms[i] = Msg("position", RoleOf(u), p)
                              \/ client[u].on[RoleOf(u)] /\ ms[i] = Msg("join", RoleOf(u), p),
         BoundMoves(u, p), With(u, Placed(client[u], p), ms)
  PROVE  Says(u, ms, Placed(client[u], p)) /\ Placed(client[u], p) \in Tab
<1> DEFINE r == RoleOf(u)
           tab == Placed(client[u], p)
<1>1. r \in Roles /\ client[u] \in Tab
  BY RoleOfUser
<1>2. tab \in Tab /\ tab.on = client[u].on /\ tab.is_driver = client[u].is_driver /\ tab.store = client[u].store
  BY <1>1, FixChanged
<1>3. client[u].on[r] \in BOOLEAN
  BY <1>1, TabParts
<1>4. RoleIn(tab) = r
  BY <1>2 DEF RoleIn, RoleOf
<1> DEFINE m1 == Msg("position", r, p)
           m2 == Msg("join", r, p)
<1>5. m1.role = r /\ m1.kind = "position" /\ m2.role = r /\ m2.kind = "join"
  BY <1>1, Messages DEF Kinds
<1>6. \A i \in DOMAIN ms : ms[i] = m1 \/ (client[u].on[r] /\ ms[i] = m2)
  OBVIOUS
<1>7. Emit(u, ms) /\ client' = [client EXCEPT ![u] = tab] /\ UNCHANGED <<link, zombie, server, shaken, blurred>>
  BY DEF With
<1> HIDE DEF m1, m2, tab, r
<1>8. \A i \in DOMAIN ms : ms[i].role = r /\ (ms[i].kind # "position" => (ms[i].kind = "join") = tab.on[r])
  BY <1>2, <1>3, <1>5, <1>6
<1>9. \A q \in Roles : AllSay(ms, q, tab.on[q])
  BY <1>1, <1>2, <1>8, RoleSays
<1>10. events' \in [Users -> 0 .. MaxEvents] /\ shaken' \in SUBSET Users
  BY <1>7, EventTypes DEF PresenceTyped, BoundMoves
<1>11. tab.on[Other(RoleIn(tab))] = client[u].on[Other(RoleOf(u))]
  BY <1>2, <1>4 DEF r
<1>12. \A q \in Roles : tab.on[q] = client[u].on[q] /\ tab.store[q] = client[u].store[q]
  BY <1>2
<1>13. Says(u, ms, tab)
  BY <1>7, <1>9, <1>10, <1>11, <1>12 DEF Says
<1> QED BY <1>2, <1>13 DEF tab

LEMMA NewFixSays ==
  ASSUME PresenceTyped, NEW u \in Users, NEW p \in Positions, NewFix(u, p)
  PROVE  \E ms \in Seq(Spoken), tab \in Tab : Says(u, ms, tab)
<1> DEFINE r == RoleOf(u)
           turned == client[u].fix # Nowhere /\ p.dir # client[u].fix.dir
           m1 == Msg("position", r, p)
           m2 == Msg("join", r, p)
           a == IF client[u].on[r] \/ (r = "passenger" /\ u \in riding) THEN << m1 >> ELSE << >>
           b == IF client[u].on[r] /\ turned THEN << m2 >> ELSE << >>
<1>1. r \in Roles /\ p # Nowhere /\ p \in Positions \cup {Nowhere}
  BY RoleOfUser, PresenceAssumption
<1>2. m1 \in Spoken /\ m2 \in Spoken
  BY <1>1, Messages DEF Kinds
<1>3. BoundMoves(u, p) /\ With(u, Placed(client[u], p), a \o b)
  BY DEF NewFix, Placed
<1> HIDE DEF m1, m2, turned
<1>4. /\ a \in Seq(Spoken) /\ \A i \in DOMAIN a : a[i] = m1
      /\ b \in Seq(Spoken) /\ \A i \in DOMAIN b : client[u].on[r] /\ b[i] = m2
  <2>1. << m1 >> \in Seq(Spoken) /\ DOMAIN << m1 >> = {1} /\ << m1 >>[1] = m1
        /\ << m2 >> \in Seq(Spoken) /\ DOMAIN << m2 >> = {1} /\ << m2 >>[1] = m2
    BY <1>2, OneMessage
  <2>2. << >> \in Seq(Spoken) /\ DOMAIN << >> = {}
    OBVIOUS
  <2>3. a \in Seq(Spoken) /\ \A i \in DOMAIN a : a[i] = m1
    <3>1. a = << m1 >> \/ a = << >>
      OBVIOUS
    <3> QED BY <2>1, <2>2, <3>1
  <2>4. b \in Seq(Spoken) /\ \A i \in DOMAIN b : client[u].on[r] /\ b[i] = m2
    <3>1. CASE client[u].on[r] /\ turned
      <4>1. b = << m2 >>
        BY <3>1
      <4> QED BY <2>1, <3>1, <4>1
    <3>2. CASE ~ (client[u].on[r] /\ turned)
      <4>1. b = << >>
        BY <3>2
      <4> QED BY <2>2, <4>1
    <3> QED BY <3>1, <3>2
  <2> QED BY <2>3, <2>4
<1> HIDE DEF a, b
<1>5. a \o b \in Seq(Spoken) /\ \A i \in DOMAIN (a \o b) : (\E j \in DOMAIN a : (a \o b)[i] = a[j]) \/ (\E j \in DOMAIN b : (a \o b)[i] = b[j])
  BY <1>4, EitherPart
<1>6. \A i \in DOMAIN (a \o b) : (a \o b)[i] = m1 \/ (client[u].on[r] /\ (a \o b)[i] = m2)
  BY <1>4, <1>5
<1>7. Says(u, a \o b, Placed(client[u], p)) /\ Placed(client[u], p) \in Tab
  BY <1>3, <1>5, <1>6, MovingSays DEF m1, m2
<1> QED BY <1>5, <1>7

LEMMA DestinationSays ==
  ASSUME PresenceTyped, NEW u \in Users, NEW p \in Positions, Destination(u, p)
  PROVE  \E ms \in Seq(Spoken), tab \in Tab : Says(u, ms, tab)
<1> DEFINE r == RoleOf(u)
           m == Msg("join", r, p)
           n == IF Moves(u, p) THEN 2 ELSE 1
           ms == [i \in 1 .. n |-> m]
<1>1. r \in Roles /\ p # Nowhere /\ p \in Positions \cup {Nowhere}
  BY RoleOfUser, PresenceAssumption
<1>2. m \in Spoken
  BY <1>1, Messages DEF Kinds
<1>3. BoundMoves(u, p) /\ With(u, Placed(client[u], p), ms) /\ client[u].on[r]
  BY DEF Destination, Placed
<1> HIDE DEF m
<1>4. n \in Nat
  OBVIOUS
<1> HIDE DEF n
<1>5. ms \in Seq(Spoken) /\ \A i \in DOMAIN ms : ms[i] = m
  BY <1>2, <1>4
<1> HIDE DEF ms
<1>6. Says(u, ms, Placed(client[u], p)) /\ Placed(client[u], p) \in Tab
  BY <1>3, <1>5, MovingSays DEF m
<1> QED BY <1>5, <1>6

LEMMA SwitchModeSays ==
  ASSUME PresenceTyped, NEW u \in Users, SwitchMode(u)
  PROVE  \E ms \in Seq(Spoken), tab \in Tab : Says(u, ms, tab)
<1> DEFINE r == RoleOf(u)
           switched == [client[u] EXCEPT !.is_driver = ~ @]
           connected == link[u] \in {"up", "dead"}
           was == client[u].on[r]
           m == Msg("leave", r, Nowhere)
           off == Toggled(switched, r, FALSE)
           tab == IF was THEN ClearStores(off) ELSE switched
           ms == IF was /\ connected THEN << m >> ELSE << >>
<1>1. r \in Roles /\ Other(r) \in Roles /\ client[u] \in Tab /\ was \in BOOLEAN
  BY RoleOfUser, TwoRoles, TabParts
<1>2. /\ switched \in Tab /\ switched.is_driver = ~ client[u].is_driver
      /\ switched.on = client[u].on /\ switched.store = client[u].store
  BY <1>1 DEF Tab
<1>3. /\ client' = [client EXCEPT ![u] = tab] /\ Emit(u, ms) /\ Event(u)
      /\ shaken' = shaken \cup { v \in {u} : was /\ ~ connected }
      /\ UNCHANGED <<link, zombie, server, blurred>>
  BY DEF SwitchMode, Toggled, Shake
<1>4. RoleOf(u) = (IF client[u].is_driver THEN "driver" ELSE "passenger") /\ client[u].is_driver \in BOOLEAN
  BY <1>1, TabParts DEF RoleOf
<1> HIDE DEF switched
<1>5. off \in Tab /\ off.on[r] = FALSE /\ off.is_driver = switched.is_driver
      /\ \A q \in Roles : q # r => off.on[q] = switched.on[q]
  BY <1>1, <1>2, OnChanged
<1>6. /\ ClearStores(off) \in Tab /\ \A q \in Roles : ClearStores(off).store[q] = {}
      /\ ClearStores(off).is_driver = off.is_driver /\ ClearStores(off).on = off.on
  <2> HIDE DEF off
  <2> QED BY <1>5, StoresCleared
<1> HIDE DEF off
<1>7. tab \in Tab /\ tab.is_driver = ~ client[u].is_driver
      /\ tab.on[r] = FALSE /\ \A q \in Roles : q # r => tab.on[q] = client[u].on[q]
  <2>1. CASE was
    BY <1>2, <1>5, <1>6, <2>1
  <2>2. CASE ~ was
    BY <1>1, <1>2, <2>2
  <2> QED BY <2>1, <2>2
<1>16. \A q \in Roles : tab.store[q] = client[u].store[q] \/ tab.store[q] = {}
  <2>1. CASE was
    <3>1. tab = ClearStores(off)
      BY <2>1
    <3> QED BY <1>6, <3>1
  <2>2. CASE ~ was
    <3>1. tab = switched
      BY <2>2
    <3> QED BY <1>2, <3>1
  <2> QED BY <2>1, <2>2
<1> HIDE DEF tab
<1>8. RoleIn(tab) = Other(r)
  BY <1>4, <1>7 DEF RoleIn, Other
<1>9. m \in Spoken /\ m.kind = "leave" /\ m.role = r
  BY <1>1, Messages DEF Kinds
<1> HIDE DEF m
<1>10. ms \in Seq(Spoken) /\ \A i \in DOMAIN ms : ms[i] = m
  BY <1>9
<1>11. \A q \in Roles : AllSay(ms, q, tab.on[q])
  <2>1. \A i \in DOMAIN ms : ms[i].role = r /\ (ms[i].kind # "position" => (ms[i].kind = "join") = tab.on[r])
    BY <1>7, <1>9, <1>10
  <2> HIDE DEF ms, r
  <2> QED BY <1>1, <1>7, <1>10, <2>1, RoleSays
<1>12. ASSUME u \notin shaken', NEW q \in Roles, Silent(ms, q) PROVE tab.on[q] = client[u].on[q]
  <2>1. CASE q # r
    BY <1>7, <2>1
  <2>2. CASE q = r
    <3>1. ~ (was /\ ~ connected)
      BY <1>3, <1>12
    <3>2. ~ (was /\ connected)
      <4>1. ASSUME was /\ connected PROVE FALSE
        <5>1. ms = << m >>
          BY <4>1
        <5>2. 1 \in DOMAIN ms /\ ms[1] = m
          BY <5>1
        <5> QED BY <1>9, <1>12, <2>2, <5>2 DEF Silent, Speaks
      <4> QED BY <4>1
    <3>3. was = FALSE
      BY <1>1, <3>1, <3>2
    <3> QED BY <1>7, <2>2, <3>3
  <2> QED BY <2>1, <2>2
<1>13. events' \in [Users -> 0 .. MaxEvents] /\ shaken' \in SUBSET Users /\ shaken \subseteq shaken'
  BY <1>3, EventTypes DEF PresenceTyped
<1>14. ~ tab.on[Other(RoleIn(tab))]
  BY <1>1, <1>7, <1>8, TwoRoles
<1> HIDE DEF ms
<1>15. Says(u, ms, tab)
  <2>1. client' = [client EXCEPT ![u] = tab] /\ Emit(u, ms) /\ UNCHANGED <<link, zombie, server, blurred>>
    BY <1>3
  <2>2. u \notin shaken' => \A q \in Roles : Silent(ms, q) => tab.on[q] = client[u].on[q]
    BY <1>12
  <2>4. ~ client[u].on[Other(RoleOf(u))] => ~ tab.on[Other(RoleIn(tab))]
    BY <1>14
  <2>5. ~ client[u].on[Other(RoleOf(u))] => \A q \in Roles : AllSay(ms, q, tab.on[q])
    BY <1>11
  <2> HIDE DEF was, connected, r
  <2> QED BY <1>13, <1>16, <2>1, <2>2, <2>4, <2>5, Zenon DEF Says
<1> QED BY <1>7, <1>10, <1>15

\* The handler h with the agenda s ahead, and after a first and a second read.
Ahead(h, s) == [h EXCEPT !.agenda = s, !.stage = "own", !.at = Nowhere, !.found = {}]
Begun(h) == [h EXCEPT !.stage = "own"]
Near(h, p) == [h EXCEPT !.stage = "near", !.at = p]
Found(h, S) == [h EXCEPT !.stage = "emit", !.found = S]

\* What a handler becomes when it begins, reads or goes on.
LEMMA AheadForm ==
  ASSUME NEW h \in Working, NEW s \in Left(h.kind), h.kind = "disconnect" \/ Head(s).does # "write"
  PROVE  LET g == Ahead(h, s) IN
         g \in Working /\ g.who = h.who /\ g.kind = h.kind /\ g.agenda = s /\ g.stage = "own"
<1> DEFINE g == Ahead(h, s)
<1>1. h \in Handler /\ s \in Seq(Job)
  BY DEF Working, Left
<1>2. g \in Handler /\ g.who = h.who /\ g.kind = h.kind /\ g.agenda = s /\ g.stage = "own"
  BY <1>1 DEF Handler, Ahead
<1> HIDE DEF g
<1>3. Formed(g)
  BY <1>2 DEF Formed
<1> QED BY <1>2, <1>3 DEF Working, g

LEMMA BegunForm ==
  ASSUME NEW h \in Working
  PROVE  LET g == Begun(h) IN
         g \in Working /\ g.who = h.who /\ g.kind = h.kind /\ g.agenda = h.agenda /\ g.stage = "own" /\ g.at = h.at
<1> DEFINE g == Begun(h)
<1>1. h \in Handler /\ Formed(h)
  BY DEF Working
<1>2. g \in Handler /\ g.who = h.who /\ g.kind = h.kind /\ g.agenda = h.agenda /\ g.stage = "own" /\ g.at = h.at
  BY <1>1 DEF Handler, Begun
<1> HIDE DEF g
<1>3. Formed(g)
  BY <1>1, <1>2 DEF Formed
<1> QED BY <1>2, <1>3 DEF Working, g

LEMMA NearForm ==
  ASSUME NEW h \in Working, NEW p \in Seen \cup {Nowhere}, Head(h.agenda).does \notin {"write", "record"}
  PROVE  LET g == Near(h, p) IN
         g \in Working /\ g.who = h.who /\ g.kind = h.kind /\ g.agenda = h.agenda /\ g.stage = "near" /\ g.at = p
<1> DEFINE g == Near(h, p)
<1>1. h \in Handler /\ Formed(h)
  BY DEF Working
<1>2. g \in Handler /\ g.who = h.who /\ g.kind = h.kind /\ g.agenda = h.agenda /\ g.stage = "near" /\ g.at = p
  BY <1>1 DEF Handler, Near
<1> HIDE DEF g
<1>3. Formed(g)
  BY <1>1, <1>2 DEF Formed
<1> QED BY <1>2, <1>3 DEF Working, g

LEMMA FoundForm ==
  ASSUME NEW h \in Working, NEW S \in SUBSET Users, h.stage = "near"
  PROVE  LET g == Found(h, S) IN
         /\ g \in Working /\ g.who = h.who /\ g.kind = h.kind /\ g.agenda = h.agenda
         /\ g.stage = "emit" /\ g.at = h.at /\ g.found = S
<1> DEFINE g == Found(h, S)
<1>1. h \in Handler /\ Formed(h)
  BY DEF Working
<1>2. /\ g \in Handler /\ g.who = h.who /\ g.kind = h.kind /\ g.agenda = h.agenda
      /\ g.stage = "emit" /\ g.at = h.at /\ g.found = S
  BY <1>1 DEF Handler, Found
<1> HIDE DEF g
<1>3. Formed(g)
  BY <1>1, <1>2 DEF Formed
<1> QED BY <1>2, <1>3 DEF Working, g

\* A handler in flight, and its agenda.
LEMMA HandlerParts ==
  ASSUME PresenceTyped, NEW i \in DOMAIN flight
  PROVE  /\ flight[i] \in Working /\ flight[i] \in Handler /\ Formed(flight[i])
         /\ flight[i].who \in Users /\ flight[i].agenda \in Left(flight[i].kind)
         /\ flight[i].found \subseteq Users /\ flight[i].at \in Seen \cup {Nowhere}
         /\ flight[i].stage \in Stages
         /\ Head(flight[i].agenda) \in Job /\ Head(flight[i].agenda).role \in Roles
         /\ Head(flight[i].agenda).does \in Routines
<1>1. flight[i] \in Working
  BY DEF PresenceTyped
<1>2. flight[i] \in Handler /\ Formed(flight[i])
  BY <1>1 DEF Working
<1>3. flight[i].agenda \in Left(flight[i].kind)
  BY <1>2 DEF Formed
<1>4. Head(flight[i].agenda) \in Job
  BY <1>3, Agendas
<1>5. /\ flight[i].who \in Users /\ flight[i].found \subseteq Users /\ flight[i].at \in Seen \cup {Nowhere}
      /\ flight[i].stage \in Stages
  BY <1>2 DEF Handler, Stages
<1> QED BY <1>1, <1>2, <1>3, <1>4, <1>5 DEF Job

\* How a sequence of handlers may go on: one of them removed, or replaced.
Removes(i) == flight' = RemoveAt(flight, i)
Replaces(i, g) == flight' = [flight EXCEPT ![i] = g]

\* A handler goes on with its next job, or ends.
LEMMA NextJobMeans ==
  ASSUME PresenceTyped, NEW i \in DOMAIN flight, NEW s, NextJob(i, s),
         s = << >> \/ (s \in Left(flight[i].kind) /\ (flight[i].kind = "disconnect" \/ Head(s).does # "write"))
  PROVE  \/ s = << >> /\ Removes(i)
         \/ s # << >> /\ Replaces(i, Ahead(flight[i], s)) /\ Ahead(flight[i], s) \in Working
<1>1. CASE s = << >>
  BY <1>1 DEF NextJob, Removes
<1>2. CASE s # << >>
  <2>1. flight[i] \in Working /\ flight \in Seq(Working)
    BY HandlerParts DEF PresenceTyped
  <2>2. Ahead(flight[i], s) \in Working
    BY <1>2, <2>1, AheadForm
  <2>3. flight' = [flight EXCEPT ![i].agenda = s, ![i].stage = "own", ![i].at = Nowhere, ![i].found = {}]
    BY <1>2 DEF NextJob
  <2>4. flight' = [flight EXCEPT ![i] = Ahead(flight[i], s)]
    BY <2>1, <2>3 DEF Ahead
  <2> QED BY <1>2, <2>2, <2>4 DEF Replaces
<1> QED BY <1>1, <1>2

\* The rest of an agenda will do.
LEMMA TailWillDo ==
  ASSUME PresenceTyped, NEW i \in DOMAIN flight
  PROVE  LET s == Tail(flight[i].agenda) IN
         s = << >> \/ (s \in Left(flight[i].kind) /\ (flight[i].kind = "disconnect" \/ Head(s).does # "write"))
<1> DEFINE h == flight[i]
           s == Tail(h.agenda)
<1>1. h.agenda \in Left(h.kind)
  BY HandlerParts
<1> HIDE DEF h
<1>2. s # << >> => s \in Left(h.kind)
  BY <1>1, Agendas
<1>3. ASSUME s # << >>, h.kind # "disconnect" PROVE Head(s).does # "write"
  <2>1. s \in Left(h.kind) /\ \A q : ~ Has(s, Do("write", q))
    BY <1>1, <1>2, <1>3, Agendas
  <2>2. Head(s) \in Job /\ Has(s, Head(s))
    BY <2>1, Agendas
  <2>3. Head(s).does = "write" => Head(s) = Do("write", Head(s).role)
    BY <2>2 DEF Job, Do
  <2> QED BY <2>1, <2>2, <2>3
<1> QED BY <1>2, <1>3 DEF h

LEMMA FlightTypes ==
  ASSUME PresenceTyped, NEW i \in DOMAIN flight,
         Removes(i) \/ \E g \in Working : Replaces(i, g)
  PROVE  flight' \in Seq(Working)
BY OneRemoved, OneReplaced DEF PresenceTyped, Removes, Replaces

\* The increasing enumeration of a set of indices lists them all, once each.
LEMMA AllInOrder ==
  ASSUME NEW I \in SUBSET Nat, IsFiniteSet(I), NEW o \in InOrder(I)
  PROVE  /\ o \in Seq(I)
         /\ \A k, m \in DOMAIN o : o[k] = o[m] => k = m
         /\ \A i \in I : \E k \in DOMAIN o : o[k] = i
<1> DEFINE n == Cardinality(I)
<1>1. n \in Nat
  BY FS_CardinalityType
<1>2. o \in [1..n -> I] /\ \A j, k \in 1..n : j < k => o[j] < o[k]
  BY DEF InOrder
<1> HIDE DEF n
<1>3. \A k, m \in 1..n : o[k] = o[m] => k = m
  <2>1. \A k \in 1..n : o[k] \in Nat
    BY <1>2
  <2> QED BY <1>1, <1>2, <2>1
<1> DEFINE R == { o[k] : k \in 1..n }
<1>4. R \subseteq I
  BY <1>2
<1>5. ExistsBijection(1..n, R)
  <2>1. o \in Bijection(1..n, R)
    BY <1>2, <1>3 DEF Bijection, Injection, Surjection, IsInjective
  <2> QED BY <2>1 DEF ExistsBijection
<1>6. Cardinality(R) = n
  BY <1>1, <1>4, <1>5, FS_Subset, FS_CountingElements
<1>7. R = I
  BY <1>4, <1>6, FS_Subset DEF n
<1>8. \A i \in I : \E k \in 1..n : o[k] = i
  BY <1>7
<1>9. o \in Seq(I) /\ DOMAIN o = 1..n
  BY <1>1, <1>2
<1> QED BY <1>3, <1>8, <1>9

\* What a broken connection leaves in flight.
LEMMA BreakKeeps ==
  ASSUME PresenceTyped, NEW u \in Users, NEW n \in 0 .. Len(flight), NEW o \in InOrder(DOMAIN flight \ Lost(u, n)),
         flight' = [k \in DOMAIN o |-> flight[o[k]]]
  PROVE  /\ flight' \in Seq(Working) /\ DOMAIN flight' = DOMAIN o
         /\ o \in [DOMAIN flight' -> DOMAIN flight]
         /\ \A j, k \in DOMAIN flight' : j < k => o[j] < o[k]
         /\ \A k \in DOMAIN flight' : flight'[k] = flight[o[k]]
         /\ \A i \in DOMAIN flight : i \notin Lost(u, n) => \E k \in DOMAIN flight' : o[k] = i
<1> DEFINE I == DOMAIN flight \ Lost(u, n)
           N == Cardinality(I)
<1>1. flight \in Seq(Working) /\ DOMAIN flight = 1 .. Len(flight) /\ Len(flight) \in Nat
  BY DEF PresenceTyped
<1>2. IsFiniteSet(DOMAIN flight)
  BY <1>1, FS_Interval
<1>3. IsFiniteSet(I) /\ I \in SUBSET Nat
  BY <1>1, <1>2, FS_Subset
<1>4. N \in Nat
  BY <1>3, FS_CardinalityType
<1> HIDE DEF I
<1>5. o \in [1..N -> I] /\ \A j, k \in DOMAIN o : j < k => o[j] < o[k]
  BY DEF InOrder, I
<1> HIDE DEF N
<1>6. \A i \in I : \E k \in DOMAIN o : o[k] = i
  BY <1>3, AllInOrder DEF I
<1>7. DOMAIN o = 1..N /\ \A k \in 1..N : o[k] \in DOMAIN flight
  BY <1>5 DEF I
<1>8. \A k \in 1..N : flight[o[k]] \in Working
  BY <1>1, <1>7
<1>9. flight' \in Seq(Working) /\ DOMAIN flight' = DOMAIN o /\ \A k \in DOMAIN o : flight'[k] = flight[o[k]]
  BY <1>4, <1>7, <1>8
<1>10. o \in [DOMAIN flight' -> DOMAIN flight]
  BY <1>5, <1>7, <1>9 DEF I
<1>11. \A i \in DOMAIN flight : i \notin Lost(u, n) => i \in I
  BY DEF I
<1> QED BY <1>5, <1>6, <1>9, <1>10, <1>11

-----------------------------------------------------------------------------
(* The steps of a handler.                                                 *)
Goes(i, s) ==
  \/ s = << >> /\ Removes(i)
  \/ s # << >> /\ Replaces(i, Ahead(flight[i], s)) /\ Ahead(flight[i], s) \in Working
\* The rest of the agenda is a legal one.
LEMMA GoesOn ==
  ASSUME PresenceTyped, NEW i \in DOMAIN flight, NextJob(i, Tail(flight[i].agenda))
  PROVE  Goes(i, Tail(flight[i].agenda))
BY NextJobMeans, TailWillDo DEF Goes

LEMMA GoesTypes ==
  ASSUME PresenceTyped, NEW i \in DOMAIN flight, NEW s, Goes(i, s)
  PROVE  flight' \in Seq(Working)
BY FlightTypes DEF Goes

LEMMA SeenParts ==
  ASSUME NEW p \in Seen, NEW s \in Spots
  PROVE  [p EXCEPT !.spot = s] \in Seen
BY DEF Seen

LEMMA RowMade ==
  ASSUME NEW b \in BOOLEAN, NEW p \in Seen \cup {Nowhere}, b => p # Nowhere
  PROVE  [on |-> b, at |-> p] \in Row /\ [on |-> b, at |-> p].on = b /\ [on |-> b, at |-> p].at = p
BY DEF Row

\* What a message makes of a row: a join puts it on, a leave off, a position leaves that alone.
LEMMA RowWritten ==
  ASSUME NEW was \in Row, NEW h \in Working, Head(h.agenda).does = "write",
         NEW w, w = Written(was, h.kind, Head(h.agenda).role, h.at)
  PROVE  /\ w \in Row
         /\ h.kind = "join" => w.on = TRUE
         /\ h.kind = "position" => w.on = was.on
         /\ h.kind \in {"leave", "disconnect"} => /\ w.on = FALSE
                                                  /\ w.at = was.at
<1>1. h \in Handler /\ Formed(h)
  BY DEF Working
<1>2. h.kind \in {"join", "position"} => h.at \in Positions
  BY <1>1 DEF Formed
<1>3. h.kind \in {"join", "leave", "position", "disconnect"}
  BY <1>1 DEF Handler, Kinds
<1>4. Positions \subseteq Seen /\ Nowhere \notin Seen
  BY PresenceAssumption
<1>5. was.on \in BOOLEAN /\ was.at \in Seen \cup {Nowhere} /\ (was.on => was.at # Nowhere) /\ was = [on |-> was.on, at |-> was.at]
  BY DEF Row
<1>6. CASE h.kind = "join"
  <2>1. w = [on |-> TRUE, at |-> h.at]
    BY <1>6 DEF Written
  <2>2. h.at \in Seen
    BY <1>2, <1>4, <1>6
  <2>4. h.at \in Seen \cup {Nowhere} /\ h.at # Nowhere
    BY <1>4, <2>2
  <2>3. w \in Row /\ w.on = TRUE
    BY <2>1, <2>4, RowMade
  <2> QED BY <1>6, <2>3
<1>7. CASE h.kind # "join" /\ was.at = Nowhere
  <2>1. w = was
    BY <1>7 DEF Written
  <2>2. was.on = FALSE
    BY <1>5, <1>7
  <2> QED BY <1>7, <2>1, <2>2
<1>8. CASE h.kind = "position" /\ was.at # Nowhere
  <2> DEFINE p == IF Head(h.agenda).role = "driver" THEN h.at ELSE [was.at EXCEPT !.spot = h.at.spot]
  <2>1. w = [was EXCEPT !.at = p]
    BY <1>8 DEF Written
  <2>2. p \in Seen
    <3>1. h.at \in Seen /\ was.at \in Seen /\ h.at.spot \in Spots
      BY <1>2, <1>4, <1>5, <1>8 DEF Seen
    <3> QED BY <3>1, SeenParts
  <2> HIDE DEF p
  <2>3. w = [on |-> was.on, at |-> p]
    BY <1>5, <2>1
  <2> QED BY <1>4, <1>5, <1>8, <2>2, <2>3 DEF Row
<1>9. CASE h.kind \in {"leave", "disconnect"} /\ was.at # Nowhere
  <2>1. w = [was EXCEPT !.on = FALSE]
    BY <1>9 DEF Written
  <2>2. w = [on |-> FALSE, at |-> was.at]
    BY <1>5, <2>1
  <2>3. w \in Row /\ w.on = FALSE /\ w.at = was.at
    BY <1>5, <2>2, RowMade
  <2> QED BY <1>9, <2>3
<1> QED BY <1>3, <1>6, <1>7, <1>8, <1>9

LEMMA RowType ==
  ASSUME PresenceTyped, NEW r \in Roles, NEW u \in Users
  PROVE  /\ row[r][u] \in Row /\ row[r][u].on \in BOOLEAN /\ row[r][u].at \in Seen \cup {Nowhere}
         /\ row[r][u].on => row[r][u].at # Nowhere
<1>1. row[r][u] \in Row
  BY DEF PresenceTyped
<1> QED BY <1>1 DEF Row

\* One row changed, the others as they were.
LEMMA RowChanged ==
  ASSUME PresenceTyped, NEW r \in Roles, NEW u \in Users, NEW w \in Row, row' = [row EXCEPT ![r][u] = w]
  PROVE  /\ row' \in [Roles -> [Users -> Row]] /\ row'[r][u] = w
         /\ \A q \in Roles, v \in Users : q # r \/ v # u => row'[q][v] = row[q][v]
<1>1. row \in [Roles -> [Users -> Row]]
  BY DEF PresenceTyped
<1>2. row' = [row EXCEPT ![r] = [row[r] EXCEPT ![u] = w]]
  BY <1>1
<1>3. [row[r] EXCEPT ![u] = w] \in [Users -> Row]
  BY <1>1
<1> QED BY <1>1, <1>2, <1>3

\* Each step of the system keeps the types; what it does, when its effect is used again.
LEMMA SaysTypes ==
  ASSUME PresenceTyped, NEW u \in Users, NEW ms \in Seq(Spoken), NEW tab \in Tab, Says(u, ms, tab)
  PROVE  PresenceTyped'
<1>1. Emit(u, ms) /\ client' = [client EXCEPT ![u] = tab] /\ UNCHANGED <<link, zombie, server, blurred>>
      /\ shaken' \in SUBSET Users /\ events' \in [Users -> 0 .. MaxEvents]
  BY DEF Says
<1>2. flight' \in Seq(Working) /\ buffer' \in [Users -> Seq(Spoken)]
  BY <1>1, WithTypes
<1>3. client' \in [Users -> Tab]
  BY <1>1 DEF PresenceTyped
<1> QED BY <1>1, <1>2, <1>3 DEF PresenceTyped, server

\* Another page, or no position any more: nobody is told.
LEMMA NavigateMeans ==
  ASSUME PresenceTyped, NEW u \in Users, Navigate(u) \/ ForgetPosition(u)
  PROVE  \E tab \in Tab : /\ client' = [client EXCEPT ![u] = tab]
                          /\ tab.is_driver = client[u].is_driver /\ tab.on = client[u].on /\ tab.store = client[u].store
                          /\ events' \in [Users -> 0 .. MaxEvents]
                          /\ UNCHANGED <<socket, server, flight, shaken, blurred>>
<1>1. client[u] \in Tab
  BY RoleOfUser
<1>2. CASE Navigate(u)
  <2> DEFINE tab == [client[u] EXCEPT !.on_map = ~ @]
  <2>1. /\ tab \in Tab /\ tab.is_driver = client[u].is_driver /\ tab.on = client[u].on /\ tab.store = client[u].store
    BY <1>1 DEF Tab
  <2>2. client' = [client EXCEPT ![u] = tab] /\ Event(u) /\ UNCHANGED <<socket, server, flight, shaken, blurred>>
    BY <1>2 DEF Navigate
  <2>3. events' \in [Users -> 0 .. MaxEvents]
    BY <2>2, EventTypes
  <2> HIDE DEF tab
  <2> QED BY <2>1, <2>2, <2>3
<1>3. CASE ForgetPosition(u)
  <2> DEFINE tab == Placed(client[u], Nowhere)
  <2>1. tab \in Tab /\ tab.is_driver = client[u].is_driver /\ tab.on = client[u].on /\ tab.store = client[u].store
    BY <1>1, FixChanged
  <2>2. client' = [client EXCEPT ![u] = tab] /\ Event(u) /\ UNCHANGED <<socket, server, flight, shaken, blurred>>
    BY <1>3 DEF ForgetPosition, Placed
  <2>3. events' \in [Users -> 0 .. MaxEvents]
    BY <2>2, EventTypes
  <2> HIDE DEF tab
  <2> QED BY <2>1, <2>2, <2>3
<1> QED BY <1>2, <1>3

LEMMA NavigateTypes ==
  ASSUME PresenceTyped, NEW u \in Users, Navigate(u) \/ ForgetPosition(u)
  PROVE  PresenceTyped'
BY NavigateMeans DEF PresenceTyped, socket, server

LEMMA BreakTypes ==
  ASSUME PresenceTyped, NEW u \in Users, Break(u)
  PROVE  PresenceTyped'
<1>0. PICK n \in 0 .. Len(flight) : \E o \in InOrder(DOMAIN flight \ Lost(u, n)) : flight' = [k \in DOMAIN o |-> flight[o[k]]]
  BY DEF Break
<1>1. PICK o \in InOrder(DOMAIN flight \ Lost(u, n)) : flight' = [k \in DOMAIN o |-> flight[o[k]]]
  BY <1>0
<1>2. flight' \in Seq(Working)
  BY <1>1, BreakKeeps
<1>3. events' \in [Users -> 0 .. MaxEvents]
  BY EventTypes DEF Break
<1> QED BY <1>2, <1>3 DEF PresenceTyped, Break, server

LEMMA NoticeTypes ==
  ASSUME PresenceTyped, NEW u \in Users, Notice(u)
  PROVE  PresenceTyped'
<1>1. ClearStores(client[u]) \in Tab
  BY RoleOfUser, StoresCleared
<1>2. client' \in [Users -> Tab]
  BY <1>1 DEF PresenceTyped, Notice
<1> QED BY <1>2 DEF PresenceTyped, Notice, server, history

\* What the 'connect' listener tells again is a join of the toggle's role.
LEMMA ResyncSays ==
  ASSUME PresenceTyped, NEW u \in Users
  PROVE  /\ Resync(u) \in Seq(Spoken) /\ buffer[u] \in Seq(Spoken) /\ buffer[u] \o Resync(u) \in Seq(Spoken)
         /\ \A i \in DOMAIN Resync(u) : Resync(u)[i].kind = "join" /\ Resync(u)[i].role = RoleOf(u) /\ client[u].on[RoleOf(u)]
         /\ client[u].on[RoleOf(u)] /\ client[u].fix # Nowhere => \E i \in DOMAIN Resync(u) : TRUE
<1> DEFINE r == RoleOf(u)
           m == Msg("join", r, client[u].fix)
<1>1. r \in Roles /\ client[u].fix \in Positions \cup {Nowhere}
  BY RoleOfUser, TabParts
<1>2. m \in Message /\ m.kind = "join" /\ m.role = r /\ (client[u].fix # Nowhere => m \in Spoken)
  BY <1>1, Messages DEF Kinds
<1>3. buffer[u] \in Seq(Spoken)
  BY DEF PresenceTyped
<1>4. CASE client[u].fix # Nowhere /\ client[u].on[r]
  <2>1. Resync(u) = << m >>
    BY <1>4 DEF Resync
  <2>2. m \in Spoken
    BY <1>2, <1>4
  <2> HIDE DEF m
  <2>3. Resync(u) \in Seq(Spoken) /\ DOMAIN Resync(u) = {1} /\ Resync(u)[1] = m
    BY <2>1, <2>2, OneMessage
  <2>4. buffer[u] \o Resync(u) \in Seq(Spoken)
    BY <1>3, <2>3
  <2> QED BY <1>2, <1>3, <1>4, <2>3, <2>4
<1>5. CASE ~ (client[u].fix # Nowhere /\ client[u].on[r])
  <2>1. Resync(u) = << >>
    BY <1>5 DEF Resync
  <2>2. << >> \in Seq(Spoken) /\ DOMAIN << >> = {} /\ buffer[u] \o << >> \in Seq(Spoken)
    BY <1>3
  <2> QED BY <1>3, <1>5, <2>1, <2>2
<1> QED BY <1>4, <1>5

LEMMA ReconnectTypes ==
  ASSUME PresenceTyped, NEW u \in Users, Reconnect(u)
  PROVE  PresenceTyped'
<1>1. Sent(u, buffer[u] \o Resync(u)) \in Seq(Working)
  BY ResyncSays, SentForm
<1>2. flight' \in Seq(Working)
  <2>1. flight' = flight \o Sent(u, buffer[u] \o Resync(u)) /\ flight \in Seq(Working)
    BY DEF Reconnect, PresenceTyped
  <2> QED BY <1>1, <2>1
<1>3. shaken' \subseteq Users
  BY DEF PresenceTyped, Reconnect, Shake
<1>4. buffer' \in [Users -> Seq(Spoken)]
  BY DEF PresenceTyped, Reconnect
<1>5. link' \in [Users -> {"up", "dead", "down", "out"}]
  BY DEF PresenceTyped, Reconnect
<1> QED BY <1>2, <1>3, <1>4, <1>5 DEF PresenceTyped, Reconnect, server

\* The tab of a user who logged out.
LoggedOut(t) == [ClearStores(t) EXCEPT !.on = [r \in Roles |-> FALSE]]
LEMMA LoggedOutTab ==
  ASSUME NEW t \in Tab
  PROVE  LET tab == LoggedOut(t) IN
         /\ tab \in Tab /\ \A r \in Roles : tab.store[r] = {} /\ tab.on[r] = FALSE
         /\ tab.is_driver = t.is_driver /\ tab.on_map = t.on_map /\ tab.fix = t.fix
<1> DEFINE c == ClearStores(t)
           tab == LoggedOut(t)
           off == [r \in Roles |-> FALSE]
<1>1. c \in Tab /\ (\A r \in Roles : c.store[r] = {}) /\ c.is_driver = t.is_driver /\ c.on_map = t.on_map /\ c.fix = t.fix
  BY StoresCleared
<1>2. tab = [c EXCEPT !.on = off] /\ off \in [Roles -> BOOLEAN] /\ \A r \in Roles : off[r] = FALSE
  BY DEF LoggedOut
<1> HIDE DEF c, tab, off
<1>3. tab \in Tab
  BY <1>1, <1>2, TabChanged
<1>4. tab.on = off /\ tab.store = c.store /\ tab.is_driver = c.is_driver /\ tab.on_map = c.on_map /\ tab.fix = c.fix
  BY <1>1, <1>2 DEF Tab
<1> QED BY <1>1, <1>2, <1>3, <1>4 DEF tab

LEMMA LogoutTypes ==
  ASSUME PresenceTyped, NEW u \in Users, Logout(u)
  PROVE  PresenceTyped' /\ client' = [client EXCEPT ![u] = LoggedOut(client[u])]
<1>1. LoggedOut(client[u]) \in Tab
  BY RoleOfUser, LoggedOutTab
<1>2. client' = [client EXCEPT ![u] = LoggedOut(client[u])]
  BY DEF Logout, LoggedOut
<1>3. client' \in [Users -> Tab]
  BY <1>1, <1>2 DEF PresenceTyped
<1>4. events' \in [Users -> 0 .. MaxEvents]
  BY EventTypes DEF Logout
<1>5. shaken' \subseteq Users /\ zombie' \subseteq Users
  BY DEF PresenceTyped, Logout, Shake
<1>6. link' \in [Users -> {"up", "dead", "down", "out"}]
  BY DEF PresenceTyped, Logout
<1> QED BY <1>2, <1>3, <1>4, <1>5, <1>6 DEF PresenceTyped, Logout, server

LEMMA LoginTypes ==
  ASSUME PresenceTyped, NEW u \in Users, Login(u)
  PROVE  PresenceTyped'
<1>1. events' \in [Users -> 0 .. MaxEvents]
  BY EventTypes DEF Login
<1> QED BY <1>1 DEF PresenceTyped, Login, server

LEMMA DisconnectTypes ==
  ASSUME PresenceTyped, NEW u \in Users, Disconnect(u)
  PROVE  PresenceTyped'
<1> DEFINE h == Handling(u, "disconnect", Nowhere, "own", Cleanup)
<1>1. h \in Working
  BY CleanupForm
<1>2. flight' = Append(flight, h) /\ flight \in Seq(Working)
  BY DEF Disconnect, PresenceTyped
<1> HIDE DEF h
<1>3. flight' \in Seq(Working)
  BY <1>1, <1>2
<1>4. shaken' \subseteq Users /\ blurred' \subseteq Stores
  BY DEF PresenceTyped, Disconnect, Shake, Blur
<1> QED BY <1>3, <1>4 DEF PresenceTyped, Disconnect, server

\* Where the trip of u has started, on the map page.
Riding(t) == [Toggled(t, "passenger", FALSE) EXCEPT !.on_map = FALSE]
LEMMA RidingTab ==
  ASSUME NEW t \in Tab
  PROVE  LET tab == Riding(t) IN
         /\ tab \in Tab /\ tab.store = t.store /\ tab.is_driver = t.is_driver
         /\ tab.on["passenger"] = FALSE /\ tab.on["driver"] = t.on["driver"]
<1> DEFINE c == Toggled(t, "passenger", FALSE)
           tab == Riding(t)
<1>1. c \in Tab /\ c.store = t.store /\ c.is_driver = t.is_driver /\ c.on["passenger"] = FALSE /\ c.on["driver"] = t.on["driver"]
  BY OnChanged DEF Roles
<1>2. tab = [c EXCEPT !.on_map = FALSE]
  BY DEF Riding
<1> HIDE DEF c, tab
<1>3. tab \in Tab
  BY <1>1, <1>2, TabChanged
<1>4. tab.on = c.on /\ tab.store = c.store /\ tab.is_driver = c.is_driver
  BY <1>1, <1>2 DEF Tab
<1> QED BY <1>1, <1>3, <1>4 DEF tab

LEMMA RowOff ==
  ASSUME NEW old \in Row, NEW w, w = [old EXCEPT !.on = FALSE]
  PROVE  w \in Row /\ w.on = FALSE /\ w.at = old.at
<1>1. old.at \in Seen \cup {Nowhere} /\ old = [on |-> old.on, at |-> old.at]
  BY DEF Row
<1>2. w = [on |-> FALSE, at |-> old.at]
  BY <1>1
<1> QED BY <1>1, <1>2, RowMade

LEMMA PickupMeans ==
  ASSUME PresenceTyped, NEW u \in Users, Pickup(u)
  PROVE  /\ \/ link[u] = "up" /\ client[u].on_map /\ client' = [client EXCEPT ![u] = Riding(client[u])]
            \/ u \in shaken' /\ client' = client
         /\ OnItsWay(u) => u \in shaken'
         /\ \E w \in Row : w.on = FALSE /\ w.at = row["passenger"][u].at /\ row' = [row EXCEPT !["passenger"][u] = w]
<1> DEFINE here == link[u] = "up" /\ client[u].on_map
<1> DEFINE Goal == \/ link[u] = "up" /\ client[u].on_map /\ client' = [client EXCEPT ![u] = Riding(client[u])]
                   \/ u \in shaken' /\ client' = client
<1>1. ASSUME here PROVE Goal
  <2>1. client' = [client EXCEPT ![u].on["passenger"] = FALSE, ![u].on_map = FALSE]
    BY <1>1 DEF Pickup
  <2>2. client \in [Users -> Tab]
    BY DEF PresenceTyped
  <2>3. client' = [client EXCEPT ![u] = [[client[u] EXCEPT !.on["passenger"] = FALSE] EXCEPT !.on_map = FALSE]]
    BY <2>1, <2>2
  <2>4. client' = [client EXCEPT ![u] = Riding(client[u])]
    BY <2>3 DEF Riding, Toggled
  <2> QED BY <1>1, <2>4
<1>2. ASSUME ~ here PROVE Goal
  <2>1. client' = client
    BY <1>2 DEF Pickup
  <2>2. shaken' = shaken \cup (IF here /\ ~ OnItsWay(u) THEN {} ELSE {u})
    BY DEF Pickup, Shake
  <2> HIDE DEF here
  <2> QED BY <1>2, <2>1, <2>2
<1>3. OnItsWay(u) => u \in shaken'
  <2> HIDE DEF here
  <2>1. shaken' = shaken \cup (IF here /\ ~ OnItsWay(u) THEN {} ELSE {u})
    BY DEF Pickup, Shake, here
  <2> QED BY <2>1
<1>4. \E w \in Row : w.on = FALSE /\ w.at = row["passenger"][u].at /\ row' = [row EXCEPT !["passenger"][u] = w]
  <2> DEFINE old == row["passenger"][u]
             w == [old EXCEPT !.on = FALSE]
  <2>1. old \in Row
    BY RowType, TwoRoles
  <2>2. w \in Row /\ w.on = FALSE /\ w.at = old.at
    <3> HIDE DEF old
    <3> QED BY <2>1, RowOff
  <2>3. row' = [row EXCEPT !["passenger"][u].on = FALSE]
    BY DEF Pickup
  <2>4. row \in [Roles -> [Users -> Row]] /\ "passenger" \in Roles
    BY TwoRoles DEF PresenceTyped
  <2>5. row' = [row EXCEPT !["passenger"][u] = w]
    BY <2>3, <2>4
  <2> HIDE DEF w
  <2> QED BY <2>2, <2>5
<1> QED BY <1>1, <1>2, <1>3, <1>4

LEMMA PickupTypes ==
  ASSUME PresenceTyped, NEW u \in Users, Pickup(u)
  PROVE  PresenceTyped'
<1>1. client' \in [Users -> Tab]
  <2>1. Riding(client[u]) \in Tab
    BY RoleOfUser, RidingTab
  <2>2. client \in [Users -> Tab]
    BY DEF PresenceTyped
  <2> QED BY <2>1, <2>2, PickupMeans
<1>2. row' \in [Roles -> [Users -> Row]]
  BY PickupMeans, RowChanged, TwoRoles
<1>3. events' \in [Users -> 0 .. MaxEvents]
  BY EventTypes DEF Pickup
<1>4. shaken' \subseteq Users /\ blurred' \subseteq Stores /\ riding' \subseteq Users
  <2>1. Viewers(u, "passenger") \subseteq Stores
    BY TwoRoles DEF Viewers, Stores
  <2> QED BY <2>1 DEF PresenceTyped, Pickup, Shake, Blur
<1> QED BY <1>1, <1>2, <1>3, <1>4 DEF PresenceTyped, Pickup, socket

LEMMA ReceiveMeans ==
  ASSUME PresenceTyped, NEW i \in DOMAIN flight, Receive(i)
  PROVE  Replaces(i, Begun(flight[i])) /\ Begun(flight[i]) \in Working /\ flight[i].stage = "sent"
<1>1. flight[i] \in Working /\ flight \in Seq(Working)
  BY HandlerParts DEF PresenceTyped
<1>2. flight' = [flight EXCEPT ![i].stage = "own"] /\ flight[i].stage = "sent"
  BY DEF Receive
<1>3. flight' = [flight EXCEPT ![i] = Begun(flight[i])]
  BY <1>1, <1>2 DEF Begun
<1> QED BY <1>1, <1>2, <1>3, BegunForm DEF Replaces

LEMMA ReceiveTypes ==
  ASSUME PresenceTyped, NEW i \in DOMAIN flight, Receive(i)
  PROVE  PresenceTyped'
<1>1. flight' \in Seq(Working)
  BY ReceiveMeans, FlightTypes
<1>2. shaken' \subseteq Users /\ blurred' \subseteq Stores
  BY HandlerParts DEF PresenceTyped, Receive, Shake, Blur
<1> QED BY <1>1, <1>2 DEF PresenceTyped, Receive, socket, server

LEMMA WriteMeans ==
  ASSUME PresenceTyped, NEW i \in DOMAIN flight, Write(i)
  PROVE  LET h == flight[i]
             r == Head(h.agenda).role
         IN /\ Goes(i, Tail(h.agenda)) /\ r \in Roles /\ Head(h.agenda) = Do("write", r) /\ h.stage = "own"
            /\ \E w \in Row :
                 /\ row' = [row EXCEPT ![r][h.who] = w]
                 /\ h.kind = "join" => w.on = TRUE
                 /\ h.kind = "position" => w.on = row[r][h.who].on
                 /\ h.kind \in {"leave", "disconnect"} => w.on = FALSE /\ w.at = row[r][h.who].at
                 /\ Blur(IF w.at # row[r][h.who].at /\ row[r][h.who].at # Nowhere
                           THEN Viewers(h.who, r) \cup {<<h.who, Other(r)>>} ELSE {})
<1> DEFINE h == flight[i]
           r == Head(h.agenda).role
           w == Written(row[r][h.who], h.kind, r, h.at)
<1>1. /\ h \in Working /\ h.who \in Users /\ r \in Roles /\ Head(h.agenda) \in Job
  BY HandlerParts
<1>2. /\ Head(h.agenda).does = "write" /\ h.stage = "own" /\ NextJob(i, Tail(h.agenda))
      /\ row' = [row EXCEPT ![r][h.who] = w]
      /\ Blur(IF w.at # row[r][h.who].at /\ row[r][h.who].at # Nowhere
                THEN Viewers(h.who, r) \cup {<<h.who, Other(r)>>} ELSE {})
  BY DEF Write
<1>3. Goes(i, Tail(h.agenda))
  BY <1>2, GoesOn
<1>4. Head(h.agenda) = Do("write", r)
  BY <1>1, <1>2 DEF Job, Do
<1>5. row[r][h.who] \in Row
  BY <1>1, RowType
<1>6. /\ w \in Row
      /\ h.kind = "join" => w.on = TRUE
      /\ h.kind = "position" => w.on = row[r][h.who].on
      /\ h.kind \in {"leave", "disconnect"} => w.on = FALSE /\ w.at = row[r][h.who].at
  <2>1. \A was \in Row : \A x : x = Written(was, h.kind, r, h.at) =>
          /\ x \in Row
          /\ h.kind = "join" => x.on = TRUE
          /\ h.kind = "position" => x.on = was.on
          /\ h.kind \in {"leave", "disconnect"} => x.on = FALSE /\ x.at = was.at
    <3> HIDE DEF h
    <3> QED BY <1>1, <1>2, RowWritten
  <2>2. w = Written(row[r][h.who], h.kind, r, h.at)
    OBVIOUS
  <2> HIDE DEF w, h, r
  <2> QED BY <1>5, <2>1, <2>2
<1> HIDE DEF w
<1> QED BY <1>1, <1>2, <1>3, <1>4, <1>6

LEMMA WriteTypes ==
  ASSUME PresenceTyped, NEW i \in DOMAIN flight, Write(i)
  PROVE  PresenceTyped'
<1> DEFINE h == flight[i]
           r == Head(h.agenda).role
<1>1. PICK w \in Row : /\ row' = [row EXCEPT ![r][h.who] = w]
                       /\ Blur(IF w.at # row[r][h.who].at /\ row[r][h.who].at # Nowhere
                                 THEN Viewers(h.who, r) \cup {<<h.who, Other(r)>>} ELSE {})
  BY WriteMeans
<1>2. h.who \in Users /\ r \in Roles /\ Other(r) \in Roles
  BY HandlerParts, TwoRoles
<1>3. flight' \in Seq(Working)
  BY WriteMeans, GoesTypes
<1>4. row' \in [Roles -> [Users -> Row]]
  BY <1>1, <1>2, RowChanged
<1>5. blurred' \subseteq Stores
  <2>1. Viewers(h.who, r) \cup {<<h.who, Other(r)>>} \subseteq Stores
    BY <1>2 DEF Viewers, Stores
  <2> QED BY <1>1, <2>1 DEF Blur, PresenceTyped
<1> QED BY <1>3, <1>4, <1>5 DEF PresenceTyped, Write, socket

LEMMA RecordMeans ==
  ASSUME PresenceTyped, NEW i \in DOMAIN flight, Record(i)
  PROVE  \E s : Goes(i, s) /\ (s # << >> => \A j : Has(s, j) <=> j = Do("broadcast", "passenger"))
<1> DEFINE h == flight[i]
           b == << Do("broadcast", "passenger") >>
           s == IF h.who \in riding THEN << >> ELSE b
<1>1. h.agenda \in Left(h.kind) /\ Head(h.agenda).does = "record" /\ NextJob(i, s)
  BY HandlerParts DEF Record
<1>2. h.kind = "position"
  <2> HIDE DEF h
  <2> QED BY <1>1, Agendas
<1>3. Do("broadcast", "passenger") \in Job
  BY Jobs, TwoRoles DEF Routines
<1>4. b \in Seq(Job) /\ b # << >> /\ Head(b) = Do("broadcast", "passenger") /\ \A j : Has(b, j) <=> j \in {Do("broadcast", "passenger")}
  BY <1>3, List1
<1>5. b \in Left("position") /\ Head(b).does # "write"
  BY <1>4, JobParts DEF Left, MoveLeft
<1> HIDE DEF b
<1>6. s = << >> \/ s = b
  OBVIOUS
<1> HIDE DEF s
<1>7. Goes(i, s)
  BY <1>1, <1>2, <1>5, <1>6, NextJobMeans DEF Goes
<1>8. s # << >> => \A j : Has(s, j) <=> j = Do("broadcast", "passenger")
  BY <1>4, <1>6
<1> QED BY <1>7, <1>8

LEMMA RecordTypes ==
  ASSUME PresenceTyped, NEW i \in DOMAIN flight, Record(i)
  PROVE  PresenceTyped'
<1>1. flight' \in Seq(Working)
  BY RecordMeans, GoesTypes
<1> QED BY <1>1 DEF PresenceTyped, Record, socket, server, history

LEMMA ReadOwnMeans ==
  ASSUME PresenceTyped, NEW i \in DOMAIN flight, ReadOwn(i)
  PROVE  LET h == flight[i]
             job == Head(h.agenda)
             mine == row[job.role][h.who]
         IN /\ h.stage = "own" /\ job.does \in {"broadcast", "snapshot", "removed"}
            /\ \/ /\ Goes(i, Tail(h.agenda))
                  /\ \/ h.kind = "position" \/ mine.at = Nowhere \/ (~ mine.on /\ job.does # "removed")
               \/ /\ Replaces(i, Near(h, mine.at)) /\ Near(h, mine.at) \in Working /\ mine.at # Nowhere
                  /\ job.does = "broadcast" => mine.on
<1> DEFINE h == flight[i]
           job == Head(h.agenda)
           mine == row[job.role][h.who]
           throttled == h.kind = "position" /\ recent[h.who] > 0
           absent == \/ mine.at = Nowhere
                     \/ ~ mine.on /\ (job.does = "broadcast" \/ job = Do("snapshot", "driver"))
<1>1. /\ h \in Working /\ h.who \in Users /\ job.role \in Roles /\ job \in Job
  BY HandlerParts
<1>2. /\ h.stage = "own" /\ job.does \in {"broadcast", "snapshot", "removed"}
      /\ IF throttled \/ absent THEN NextJob(i, Tail(h.agenda))
         ELSE flight' = [flight EXCEPT ![i].stage = "near", ![i].at = mine.at]
  BY DEF ReadOwn
<1>3. CASE throttled \/ absent
  <2>1. NextJob(i, Tail(h.agenda))
    BY <1>2, <1>3
  <2>2. Goes(i, Tail(h.agenda))
    BY <2>1, GoesOn
  <2>3. h.kind = "position" \/ mine.at = Nowhere \/ (~ mine.on /\ job.does # "removed")
    <3>1. job = Do("snapshot", "driver") => job.does = "snapshot"
      BY JobParts
    <3> QED BY <1>3, <3>1
  <2> QED BY <1>2, <2>2, <2>3
<1>4. CASE ~ (throttled \/ absent)
  <2>1. flight' = [flight EXCEPT ![i].stage = "near", ![i].at = mine.at]
    BY <1>2, <1>4
  <2>2. flight \in Seq(Working)
    BY DEF PresenceTyped
  <2>3. flight' = [flight EXCEPT ![i] = Near(flight[i], mine.at)]
    BY <2>1, <2>2 DEF Near
  <2>4. mine.at \in Seen \cup {Nowhere}
    BY <1>1, RowType
  <2> HIDE DEF mine
  <2>5. Near(h, mine.at) \in Working
    BY <1>1, <1>2, <2>4, NearForm
  <2>6. mine.at # Nowhere /\ (job.does = "broadcast" => mine.on)
    BY <1>4
  <2> QED BY <1>2, <2>3, <2>5, <2>6 DEF Replaces, mine
<1> QED BY <1>3, <1>4

LEMMA ReadOwnTypes ==
  ASSUME PresenceTyped, NEW i \in DOMAIN flight, ReadOwn(i)
  PROVE  PresenceTyped'
<1>1. flight' \in Seq(Working)
  BY ReadOwnMeans, GoesTypes, FlightTypes
<1>2. recent' \in [Users -> 0 .. Throttle]
  <2>1. Throttle \in Nat
    BY PresenceAssumption
  <2>2. flight[i].who \in Users
    BY HandlerParts
  <2>3. recent \in [Users -> 0 .. Throttle]
    BY DEF PresenceTyped
  <2>4. Renew(flight[i].who) \in [Users -> 0 .. Throttle]
    BY <2>1, <2>2, <2>3 DEF Renew
  <2> QED BY <2>3, <2>4 DEF ReadOwn
<1> QED BY <1>1, <1>2 DEF PresenceTyped, ReadOwn, socket, history

LEMMA ReadNearMeans ==
  ASSUME PresenceTyped, NEW i \in DOMAIN flight, ReadNear(i)
  PROVE  LET h == flight[i]
             job == Head(h.agenda)
             found == FindNearby(Other(job.role), h.at)
         IN /\ h.stage = "near" /\ found \subseteq Users
            /\ \/ Goes(i, Tail(h.agenda)) /\ found = {} /\ job.does # "snapshot"
               \/ Replaces(i, Found(h, found)) /\ Found(h, found) \in Working
<1> DEFINE h == flight[i]
           job == Head(h.agenda)
           found == FindNearby(Other(job.role), h.at)
<1>1. h \in Working /\ h.stage = "near"
  BY HandlerParts DEF ReadNear
<1>2. IF found = {} /\ job.does # "snapshot" THEN NextJob(i, Tail(h.agenda))
      ELSE flight' = [flight EXCEPT ![i].stage = "emit", ![i].found = found]
  BY DEF ReadNear
<1>3. found \subseteq Users
  BY DEF FindNearby
<1> HIDE DEF found
<1>4. CASE found = {} /\ job.does # "snapshot"
  <2>1. NextJob(i, Tail(h.agenda))
    BY <1>2, <1>4
  <2>2. Goes(i, Tail(h.agenda))
    BY <2>1, GoesOn
  <2> QED BY <1>1, <1>3, <1>4, <2>2 DEF found
<1>5. CASE ~ (found = {} /\ job.does # "snapshot")
  <2>1. flight' = [flight EXCEPT ![i].stage = "emit", ![i].found = found]
    BY <1>2, <1>5
  <2>2. flight \in Seq(Working)
    BY DEF PresenceTyped
  <2>3. flight' = [flight EXCEPT ![i] = Found(flight[i], found)]
    BY <2>1, <2>2 DEF Found
  <2>4. Found(h, found) \in Working
    BY <1>1, <1>3, FoundForm
  <2> QED BY <1>1, <1>3, <2>3, <2>4 DEF Replaces, found
<1> QED BY <1>4, <1>5

LEMMA ReadNearTypes ==
  ASSUME PresenceTyped, NEW i \in DOMAIN flight, ReadNear(i)
  PROVE  PresenceTyped'
<1>1. flight' \in Seq(Working)
  BY ReadNearMeans, GoesTypes, FlightTypes
<1> QED BY <1>1 DEF PresenceTyped, ReadNear, socket, server, history

\* What a client is told changes one store, and nothing else.
LEMMA ToldTab ==
  ASSUME PresenceTyped, NEW i \in DOMAIN flight, NEW v \in Users
  PROVE  LET tab == Told(v, flight[i], Head(flight[i].agenda)) IN
         tab \in Tab /\ tab.is_driver = client[v].is_driver /\ tab.on = client[v].on /\ tab.on_map = client[v].on_map
<1> DEFINE h == flight[i]
           job == Head(h.agenda)
           known == client[v].store[job.role]
           tab == Told(v, h, job)
<1>1. h.who \in Users /\ h.found \subseteq Users /\ job.role \in Roles /\ Other(job.role) \in Roles
  BY HandlerParts, TwoRoles
<1>2. client[v] \in Tab /\ known \subseteq Users
  BY <1>1, RoleOfUser, TabParts
<1> HIDE DEF h, job, known
<1>3. \/ tab = client[v]
      \/ tab = Stored(client[v], Other(job.role), h.found)
      \/ tab = Stored(client[v], job.role, known \cup {h.who})
      \/ tab = Stored(client[v], job.role, known \ {h.who})
  BY DEF Told, Stored, known
<1> HIDE DEF tab
<1>4. known \cup {h.who} \in SUBSET Users /\ known \ {h.who} \in SUBSET Users
  BY <1>1, <1>2
<1>5. tab \in Tab /\ tab.is_driver = client[v].is_driver /\ tab.on = client[v].on /\ tab.on_map = client[v].on_map
  BY <1>1, <1>2, <1>3, <1>4, StoreChanged
<1> QED BY <1>5 DEF h, job, tab

LEMMA TellMeans ==
  ASSUME PresenceTyped, NEW i \in DOMAIN flight, Tell(i)
  PROVE  /\ flight[i].stage = "emit" /\ Goes(i, Tail(flight[i].agenda))
         /\ client' \in [Users -> Tab]
         /\ \A v \in Users : /\ client'[v] = Told(v, flight[i], Head(flight[i].agenda))
                             /\ client'[v].is_driver = client[v].is_driver /\ client'[v].on = client[v].on
<1>1. client' = [v \in Users |-> Told(v, flight[i], Head(flight[i].agenda))]
  BY DEF Tell
<1>2. Goes(i, Tail(flight[i].agenda)) /\ flight[i].stage = "emit"
  BY GoesOn DEF Tell
<1> QED BY <1>1, <1>2, ToldTab

LEMMA TellTypes ==
  ASSUME PresenceTyped, NEW i \in DOMAIN flight, Tell(i)
  PROVE  PresenceTyped'
<1>1. flight' \in Seq(Working) /\ client' \in [Users -> Tab]
  BY TellMeans, GoesTypes
<1>2. blurred' \subseteq Stores
  BY DEF PresenceTyped, Tell
<1> QED BY <1>1, <1>2 DEF PresenceTyped, Tell, socket, server

LEMMA TimePassesTypes ==
  ASSUME PresenceTyped, TimePasses
  PROVE  PresenceTyped'
<1>1. recent' \in [Users -> 0 .. Throttle]
  <2>1. Throttle \in Nat
    BY PresenceAssumption
  <2> QED BY <2>1 DEF PresenceTyped, TimePasses
<1> QED BY <1>1 DEF PresenceTyped, TimePasses, socket, history

LEMMA FailTypes ==
  ASSUME PresenceTyped, NEW i \in DOMAIN flight, Fail(i)
  PROVE  PresenceTyped'
<1>1. flight' \in Seq(Working)
  BY FlightTypes DEF Fail, Removes
<1>2. flight[i].who \in Users
  BY HandlerParts
<1>3. events' \in [Users -> 0 .. MaxEvents]
  BY <1>2, EventTypes DEF Fail
<1>4. shaken' \subseteq Users /\ blurred' \subseteq Stores
  BY <1>2 DEF Fail, PresenceTyped, Shake, Blur
<1> QED BY <1>1, <1>3, <1>4 DEF PresenceTyped, Fail, socket, server

LEMMA RestartTypes ==
  ASSUME PresenceTyped, Restart
  PROVE  PresenceTyped'
<1>1. flight' \in Seq(Working)
  BY DEF Restart
<1>2. events' \in [Users -> 0 .. MaxEvents]
  BY EventTypes DEF Restart
<1>3. shaken' \subseteq Users /\ blurred' \subseteq Stores
  BY DEF Restart, PresenceTyped, Shake, Blur
<1>4. client' \in [Users -> Tab]
  BY RoleOfUser, StoresCleared DEF Restart
<1>5. link' \in [Users -> {"up", "dead", "down", "out"}]
  BY DEF Restart, PresenceTyped
<1>6. recent' \in [Users -> 0 .. Throttle]
  BY PresenceAssumption DEF Restart
<1> QED BY <1>1, <1>2, <1>3, <1>4, <1>5, <1>6 DEF PresenceTyped, Restart

LEMMA DropOffTypes ==
  ASSUME PresenceTyped, NEW u \in Users, DropOff(u)
  PROVE  PresenceTyped'
BY DEF PresenceTyped, DropOff, socket, history

-----------------------------------------------------------------------------
\* The steps of a user.
Speaking(u) ==
  ToggleOn(u) \/ ToggleOff(u) \/ SwitchMode(u) \/ \E p \in Positions : NewFix(u, p) \/ Destination(u, p)
LEMMA SpeakingSays ==
  ASSUME PresenceTyped, NEW u \in Users, Speaking(u)
  PROVE  \E ms \in Seq(Spoken), tab \in Tab : Says(u, ms, tab)
BY ToggleOnSays, ToggleOffSays, SwitchModeSays, NewFixSays, DestinationSays DEF Speaking

Turns(u) ==
  \/ Speaking(u) \/ Navigate(u) \/ ForgetPosition(u)
  \/ Break(u) \/ Notice(u) \/ Reconnect(u) \/ Logout(u) \/ Login(u)
  \/ Disconnect(u) \/ Pickup(u) \/ DropOff(u)
Works(i) ==
  Receive(i) \/ Write(i) \/ Record(i) \/ ReadOwn(i) \/ ReadNear(i) \/ Tell(i) \/ Fail(i)
LEMMA NextMeans ==
  ASSUME PresenceTyped, PresenceNext
  PROVE  (\E u \in Users : Turns(u)) \/ (\E i \in DOMAIN flight : Works(i)) \/ TimePasses \/ Restart
<1>1. \A i : Fail(i) => i \in DOMAIN flight
  BY DEF Fail, Busy
<1>2. \A i : Handle(i) => i \in DOMAIN flight /\ Works(i)
  BY DEF Handle, Works
<1>3. Play => (\E u \in Users : Turns(u)) \/ (\E i \in DOMAIN flight : Works(i)) \/ TimePasses
  BY <1>2 DEF Play, Turns, Speaking
<1> QED BY <1>1, <1>3 DEF PresenceNext, Works

LEMMA InitTyped == PresenceInit => PresenceTyped
<1> SUFFICES ASSUME PresenceInit PROVE PresenceTyped
  OBVIOUS
<1>1. \A u \in Users : NewTab(u) \in Tab
  <2> SUFFICES ASSUME NEW u \in Users PROVE NewTab(u) \in Tab
    OBVIOUS
  <2>1. (u \in Drivers) \in BOOLEAN /\ [r \in Roles |-> FALSE] \in [Roles -> BOOLEAN] /\ [r \in Roles |-> {}] \in [Roles -> SUBSET Users]
    OBVIOUS
  <2>2. Nowhere \in Positions \cup {Nowhere} /\ TRUE \in BOOLEAN
    OBVIOUS
  <2> QED BY <2>1, <2>2, TabMade DEF NewTab
<1>2. client \in [Users -> Tab]
  BY <1>1 DEF PresenceInit
<1>3. NoRow \in Row
  BY DEF NoRow, Row
<1>4. row \in [Roles -> [Users -> Row]]
  BY <1>3 DEF PresenceInit
<1>5. Throttle \in Nat /\ MaxEvents \in Nat
  BY PresenceAssumption
<1>6. recent \in [Users -> 0 .. Throttle] /\ events \in [Users -> 0 .. MaxEvents]
  BY <1>5 DEF PresenceInit, Quiet
<1>7. flight \in Seq(Working) /\ buffer \in [Users -> Seq(Spoken)]
  BY DEF PresenceInit, Quiet
<1> QED BY <1>2, <1>4, <1>6, <1>7 DEF PresenceInit, Quiet, PresenceTyped

LEMMA NextTyped == PresenceTyped /\ [PresenceNext]_presence_vars => PresenceTyped'
<1> SUFFICES ASSUME PresenceTyped, [PresenceNext]_presence_vars PROVE PresenceTyped'
  OBVIOUS
<1>1. CASE UNCHANGED presence_vars
  BY <1>1 DEF PresenceTyped, presence_vars, socket, server, history
<1>2. ASSUME NEW u \in Users, Turns(u) PROVE PresenceTyped'
  <2>1. CASE Speaking(u)
    BY <2>1, SpeakingSays, SaysTypes
  <2>2. CASE ~ Speaking(u)
    BY <1>2, <2>2, NavigateTypes, BreakTypes, NoticeTypes, ReconnectTypes, LogoutTypes, LoginTypes,
       DisconnectTypes, PickupTypes, DropOffTypes DEF Turns
  <2> QED BY <2>1, <2>2
<1>3. ASSUME NEW i \in DOMAIN flight, Works(i) PROVE PresenceTyped'
  BY <1>3, ReceiveTypes, WriteTypes, RecordTypes, ReadOwnTypes, ReadNearTypes, TellTypes, FailTypes DEF Works
<1> QED BY <1>1, <1>2, <1>3, NextMeans, TimePassesTypes, RestartTypes

\* The types are right: whoever is online or waits has a position in his row,
\* every handler holds a legal agenda for its kind, and the bounds of the events
\* hold, for any users, positions and bounds.
THEOREM PresenceTypeCorrect == PresenceSpec => []PresenceTypeOK
<1>1. PresenceSpec => []PresenceTyped
  BY InitTyped, NextTyped, PTL DEF PresenceSpec
<1> QED BY <1>1, TypeGivesOK, PTL

\* A handler that will write that u is there in the role r, or is not.
Ev(h, u, r) == h.who = u /\ h.kind # "position" /\ Has(h.agenda, Do("write", r))
NoEv(q, u, r) == \A i \in DOMAIN q : ~ Ev(q[i], u, r)
LastSays(q, u, r, b) ==
  \A i \in DOMAIN q : Ev(q[i], u, r) /\ (\A j \in DOMAIN q : j > i => ~ Ev(q[j], u, r)) => (q[i].kind = "join") = b
\* Once q is handled, the row of u in the role r, which says now, will say b.
Promises(q, now, u, r, b) == LastSays(q, u, r, b) /\ (NoEv(q, u, r) => now = b)
LastWord(ms, r, b) ==
  \A i \in DOMAIN ms : Speaks(ms[i], r) /\ (\A j \in DOMAIN ms : j > i => ~ Speaks(ms[j], r)) => (ms[i].kind = "join") = b
\* The handlers of u start in order, and those of its presence one at a time.
Acts(h, u) == h.who = u /\ h.stage # "sent" /\ h.kind # "position"
Orderly(q, u) ==
  /\ \A i, j \in DOMAIN q : Acts(q[i], u) /\ Acts(q[j], u) => i = j
  /\ \A i, j \in DOMAIN q : i < j /\ q[i].who = u /\ q[j].who = u /\ q[j].stage # "sent" => q[i].stage # "sent"

-----------------------------------------------------------------------------
(* q comes from p: its element k was element f[k].                         *)
Thins(p, q, f) ==
  /\ f \in [DOMAIN q -> DOMAIN p]
  /\ \A j, k \in DOMAIN q : j < k => f[j] < f[k]
  /\ \A k \in DOMAIN q : q[k].who = p[f[k]].who /\ q[k].kind = p[f[k]].kind
Follows(p, q, f, u, r) ==
  /\ \A k \in DOMAIN q : Ev(q[k], u, r) <=> Ev(p[f[k]], u, r)
  /\ \A i \in DOMAIN p : Ev(p[i], u, r) => \E k \in DOMAIN q : f[k] = i
Staged(p, q, f, u) ==
  \A k \in DOMAIN q : q[k].who = u => (q[k].stage = "sent" <=> p[f[k]].stage = "sent")
\* The same but for element i, which no longer says anything.
PassesOver(p, q, f, i, u, r) ==
  /\ \A k \in DOMAIN q : Ev(q[k], u, r) <=> Ev(p[f[k]], u, r) /\ f[k] # i
  /\ \A j \in DOMAIN p : j # i /\ Ev(p[j], u, r) => \E k \in DOMAIN q : f[k] = j

\* Handlers that come from others in the same order say the same last word.
LEMMA FollowsSays ==
  ASSUME NEW p \in Seq(Working), NEW q \in Seq(Working), NEW f, Thins(p, q, f), NEW u, NEW r, Follows(p, q, f, u, r)
  PROVE  /\ NoEv(q, u, r) <=> NoEv(p, u, r)
         /\ \A b : LastSays(p, u, r, b) => LastSays(q, u, r, b)
         /\ \A b, now : Promises(p, now, u, r, b) => Promises(q, now, u, r, b)
<1>1. DOMAIN p \subseteq Int /\ DOMAIN q \subseteq Int
  OBVIOUS
<1>2. \A k \in DOMAIN q : f[k] \in DOMAIN p
  BY DEF Thins
<1>3. NoEv(q, u, r) <=> NoEv(p, u, r)
  BY <1>2 DEF NoEv, Follows
<1>4. ASSUME NEW b, LastSays(p, u, r, b) PROVE LastSays(q, u, r, b)
  <2> SUFFICES ASSUME NEW i \in DOMAIN q, Ev(q[i], u, r), \A j \in DOMAIN q : j > i => ~ Ev(q[j], u, r)
               PROVE  (q[i].kind = "join") = b
    BY DEF LastSays
  <2>1. f[i] \in DOMAIN p /\ Ev(p[f[i]], u, r) /\ q[i].kind = p[f[i]].kind
    BY <1>2 DEF Follows, Thins
  <2>2. ASSUME NEW j \in DOMAIN p, j > f[i], Ev(p[j], u, r) PROVE FALSE
    <3>1. PICK k \in DOMAIN q : f[k] = j
      BY <2>2 DEF Follows
    <3>2. Ev(q[k], u, r)
      BY <2>2, <3>1 DEF Follows
    <3>3. ~ (k > i)
      BY <3>2
    <3>4. k < i \/ k = i
      BY <1>1, <3>3
    <3>5. f[k] < f[i] \/ f[k] = f[i]
      BY <3>4 DEF Thins
    <3> QED BY <1>1, <1>2, <2>2, <3>1, <3>5
  <2> QED BY <1>4, <2>1, <2>2 DEF LastSays
<1> QED BY <1>3, <1>4 DEF Promises

\* ... and stay in order.
LEMMA FollowsOrder ==
  ASSUME NEW p \in Seq(Working), NEW q \in Seq(Working), NEW f, Thins(p, q, f), NEW u, Staged(p, q, f, u), Orderly(p, u)
  PROVE  Orderly(q, u)
<1>1. DOMAIN p \subseteq Int /\ DOMAIN q \subseteq Int
  OBVIOUS
<1>2. \A k \in DOMAIN q : f[k] \in DOMAIN p /\ q[k].who = p[f[k]].who /\ q[k].kind = p[f[k]].kind
  BY DEF Thins
<1>3. \A j, k \in DOMAIN q : f[j] = f[k] => j = k
  <2> SUFFICES ASSUME NEW j \in DOMAIN q, NEW k \in DOMAIN q, f[j] = f[k], j # k PROVE FALSE
    OBVIOUS
  <2>1. j < k \/ k < j
    BY <1>1
  <2>2. f[j] < f[k] \/ f[k] < f[j]
    BY <2>1 DEF Thins
  <2> QED BY <1>1, <1>2, <2>2
<1>4. ASSUME NEW i \in DOMAIN q, NEW j \in DOMAIN q,
             Acts(q[i], u), Acts(q[j], u)
      PROVE  i = j
  <2>1. f[i] = f[j]
    BY <1>2, <1>4 DEF Orderly, Staged, Acts
  <2> QED BY <1>3, <2>1
<1>5. ASSUME NEW i \in DOMAIN q, NEW j \in DOMAIN q, i < j, q[i].who = u, q[j].who = u, q[j].stage # "sent"
      PROVE  q[i].stage # "sent"
  <2>1. f[i] < f[j]
    BY <1>5 DEF Thins
  <2>2. p[f[i]].who = u /\ p[f[j]].who = u /\ p[f[j]].stage # "sent"
    BY <1>2, <1>5 DEF Staged
  <2>3. p[f[i]].stage # "sent"
    BY <1>2, <2>1, <2>2 DEF Orderly
  <2> QED BY <1>5, <2>3 DEF Staged
<1>6. \A i, j \in DOMAIN q : Acts(q[i], u) /\ Acts(q[j], u) => i = j
  BY <1>4
<1>7. \A i, j \in DOMAIN q : i < j /\ q[i].who = u /\ q[j].who = u /\ q[j].stage # "sent" => q[i].stage # "sent"
  BY <1>5
<1> QED BY <1>6, <1>7 DEF Orderly

\* What i said, the first of its kind, is done: the others say the last word.
LEMMA PassesOverSays ==
  ASSUME NEW p \in Seq(Working), NEW q \in Seq(Working), NEW f, Thins(p, q, f), NEW i \in DOMAIN p,
         NEW u, NEW r, PassesOver(p, q, f, i, u, r), Ev(p[i], u, r),
         \A j \in DOMAIN p : Ev(p[j], u, r) => j >= i,
         NEW b, LastSays(p, u, r, b)
  PROVE  LastSays(q, u, r, b) /\ (NoEv(q, u, r) => (p[i].kind = "join") = b)
<1>1. DOMAIN p \subseteq Int /\ DOMAIN q \subseteq Int
  OBVIOUS
<1>2. \A k \in DOMAIN q : f[k] \in DOMAIN p
  BY DEF Thins
<1>3. LastSays(q, u, r, b)
  <2> SUFFICES ASSUME NEW m \in DOMAIN q, Ev(q[m], u, r), \A j \in DOMAIN q : j > m => ~ Ev(q[j], u, r)
               PROVE  (q[m].kind = "join") = b
    BY DEF LastSays
  <2>1. f[m] \in DOMAIN p /\ Ev(p[f[m]], u, r) /\ q[m].kind = p[f[m]].kind /\ f[m] # i
    BY <1>2 DEF PassesOver, Thins
  <2>2. f[m] > i
    BY <1>1, <2>1
  <2>3. ASSUME NEW j \in DOMAIN p, j > f[m], Ev(p[j], u, r) PROVE FALSE
    <3>0. j # i
      BY <1>1, <1>2, <2>2, <2>3
    <3>1. PICK k \in DOMAIN q : f[k] = j
      BY <2>3, <3>0 DEF PassesOver
    <3>2. Ev(q[k], u, r)
      BY <2>3, <3>0, <3>1 DEF PassesOver
    <3>3. ~ (k > m)
      BY <3>2
    <3>4. k < m \/ k = m
      BY <1>1, <3>3
    <3>5. f[k] < f[m] \/ f[k] = f[m]
      BY <3>4 DEF Thins
    <3> QED BY <1>1, <1>2, <2>3, <3>1, <3>5
  <2> QED BY <2>1, <2>3 DEF LastSays
<1>4. ASSUME NoEv(q, u, r) PROVE (p[i].kind = "join") = b
  <2>1. ASSUME NEW j \in DOMAIN p, j > i PROVE ~ Ev(p[j], u, r)
    <3>1. j # i
      BY <1>1, <2>1
    <3>2. ASSUME Ev(p[j], u, r) PROVE FALSE
      <4>1. PICK k \in DOMAIN q : f[k] = j
        BY <3>1, <3>2 DEF PassesOver
      <4>2. Ev(q[k], u, r)
        BY <3>1, <3>2, <4>1 DEF PassesOver
      <4> QED BY <1>4, <4>2 DEF NoEv
    <3> QED BY <3>2
  <2> QED BY <2>1 DEF LastSays
<1> QED BY <1>3, <1>4

\* What follows has the last word, if it says anything.
LEMMA ThenSays ==
  ASSUME NEW p \in Seq(Working), NEW e \in Seq(Working), NEW q, q = p \o e, NEW u, NEW r
  PROVE  /\ NoEv(q, u, r) <=> NoEv(p, u, r) /\ NoEv(e, u, r)
         /\ \A b : NoEv(e, u, r) /\ LastSays(p, u, r, b) => LastSays(q, u, r, b)
         /\ \A b : ~ NoEv(e, u, r) /\ LastSays(e, u, r, b) => LastSays(q, u, r, b)
<1>1. /\ Len(p) \in Nat /\ DOMAIN p = 1..Len(p) /\ DOMAIN e = 1..Len(e) /\ Len(e) \in Nat
      /\ DOMAIN p \subseteq Int /\ DOMAIN e \subseteq Int
      /\ \A k \in DOMAIN p : k \in DOMAIN q /\ q[k] = p[k]
      /\ \A k \in DOMAIN e : Len(p) + k \in DOMAIN q /\ q[Len(p) + k] = e[k]
      /\ \A k \in DOMAIN q : k \in DOMAIN p \/ (k - Len(p) \in DOMAIN e /\ k = Len(p) + (k - Len(p)))
  BY Concatenated
<1>2. NoEv(q, u, r) <=> NoEv(p, u, r) /\ NoEv(e, u, r)
  BY <1>1 DEF NoEv
<1>3. ASSUME NEW b, NoEv(e, u, r), LastSays(p, u, r, b) PROVE LastSays(q, u, r, b)
  <2> SUFFICES ASSUME NEW i \in DOMAIN q, Ev(q[i], u, r), \A j \in DOMAIN q : j > i => ~ Ev(q[j], u, r)
               PROVE  (q[i].kind = "join") = b
    BY DEF LastSays
  <2>1. i \in DOMAIN p
    BY <1>1, <1>3 DEF NoEv
  <2>2. \A j \in DOMAIN p : j > i => ~ Ev(p[j], u, r)
    BY <1>1
  <2> QED BY <1>1, <1>3, <2>1, <2>2 DEF LastSays
<1>4. ASSUME NEW b, ~ NoEv(e, u, r), LastSays(e, u, r, b) PROVE LastSays(q, u, r, b)
  <2> SUFFICES ASSUME NEW i \in DOMAIN q, Ev(q[i], u, r), \A j \in DOMAIN q : j > i => ~ Ev(q[j], u, r)
               PROVE  (q[i].kind = "join") = b
    BY DEF LastSays
  <2>1. PICK k \in DOMAIN e : Ev(e[k], u, r)
    BY <1>4 DEF NoEv
  <2>2. Len(p) + k \in DOMAIN q /\ Ev(q[Len(p) + k], u, r)
    BY <1>1, <2>1
  <2>3. i \notin DOMAIN p
    <3>1. ASSUME i \in DOMAIN p PROVE FALSE
      <4>1. Len(p) + k > i
        BY <1>1, <2>1, <3>1
      <4> QED BY <2>2, <4>1
    <3> QED BY <3>1
  <2>4. i - Len(p) \in DOMAIN e /\ i = Len(p) + (i - Len(p))
    BY <1>1, <2>3
  <2> DEFINE m == i - Len(p)
  <2>5. m \in DOMAIN e /\ q[i] = e[m] /\ i = Len(p) + m
    BY <1>1, <2>4
  <2> HIDE DEF m
  <2>6. ASSUME NEW j \in DOMAIN e, j > m PROVE ~ Ev(e[j], u, r)
    <3>1. Len(p) + j \in DOMAIN q /\ q[Len(p) + j] = e[j]
      BY <1>1
    <3>2. Len(p) + j > i
      BY <1>1, <2>5, <2>6
    <3> QED BY <3>1, <3>2
  <2> QED BY <1>4, <2>5, <2>6 DEF LastSays
<1> QED BY <1>2, <1>3, <1>4

\* The same for messages.
LEMMA ThenSpeaks ==
  ASSUME NEW p \in Seq(Spoken), NEW e \in Seq(Spoken), NEW q, q = p \o e, NEW r
  PROVE  /\ Silent(q, r) <=> Silent(p, r) /\ Silent(e, r)
         /\ \A b : Silent(e, r) /\ LastWord(p, r, b) => LastWord(q, r, b)
         /\ \A b : ~ Silent(e, r) /\ LastWord(e, r, b) => LastWord(q, r, b)
<1>1. /\ Len(p) \in Nat /\ DOMAIN p = 1..Len(p) /\ DOMAIN e = 1..Len(e) /\ Len(e) \in Nat
      /\ DOMAIN p \subseteq Int /\ DOMAIN e \subseteq Int
      /\ \A k \in DOMAIN p : k \in DOMAIN q /\ q[k] = p[k]
      /\ \A k \in DOMAIN e : Len(p) + k \in DOMAIN q /\ q[Len(p) + k] = e[k]
      /\ \A k \in DOMAIN q : k \in DOMAIN p \/ (k - Len(p) \in DOMAIN e /\ k = Len(p) + (k - Len(p)))
  BY Concatenated
<1>2. Silent(q, r) <=> Silent(p, r) /\ Silent(e, r)
  BY <1>1 DEF Silent
<1>3. ASSUME NEW b, Silent(e, r), LastWord(p, r, b) PROVE LastWord(q, r, b)
  <2> SUFFICES ASSUME NEW i \in DOMAIN q, Speaks(q[i], r), \A j \in DOMAIN q : j > i => ~ Speaks(q[j], r)
               PROVE  (q[i].kind = "join") = b
    BY DEF LastWord
  <2>1. i \in DOMAIN p
    BY <1>1, <1>3 DEF Silent
  <2>2. \A j \in DOMAIN p : j > i => ~ Speaks(p[j], r)
    BY <1>1
  <2> QED BY <1>1, <1>3, <2>1, <2>2 DEF LastWord
<1>4. ASSUME NEW b, ~ Silent(e, r), LastWord(e, r, b) PROVE LastWord(q, r, b)
  <2> SUFFICES ASSUME NEW i \in DOMAIN q, Speaks(q[i], r), \A j \in DOMAIN q : j > i => ~ Speaks(q[j], r)
               PROVE  (q[i].kind = "join") = b
    BY DEF LastWord
  <2>1. PICK k \in DOMAIN e : Speaks(e[k], r)
    BY <1>4 DEF Silent
  <2>2. Len(p) + k \in DOMAIN q /\ Speaks(q[Len(p) + k], r)
    BY <1>1, <2>1
  <2>3. i \notin DOMAIN p
    <3>1. ASSUME i \in DOMAIN p PROVE FALSE
      <4>1. Len(p) + k > i
        BY <1>1, <2>1, <3>1
      <4> QED BY <2>2, <4>1
    <3> QED BY <3>1
  <2>4. i - Len(p) \in DOMAIN e /\ i = Len(p) + (i - Len(p))
    BY <1>1, <2>3
  <2> DEFINE m == i - Len(p)
  <2>5. m \in DOMAIN e /\ q[i] = e[m] /\ i = Len(p) + m
    BY <1>1, <2>4
  <2> HIDE DEF m
  <2>6. ASSUME NEW j \in DOMAIN e, j > m PROVE ~ Speaks(e[j], r)
    <3>1. Len(p) + j \in DOMAIN q /\ q[Len(p) + j] = e[j]
      BY <1>1
    <3>2. Len(p) + j > i
      BY <1>1, <2>5, <2>6
    <3> QED BY <3>1, <3>2
  <2> QED BY <1>4, <2>5, <2>6 DEF LastWord
<1> QED BY <1>2, <1>3, <1>4

\* Messages sent say what they say, and are not at work yet.
LEMMA SentSays ==
  ASSUME NEW u \in Users, NEW ms \in Seq(Spoken), NEW r \in Roles
  PROVE  /\ NoEv(Sent(u, ms), u, r) <=> Silent(ms, r)
         /\ \A b : LastWord(ms, r, b) => LastSays(Sent(u, ms), u, r, b)
         /\ \A v : v # u => NoEv(Sent(u, ms), v, r)
<1> DEFINE s == Sent(u, ms)
<1>1. /\ DOMAIN s = DOMAIN ms
      /\ \A i \in DOMAIN ms : s[i].who = u /\ s[i].kind = ms[i].kind /\ s[i].agenda = Agenda(ms[i])
  BY SentForm
<1>2. \A i \in DOMAIN ms : ms[i] \in Message
  BY DEF Spoken
<1> HIDE DEF s
<1>3. \A i \in DOMAIN ms : Ev(s[i], u, r) <=> Speaks(ms[i], r)
  <2> SUFFICES ASSUME NEW i \in DOMAIN ms PROVE Ev(s[i], u, r) <=> Speaks(ms[i], r)
    OBVIOUS
  <2>1. Has(s[i].agenda, Do("write", r)) <=> r = ms[i].role
    BY <1>1, <1>2, AgendaOf
  <2> QED BY <1>1, <2>1 DEF Ev, Speaks
<1>4. \A v, i : v # u /\ i \in DOMAIN ms => ~ Ev(s[i], v, r)
  BY <1>1 DEF Ev
<1>5. NoEv(s, u, r) <=> Silent(ms, r)
  BY <1>1, <1>3 DEF NoEv, Silent
<1>6. \A b : LastWord(ms, r, b) => LastSays(s, u, r, b)
  BY <1>1, <1>3 DEF LastSays, LastWord
<1>7. \A v : v # u => NoEv(s, v, r)
  BY <1>1, <1>4 DEF NoEv
<1> QED BY <1>5, <1>6, <1>7 DEF s

\* Messages sent last keep the order.
LEMMA SentOrder ==
  ASSUME NEW u \in Users, NEW ms \in Seq(Spoken), NEW p \in Seq(Working), NEW v, Orderly(p, v)
  PROVE  Orderly(p \o Sent(u, ms), v)
<1> DEFINE e == Sent(u, ms)
           q == p \o e
<1>1. e \in Seq(Working) /\ \A i \in DOMAIN e : e[i].stage = "sent"
  BY SentForm
<1>0. q = p \o e
  OBVIOUS
<1> HIDE DEF e, q
<1>2. /\ Len(p) \in Nat /\ DOMAIN p = 1..Len(p) /\ DOMAIN e = 1..Len(e) /\ Len(e) \in Nat
      /\ DOMAIN p \subseteq Int /\ DOMAIN e \subseteq Int
      /\ \A k \in DOMAIN p : k \in DOMAIN q /\ q[k] = p[k]
      /\ \A k \in DOMAIN e : Len(p) + k \in DOMAIN q /\ q[Len(p) + k] = e[k]
      /\ \A k \in DOMAIN q : k \in DOMAIN p \/ (k - Len(p) \in DOMAIN e /\ k = Len(p) + (k - Len(p)))
  BY <1>0, <1>1, Concatenated
<1>3. \A k \in DOMAIN q : q[k].stage # "sent" => k \in DOMAIN p /\ q[k] = p[k]
  BY <1>1, <1>2
<1>4. ASSUME NEW i \in DOMAIN q, NEW j \in DOMAIN q, i < j, q[i].who = v, q[j].who = v, q[j].stage # "sent"
      PROVE  q[i].stage # "sent"
  <2>1. j \in DOMAIN p /\ q[j] = p[j]
    BY <1>3, <1>4
  <2>2. i \in DOMAIN p
    BY <1>2, <1>4, <2>1
  <2> QED BY <1>2, <1>4, <2>1, <2>2 DEF Orderly
<1>5. \A i, j \in DOMAIN q : Acts(q[i], v) /\ Acts(q[j], v) => i = j
  BY <1>3 DEF Orderly, Acts
<1>6. \A i, j \in DOMAIN q : i < j /\ q[i].who = v /\ q[j].who = v /\ q[j].stage # "sent" => q[i].stage # "sent"
  BY <1>4
<1>7. Orderly(q, v)
  BY <1>5, <1>6 DEF Orderly
<1> QED BY <1>7 DEF q, e

\* A handler removed, or replaced.
Drops(p, q, i) ==
  \E f : /\ Thins(p, q, f) /\ \A u : Staged(p, q, f, u)
         /\ \A k \in DOMAIN q : f[k] # i /\ q[k] = p[f[k]]
         /\ \A j \in DOMAIN p : j # i => \E k \in DOMAIN q : f[k] = j
Swaps(p, q, i, g) ==
  /\ DOMAIN q = DOMAIN p /\ q[i] = g /\ \A k \in DOMAIN p \ {i} : q[k] = p[k]
  /\ \E f : /\ Thins(p, q, f) /\ \A k \in DOMAIN q : f[k] = k
            /\ \A u : p[i].who # u \/ (g.stage = "sent" <=> p[i].stage = "sent") => Staged(p, q, f, u)
\* A handler removed, or replaced by one of the same user and kind.
LEMMA RemovesThins ==
  ASSUME NEW p \in Seq(Working), NEW i \in DOMAIN p, NEW q, q = RemoveAt(p, i)
  PROVE  q \in Seq(Working) /\ Drops(p, q, i)
<1> DEFINE f == [k \in DOMAIN q |-> Was(i, k)]
<1>1. q \in Seq(Working) /\ Len(q) = Len(p) - 1 /\ \A k \in DOMAIN q : q[k] = p[Was(i, k)] /\ Was(i, k) \in DOMAIN p
  BY OneRemoved
<1>2. /\ i \in 1..Len(p) /\ Len(p) \in Nat /\ DOMAIN p = 1..Len(p)
      /\ DOMAIN q = 1..(Len(p) - 1)
  BY <1>1
<1>3. \A j, k \in DOMAIN q : j < k => Was(i, j) < Was(i, k)
  BY <1>2 DEF Was
<1>4. \A k \in DOMAIN q : Was(i, k) # i
  BY <1>2 DEF Was
<1>5. ASSUME NEW j \in DOMAIN p, j # i PROVE \E k \in DOMAIN q : Was(i, k) = j
  <2>1. CASE j < i
    <3>1. j \in DOMAIN q /\ Was(i, j) = j
      BY <1>2, <1>5, <2>1 DEF Was
    <3> QED BY <3>1
  <2>2. CASE ~ (j < i)
    <3>1. j - 1 \in DOMAIN q /\ Was(i, j - 1) = j
      BY <1>2, <1>5, <2>2 DEF Was
    <3> QED BY <3>1
  <2> QED BY <2>1, <2>2
<1>6. \A k \in DOMAIN q : f[k] = Was(i, k)
  OBVIOUS
<1>7. f \in [DOMAIN q -> DOMAIN p]
  BY <1>1
<1> HIDE DEF f
<1>8. Thins(p, q, f) /\ \A u : Staged(p, q, f, u)
  BY <1>1, <1>3, <1>6, <1>7 DEF Thins, Staged
<1> QED BY <1>1, <1>4, <1>5, <1>6, <1>8 DEF Drops

LEMMA ReplacesThins ==
  ASSUME NEW p \in Seq(Working), NEW i \in DOMAIN p, NEW g \in Working, g.who = p[i].who, g.kind = p[i].kind,
         NEW q, q = [p EXCEPT ![i] = g]
  PROVE  q \in Seq(Working) /\ Swaps(p, q, i, g)
<1> DEFINE f == [k \in DOMAIN q |-> k]
<1>1. /\ q \in Seq(Working) /\ DOMAIN q = DOMAIN p /\ q[i] = g
      /\ \A k \in DOMAIN p \ {i} : q[k] = p[k]
  BY OneReplaced
<1>2. f \in [DOMAIN q -> DOMAIN p] /\ \A k \in DOMAIN q : f[k] = k
  BY <1>1
<1> HIDE DEF f
<1>3. \A k \in DOMAIN q : q[k].who = p[k].who /\ q[k].kind = p[k].kind
  BY <1>1
<1>4. Thins(p, q, f)
  BY <1>2, <1>3 DEF Thins
<1>5. \A u : p[i].who # u \/ (g.stage = "sent" <=> p[i].stage = "sent") => Staged(p, q, f, u)
  BY <1>1, <1>2 DEF Staged
<1> QED BY <1>1, <1>2, <1>4, <1>5 DEF Swaps

OneRole(u) == ~ client[u].on[Other(RoleOf(u))]
\* What the messages on the way and in the buffer will make of a row.
Heard(u, r) ==
  /\ link[u] = "up" /\ u \notin zombie => Promises(flight, row[r][u].on, u, r, client[u].on[r])
  /\ link[u] \in {"dead", "out"} /\ u \notin zombie => Promises(flight, row[r][u].on, u, r, FALSE)
  /\ link[u] = "down" /\ ~ client[u].on[r] =>
       /\ LastWord(buffer[u], r, FALSE)
       /\ u \notin zombie /\ Silent(buffer[u], r) => Promises(flight, row[r][u].on, u, r, FALSE)
Kept(u) ==
  /\ Orderly(flight, u)
  /\ link[u] # "down" => buffer[u] = << >>
  /\ \A r \in Roles : Heard(u, r)
ToggleSafe == (\A u \in Users : OneRole(u)) /\ \A u \in Users \ shaken : Kept(u)

\* A step that leaves v alone, and his handlers in order.
Leaves(v) ==
  /\ link'[v] = link[v] /\ (v \in zombie' <=> v \in zombie) /\ buffer'[v] = buffer[v]
  /\ client'[v].on = client[v].on /\ \A r \in Roles : row'[r][v].on = row[r][v].on
Carries(v) ==
  /\ Orderly(flight, v) => Orderly(flight', v)
  /\ \A r \in Roles : \A b, now : Promises(flight, now, v, r, b) => Promises(flight', now, v, r, b)

\* A user who is left alone stays in step.
LEMMA Undisturbed ==
  ASSUME NEW v \in Users, Kept(v), Leaves(v), Carries(v)
  PROVE  Kept(v)'
<1>1. Orderly(flight', v) /\ (link'[v] # "down" => buffer'[v] = << >>)
  BY DEF Kept, Leaves, Carries
<1>2. ASSUME NEW r \in Roles PROVE Heard(v, r)'
  <2>1. Heard(v, r) /\ row'[r][v].on = row[r][v].on /\ client'[v].on[r] = client[v].on[r]
    BY DEF Kept, Leaves
  <2>2. \A b, now : Promises(flight, now, v, r, b) => Promises(flight', now, v, r, b)
    BY DEF Carries
  <2>3. link'[v] = link[v] /\ (v \in zombie' <=> v \in zombie) /\ buffer'[v] = buffer[v]
    BY DEF Leaves
  <2> QED BY <2>1, <2>2, <2>3 DEF Heard
<1> QED BY <1>1, <1>2 DEF Kept

LEMMA SameCarries == \A v : flight' = flight => Carries(v)
BY DEF Carries

\* Everyone's toggles, and everyone's role, stay as they are.
LEMMA SameRoles ==
  ASSUME \A u \in Users : OneRole(u), \A u \in Users : client'[u].is_driver = client[u].is_driver /\ client'[u].on = client[u].on
  PROVE  \A u \in Users : OneRole(u)'
BY DEF OneRole, RoleOf

SaysStill(i, s, u, r) == flight[i].who = u /\ flight[i].kind # "position" /\ Has(s, Do("write", r))
\* A handler that goes on, part by part.
LEMMA AheadParts ==
  ASSUME NEW h \in Working, NEW s
  PROVE  LET g == Ahead(h, s) IN
         g.who = h.who /\ g.kind = h.kind /\ g.agenda = s /\ g.stage = "own" /\ g.at = Nowhere /\ g.found = {}
<1>1. h \in Handler
  BY DEF Working
<1> QED BY <1>1 DEF Handler, Ahead

\* A handler that goes on no longer says what its job wrote.
LEMMA GoesThins ==
  ASSUME PresenceTyped, NEW i \in DOMAIN flight, NEW s, Goes(i, s), flight[i].stage # "sent"
  PROVE  \E f : /\ Thins(flight, flight', f) /\ \A u : Staged(flight, flight', f, u)
                /\ \A u, r : (Ev(flight[i], u, r) <=> SaysStill(i, s, u, r)) => Follows(flight, flight', f, u, r)
                /\ \A u, r : ~ SaysStill(i, s, u, r) => PassesOver(flight, flight', f, i, u, r)
<1>1. flight \in Seq(Working) /\ flight[i] \in Working
  BY HandlerParts DEF PresenceTyped
<1>2. CASE s = << >> /\ Removes(i)
  <2>1. flight' = RemoveAt(flight, i)
    BY <1>2 DEF Removes
  <2>2. PICK f : /\ Thins(flight, flight', f) /\ \A u : Staged(flight, flight', f, u)
                 /\ \A k \in DOMAIN flight' : f[k] # i /\ flight'[k] = flight[f[k]]
                 /\ \A j \in DOMAIN flight : j # i => \E k \in DOMAIN flight' : f[k] = j
    <3>1. Drops(flight, flight', i)
      BY <1>1, <2>1, RemovesThins
    <3> QED BY <3>1 DEF Drops
  <2>3. \A u, r : ~ SaysStill(i, s, u, r)
    BY <1>2, List0 DEF SaysStill
  <2>4. \A u, r : PassesOver(flight, flight', f, i, u, r)
    BY <2>2 DEF PassesOver
  <2>5. \A u, r : ~ Ev(flight[i], u, r) => Follows(flight, flight', f, u, r)
    BY <2>2 DEF Follows
  <2> QED BY <2>2, <2>3, <2>4, <2>5
<1>3. CASE s # << >> /\ Replaces(i, Ahead(flight[i], s)) /\ Ahead(flight[i], s) \in Working
  <2> DEFINE g == Ahead(flight[i], s)
  <2>1. flight' = [flight EXCEPT ![i] = g] /\ g \in Working
    BY <1>3 DEF Replaces
  <2>2. g.who = flight[i].who /\ g.kind = flight[i].kind /\ g.agenda = s /\ g.stage = "own"
    BY <1>1, AheadParts
  <2> HIDE DEF g
  <2>3. Swaps(flight, flight', i, g)
    BY <1>1, <2>1, <2>2, ReplacesThins
  <2>9. DOMAIN flight' = DOMAIN flight /\ flight'[i] = g /\ \A k \in DOMAIN flight \ {i} : flight'[k] = flight[k]
    BY <2>3 DEF Swaps
  <2>4. PICK f : /\ Thins(flight, flight', f) /\ \A k \in DOMAIN flight' : f[k] = k
                 /\ \A u : flight[i].who # u \/ (g.stage = "sent" <=> flight[i].stage = "sent") => Staged(flight, flight', f, u)
    BY <2>3 DEF Swaps
  <2>5. \A u : Staged(flight, flight', f, u)
    BY <2>2, <2>4
  <2>6. \A u, r : Ev(g, u, r) <=> SaysStill(i, s, u, r)
    BY <2>2 DEF Ev, SaysStill
  <2>7. \A u, r : (Ev(flight[i], u, r) <=> SaysStill(i, s, u, r)) => Follows(flight, flight', f, u, r)
    BY <2>9, <2>4, <2>6 DEF Follows
  <2>8. \A u, r : ~ SaysStill(i, s, u, r) => PassesOver(flight, flight', f, i, u, r)
    BY <2>9, <2>4, <2>6 DEF PassesOver
  <2> QED BY <2>4, <2>5, <2>7, <2>8
<1> QED BY <1>2, <1>3 DEF Goes

LEMMA ThinsCarries ==
  ASSUME NEW v, NEW f, flight \in Seq(Working), flight' \in Seq(Working),
         Thins(flight, flight', f), Staged(flight, flight', f, v), \A r \in Roles : Follows(flight, flight', f, v, r)
  PROVE  Carries(v)
BY FollowsSays, FollowsOrder DEF Carries

LEMMA GoesCarries ==
  ASSUME PresenceTyped, NEW i \in DOMAIN flight, NEW s, Goes(i, s), flight[i].stage # "sent", NEW v,
         \A r \in Roles : Ev(flight[i], v, r) <=> SaysStill(i, s, v, r)
  PROVE  Carries(v)
<1>1. flight \in Seq(Working) /\ flight' \in Seq(Working)
  BY GoesTypes DEF PresenceTyped
<1>2. PICK f : /\ Thins(flight, flight', f) /\ \A u : Staged(flight, flight', f, u)
               /\ \A u, r : (Ev(flight[i], u, r) <=> SaysStill(i, s, u, r)) => Follows(flight, flight', f, u, r)
  BY GoesThins
<1> QED BY <1>1, <1>2, ThinsCarries

LEMMA StayCarries ==
  ASSUME PresenceTyped, NEW i \in DOMAIN flight, NEW g \in Working, Replaces(i, g), NEW v,
         g.who = flight[i].who, g.kind = flight[i].kind, g.agenda = flight[i].agenda,
         flight[i].who # v \/ (g.stage = "sent" <=> flight[i].stage = "sent")
  PROVE  Carries(v)
<1>1. flight \in Seq(Working) /\ flight' = [flight EXCEPT ![i] = g]
  BY DEF PresenceTyped, Replaces
<1>2. flight' \in Seq(Working) /\ Swaps(flight, flight', i, g)
  BY <1>1, ReplacesThins
<1>6. DOMAIN flight' = DOMAIN flight /\ flight'[i] = g /\ \A k \in DOMAIN flight \ {i} : flight'[k] = flight[k]
  BY <1>2 DEF Swaps
<1>3. PICK f : /\ Thins(flight, flight', f) /\ \A k \in DOMAIN flight' : f[k] = k
               /\ \A u : flight[i].who # u \/ (g.stage = "sent" <=> flight[i].stage = "sent") => Staged(flight, flight', f, u)
  BY <1>2 DEF Swaps
<1>4. \A r : Ev(g, v, r) <=> Ev(flight[i], v, r)
  BY DEF Ev
<1>5. \A r : Follows(flight, flight', f, v, r)
  BY <1>6, <1>3, <1>4 DEF Follows
<1> QED BY <1>1, <1>2, <1>3, <1>5, ThinsCarries

-----------------------------------------------------------------------------
\* Each step of the system keeps what the messages on their way will make of the
\* rows, for every user it does not shake.
LEMMA SaysKept ==
  ASSUME PresenceTyped, ToggleSafe, NEW u \in Users, NEW ms \in Seq(Spoken), NEW tab \in Tab, Says(u, ms, tab)
  PROVE  ToggleSafe'
<1>1. /\ client' = [client EXCEPT ![u] = tab] /\ Emit(u, ms) /\ UNCHANGED <<link, zombie, row>> /\ shaken \subseteq shaken'
      /\ ~ tab.on[Other(RoleIn(tab))]
      /\ \A r \in Roles : AllSay(ms, r, tab.on[r])
      /\ u \notin shaken' => \A r \in Roles : Silent(ms, r) => tab.on[r] = client[u].on[r]
  BY DEF Says, ToggleSafe, OneRole, server
<1>2. client'[u] = tab /\ \A v \in Users : v # u => client'[v] = client[v]
  BY <1>1 DEF PresenceTyped
<1>3. ASSUME NEW v \in Users PROVE OneRole(v)'
  BY <1>1, <1>2 DEF ToggleSafe, OneRole, RoleOf, RoleIn
<1>4. flight \in Seq(Working) /\ flight' \in Seq(Working) /\ Sent(u, ms) \in Seq(Working) /\ buffer \in [Users -> Seq(Spoken)]
  BY <1>1, WithTypes, SentForm DEF PresenceTyped
<1>5. /\ flight' = IF link[u] = "up" THEN flight \o Sent(u, ms) ELSE flight
      /\ buffer' = IF link[u] = "down" THEN [buffer EXCEPT ![u] = @ \o ms] ELSE buffer
  BY <1>1 DEF Emit
<1>6. ASSUME NEW v \in Users, NEW r \in Roles
      PROVE  /\ NoEv(flight', v, r) <=> NoEv(flight, v, r) /\ (v # u \/ link[u] # "up" \/ Silent(ms, r))
             /\ \A b : (v # u \/ link[u] # "up" \/ Silent(ms, r)) /\ LastSays(flight, v, r, b) => LastSays(flight', v, r, b)
             /\ \A b : v = u /\ link[u] = "up" /\ ~ Silent(ms, r) /\ LastWord(ms, r, b) => LastSays(flight', v, r, b)
  <2>1. CASE link[u] = "up"
    <3>1. flight' = flight \o Sent(u, ms)
      BY <1>5, <2>1
    <3>2. /\ NoEv(flight', v, r) <=> NoEv(flight, v, r) /\ NoEv(Sent(u, ms), v, r)
          /\ \A b : NoEv(Sent(u, ms), v, r) /\ LastSays(flight, v, r, b) => LastSays(flight', v, r, b)
          /\ \A b : ~ NoEv(Sent(u, ms), v, r) /\ LastSays(Sent(u, ms), v, r, b) => LastSays(flight', v, r, b)
      BY <1>4, <3>1, ThenSays
    <3>3. /\ v # u => NoEv(Sent(u, ms), v, r)
          /\ v = u => (NoEv(Sent(u, ms), v, r) <=> Silent(ms, r))
          /\ \A b : v = u /\ LastWord(ms, r, b) => LastSays(Sent(u, ms), v, r, b)
      BY SentSays
    <3> QED BY <2>1, <3>2, <3>3
  <2>2. CASE link[u] # "up"
    BY <1>5, <2>2
  <2> QED BY <2>1, <2>2
<1>7. ASSUME NEW v \in Users, Orderly(flight, v) PROVE Orderly(flight', v)
  BY <1>4, <1>5, <1>7, SentOrder
<1>8. ASSUME NEW v \in Users \ shaken' PROVE Kept(v)'
  <2>1. Kept(v)
    BY <1>1 DEF ToggleSafe
  <2>2. CASE v # u
    <3>1. Carries(v)
      BY <1>6, <1>7, <2>2 DEF Carries, Promises
    <3>2. Leaves(v)
      BY <1>1, <1>2, <1>4, <1>5, <2>2 DEF Leaves
    <3> QED BY <2>1, <3>1, <3>2, Undisturbed
  <2>3. CASE v = u
    <3>1. Orderly(flight', u)
      BY <1>7, <2>1, <2>3 DEF Kept
    <3>2. link'[u] # "down" => buffer'[u] = << >>
      BY <1>1, <1>5, <2>1, <2>3 DEF Kept
    <3>3. ASSUME NEW r \in Roles PROVE Heard(u, r)'
      <4>1. Heard(u, r) /\ AllSay(ms, r, tab.on[r]) /\ (Silent(ms, r) => tab.on[r] = client[u].on[r])
        BY <1>1, <1>8, <2>1, <2>3 DEF Kept
      <4>2. LastWord(ms, r, tab.on[r])
        BY <4>1 DEF AllSay, LastWord
      <4>3. tab.on[r] \in BOOLEAN /\ client'[u].on[r] = tab.on[r] /\ link'[u] = link[u] /\ zombie' = zombie /\ row' = row
        BY <1>1, <1>2, TabParts
      <4>4. CASE link[u] = "up"
        <5>1. u \notin zombie => Promises(flight', row[r][u].on, u, r, tab.on[r])
          <6>1. CASE Silent(ms, r)
            BY <1>6, <4>1, <4>4, <6>1 DEF Heard, Promises
          <6>2. CASE ~ Silent(ms, r)
            BY <1>6, <4>2, <4>4, <6>2 DEF Promises
          <6> QED BY <6>1, <6>2
        <5> QED BY <4>3, <4>4, <5>1 DEF Heard
      <4>5. CASE link[u] \in {"dead", "out"}
        <5>1. flight' = flight
          BY <1>5, <4>5
        <5> QED BY <4>1, <4>3, <4>5, <5>1 DEF Heard
      <4>6. CASE link[u] = "down" /\ ~ tab.on[r]
        <5>1. flight' = flight /\ buffer'[u] = buffer[u] \o ms /\ buffer[u] \in Seq(Spoken)
          BY <1>4, <1>5, <4>6
        <5>2. tab.on[r] = FALSE
          BY <4>3, <4>6
        <5>3. /\ Silent(buffer'[u], r) <=> Silent(buffer[u], r) /\ Silent(ms, r)
              /\ Silent(ms, r) /\ LastWord(buffer[u], r, FALSE) => LastWord(buffer'[u], r, FALSE)
              /\ ~ Silent(ms, r) /\ LastWord(ms, r, FALSE) => LastWord(buffer'[u], r, FALSE)
          BY <5>1, ThenSpeaks
        <5>4. LastWord(ms, r, FALSE)
          BY <4>2, <5>2
        <5>5. Silent(ms, r) => ~ client[u].on[r]
          BY <4>1, <5>2
        <5>6. LastWord(buffer'[u], r, FALSE) /\ (u \notin zombie /\ Silent(buffer'[u], r) => Promises(flight, row[r][u].on, u, r, FALSE))
          BY <4>1, <4>6, <5>3, <5>4, <5>5 DEF Heard
        <5> QED BY <4>3, <4>6, <5>1, <5>6 DEF Heard
      <4>7. CASE link[u] = "down" /\ tab.on[r]
        BY <4>3, <4>7 DEF Heard
      <4>8. link[u] \in {"up", "dead", "down", "out"}
        BY DEF PresenceTyped
      <4> QED BY <4>4, <4>5, <4>6, <4>7, <4>8
    <3> QED BY <2>3, <3>1, <3>2, <3>3 DEF Kept
  <2> QED BY <2>2, <2>3
<1> QED BY <1>3, <1>8 DEF ToggleSafe

LEMMA NavigateKept ==
  ASSUME PresenceTyped, ToggleSafe, NEW u \in Users, Navigate(u) \/ ForgetPosition(u)
  PROVE  ToggleSafe'
<1>1. PICK tab \in Tab : /\ client' = [client EXCEPT ![u] = tab]
                         /\ tab.is_driver = client[u].is_driver /\ tab.on = client[u].on
                         /\ UNCHANGED <<socket, server, flight, shaken>>
  BY NavigateMeans
<1>2. \A v \in Users : client'[v].is_driver = client[v].is_driver /\ client'[v].on = client[v].on
  BY <1>1 DEF PresenceTyped
<1>3. \A v \in Users : Carries(v) /\ Leaves(v)
  BY <1>1, <1>2, SameCarries DEF Leaves, socket, server
<1>4. \A v \in Users : OneRole(v)'
  BY <1>2, SameRoles DEF ToggleSafe
<1>5. \A v \in Users \ shaken' : Kept(v)'
  BY <1>1, <1>3, Undisturbed DEF ToggleSafe
<1> QED BY <1>4, <1>5 DEF ToggleSafe

LEMMA BreakKept ==
  ASSUME PresenceTyped, ToggleSafe, NEW u \in Users, Break(u)
  PROVE  ToggleSafe'
<1>0. PICK n \in 0 .. Len(flight) : \E o \in InOrder(DOMAIN flight \ Lost(u, n)) : flight' = [k \in DOMAIN o |-> flight[o[k]]]
  BY DEF Break
<1>1. PICK o \in InOrder(DOMAIN flight \ Lost(u, n)) : flight' = [k \in DOMAIN o |-> flight[o[k]]]
  BY <1>0
<1>2. /\ flight' \in Seq(Working)
      /\ o \in [DOMAIN flight' -> DOMAIN flight]
      /\ \A j, k \in DOMAIN flight' : j < k => o[j] < o[k]
      /\ \A k \in DOMAIN flight' : flight'[k] = flight[o[k]]
      /\ \A i \in DOMAIN flight : i \notin Lost(u, n) => \E k \in DOMAIN flight' : o[k] = i
  BY <1>1, BreakKeeps
<1>3. flight \in Seq(Working)
  BY DEF PresenceTyped
<1>4. Thins(flight, flight', o) /\ \A v : Staged(flight, flight', o, v)
  BY <1>2 DEF Thins, Staged
<1>5. ASSUME NEW v \in Users, v # u PROVE Carries(v)
  <2>1. \A i \in DOMAIN flight : \A r : Ev(flight[i], v, r) => i \notin Lost(u, n)
    BY <1>5 DEF Ev, Lost
  <2>2. \A r \in Roles : Follows(flight, flight', o, v, r)
    BY <1>2, <2>1 DEF Follows
  <2> QED BY <1>2, <1>3, <1>4, <2>2, ThinsCarries
<1>6. /\ link[u] = "up" /\ link' = [link EXCEPT ![u] = "dead"] /\ zombie' = zombie \cup {u}
      /\ UNCHANGED <<client, buffer, row, shaken>>
  BY DEF Break, server
<1>7. \A v \in Users : OneRole(v)'
  BY <1>6 DEF ToggleSafe, OneRole, RoleOf
<1>8. ASSUME NEW v \in Users \ shaken' PROVE Kept(v)'
  <2>1. Kept(v)
    BY <1>6 DEF ToggleSafe
  <2>2. CASE v # u
    <3>1. Leaves(v)
      BY <1>6, <2>2 DEF Leaves, PresenceTyped
    <3> QED BY <1>5, <2>1, <2>2, <3>1, Undisturbed
  <2>3. CASE v = u
    <3>1. link'[u] = "dead" /\ u \in zombie' /\ buffer'[u] = << >>
      BY <1>6, <2>1, <2>3 DEF PresenceTyped, Kept
    <3>2. Orderly(flight', u)
      BY <1>2, <1>3, <1>4, <2>1, <2>3, FollowsOrder DEF Kept
    <3>3. \A r \in Roles : Heard(u, r)'
      BY <3>1 DEF Heard
    <3> QED BY <2>3, <3>1, <3>2, <3>3 DEF Kept
  <2> QED BY <2>2, <2>3
<1> QED BY <1>7, <1>8 DEF ToggleSafe

LEMMA NoticeKept ==
  ASSUME PresenceTyped, ToggleSafe, NEW u \in Users, Notice(u)
  PROVE  ToggleSafe'
<1>1. /\ link[u] = "dead" /\ link' = [link EXCEPT ![u] = "down"]
      /\ client' = [client EXCEPT ![u] = ClearStores(client[u])]
      /\ UNCHANGED <<zombie, buffer, row, flight, shaken>>
  BY DEF Notice, server, history
<1>2. \A v \in Users : client'[v].is_driver = client[v].is_driver /\ client'[v].on = client[v].on
  BY <1>1, RoleOfUser, StoresCleared DEF PresenceTyped
<1>3. \A v \in Users : OneRole(v)'
  BY <1>2, SameRoles DEF ToggleSafe
<1>4. ASSUME NEW v \in Users \ shaken' PROVE Kept(v)'
  <2>1. Kept(v)
    BY <1>1 DEF ToggleSafe
  <2>2. CASE v # u
    <3>1. Leaves(v) /\ Carries(v)
      BY <1>1, <1>2, <2>2, SameCarries DEF Leaves, PresenceTyped
    <3> QED BY <2>1, <3>1, Undisturbed
  <2>3. CASE v = u
    <3>1. link'[u] = "down" /\ buffer'[u] = << >> /\ Orderly(flight', u)
      BY <1>1, <2>1, <2>3 DEF Kept, PresenceTyped
    <3>2. \A r \in Roles : LastWord(buffer'[u], r, FALSE)
      BY <3>1 DEF LastWord
    <3>3. \A r \in Roles : u \notin zombie => Promises(flight, row[r][u].on, u, r, FALSE)
      BY <1>1, <2>1, <2>3 DEF Kept, Heard
    <3>4. \A r \in Roles : Heard(u, r)'
      BY <1>1, <3>1, <3>2, <3>3 DEF Heard
    <3> QED BY <2>3, <3>1, <3>4 DEF Kept
  <2> QED BY <2>2, <2>3
<1> QED BY <1>3, <1>4 DEF ToggleSafe

LEMMA ReconnectKept ==
  ASSUME PresenceTyped, ToggleSafe, NEW u \in Users, Reconnect(u)
  PROVE  ToggleSafe'
<1> DEFINE ms == buffer[u] \o Resync(u)
<1>1. /\ link[u] = "down" /\ link' = [link EXCEPT ![u] = "up"]
      /\ flight' = flight \o Sent(u, ms)
      /\ buffer' = [buffer EXCEPT ![u] = << >>]
      /\ Shake({ v \in {u} : client[u].on[RoleOf(u)] /\ client[u].fix = Nowhere })
      /\ UNCHANGED <<client, zombie, row>>
  BY DEF Reconnect, server
<1>2. /\ Resync(u) \in Seq(Spoken) /\ buffer[u] \in Seq(Spoken) /\ ms \in Seq(Spoken)
      /\ \A i \in DOMAIN Resync(u) : Resync(u)[i].kind = "join" /\ Resync(u)[i].role = RoleOf(u) /\ client[u].on[RoleOf(u)]
      /\ client[u].on[RoleOf(u)] /\ client[u].fix # Nowhere => \E i \in DOMAIN Resync(u) : TRUE
  BY ResyncSays
<1>3. flight \in Seq(Working) /\ Sent(u, ms) \in Seq(Working)
  BY <1>2, SentForm DEF PresenceTyped
<1>4. \A v \in Users : OneRole(v)'
  BY <1>1 DEF ToggleSafe, OneRole, RoleOf
<1>5. shaken' = shaken \cup { v \in {u} : client[u].on[RoleOf(u)] /\ client[u].fix = Nowhere }
  BY <1>1 DEF Shake
<1>6. ms = buffer[u] \o Resync(u)
  OBVIOUS
<1> HIDE DEF ms
<1>7. ASSUME NEW v \in Users \ shaken' PROVE Kept(v)'
  <2>1. Kept(v)
    BY <1>5 DEF ToggleSafe
  <2>2. Orderly(flight', v)
    BY <1>1, <1>2, <1>3, <2>1, SentOrder DEF Kept
  <2>3. ASSUME NEW r \in Roles
        PROVE  /\ NoEv(flight', v, r) <=> NoEv(flight, v, r) /\ NoEv(Sent(u, ms), v, r)
               /\ \A b : NoEv(Sent(u, ms), v, r) /\ LastSays(flight, v, r, b) => LastSays(flight', v, r, b)
               /\ \A b : ~ NoEv(Sent(u, ms), v, r) /\ LastSays(Sent(u, ms), v, r, b) => LastSays(flight', v, r, b)
    BY <1>1, <1>3, ThenSays
  <2>4. CASE v # u
    <3>1. \A r \in Roles : NoEv(Sent(u, ms), v, r)
      BY <1>2, <2>4, SentSays
    <3>2. Carries(v)
      BY <2>2, <2>3, <3>1 DEF Carries, Promises
    <3>3. Leaves(v)
      BY <1>1, <2>4 DEF Leaves, PresenceTyped
    <3> QED BY <2>1, <3>2, <3>3, Undisturbed
  <2>5. CASE v = u
    <3>1. link'[u] = "up" /\ client' = client /\ zombie' = zombie /\ row' = row
      BY <1>1 DEF PresenceTyped
    <3>2. ASSUME NEW r \in Roles, u \notin zombie PROVE Promises(flight', row[r][u].on, u, r, client[u].on[r])
      <4>0. client[u].on[r] \in BOOLEAN /\ RoleOf(u) \in Roles
        BY RoleOfUser, TabParts
      <4>1. /\ Silent(ms, r) <=> Silent(buffer[u], r) /\ Silent(Resync(u), r)
            /\ \A b : Silent(Resync(u), r) /\ LastWord(buffer[u], r, b) => LastWord(ms, r, b)
            /\ \A b : ~ Silent(Resync(u), r) /\ LastWord(Resync(u), r, b) => LastWord(ms, r, b)
        <5>1. Resync(u) \in Seq(Spoken) /\ buffer[u] \in Seq(Spoken) /\ ms = buffer[u] \o Resync(u)
          BY <1>2, <1>6
        <5> DEFINE a == buffer[u]
                   e == Resync(u)
        <5>2. a \in Seq(Spoken) /\ e \in Seq(Spoken) /\ ms = a \o e
          BY <5>1
        <5> HIDE DEF a, e
        <5>3. /\ Silent(ms, r) <=> Silent(a, r) /\ Silent(e, r)
              /\ \A b : Silent(e, r) /\ LastWord(a, r, b) => LastWord(ms, r, b)
              /\ \A b : ~ Silent(e, r) /\ LastWord(e, r, b) => LastWord(ms, r, b)
          BY <5>2, ThenSpeaks
        <5> QED BY <5>3 DEF a, e
      <4>2. NoEv(Sent(u, ms), u, r) <=> Silent(ms, r)
        BY <1>2, SentSays
      <4>3. \A b : LastWord(ms, r, b) => LastSays(Sent(u, ms), u, r, b)
        BY <1>2, SentSays
      <4>4. CASE client[u].on[r]
        <5>0. client[u].on[r] = TRUE
          BY <4>0, <4>4
        <5>1. r = RoleOf(u)
          BY <4>0, <4>4, TwoRoles DEF ToggleSafe, OneRole
        <5>2. client[u].fix # Nowhere
          BY <1>5, <1>7, <2>5, <4>4, <5>1
        <5>3. ~ Silent(Resync(u), r)
          BY <1>2, <4>4, <5>1, <5>2 DEF Silent, Speaks
        <5>4. LastWord(Resync(u), r, TRUE)
          BY <1>2 DEF LastWord
        <5>5. LastWord(ms, r, TRUE) /\ ~ Silent(ms, r)
          BY <4>1, <5>3, <5>4
        <5>6. LastSays(flight', u, r, TRUE) /\ ~ NoEv(flight', u, r)
          BY <2>3, <2>5, <4>2, <4>3, <5>5
        <5> QED BY <5>0, <5>6 DEF Promises
      <4>5. CASE ~ client[u].on[r]
        <5>0. client[u].on[r] = FALSE
          BY <4>0, <4>5
        <5>1. Silent(Resync(u), r)
          BY <1>2, <4>5 DEF Silent, Speaks
        <5>2. LastWord(buffer[u], r, FALSE) /\ (Silent(buffer[u], r) => Promises(flight, row[r][u].on, u, r, FALSE))
          BY <1>1, <2>1, <2>5, <3>2, <4>5 DEF Kept, Heard
        <5>3. LastWord(ms, r, FALSE)
          BY <4>1, <5>1, <5>2
        <5>4. CASE Silent(buffer[u], r)
          <6>1. NoEv(Sent(u, ms), u, r)
            BY <4>1, <4>2, <5>1, <5>4
          <6>2. Promises(flight', row[r][u].on, u, r, FALSE)
            BY <2>3, <2>5, <5>2, <5>4, <6>1 DEF Promises
          <6> QED BY <5>0, <6>2
        <5>5. CASE ~ Silent(buffer[u], r)
          <6>1. ~ NoEv(Sent(u, ms), u, r) /\ LastSays(Sent(u, ms), u, r, FALSE)
            BY <4>1, <4>2, <4>3, <5>3, <5>5
          <6>2. Promises(flight', row[r][u].on, u, r, FALSE)
            BY <2>3, <2>5, <6>1 DEF Promises
          <6> QED BY <5>0, <6>2
        <5> QED BY <5>4, <5>5
      <4> QED BY <4>4, <4>5
    <3>3. \A r \in Roles : Heard(u, r)'
      BY <3>1, <3>2 DEF Heard
    <3>4. link'[u] # "down" => buffer'[u] = << >>
      BY <1>1 DEF PresenceTyped
    <3> QED BY <2>2, <2>5, <3>3, <3>4 DEF Kept
  <2> QED BY <2>4, <2>5
<1> QED BY <1>4, <1>7 DEF ToggleSafe

LEMMA LogoutKept ==
  ASSUME PresenceTyped, ToggleSafe, NEW u \in Users, Logout(u)
  PROVE  ToggleSafe'
<1>1. /\ link[u] # "out" /\ link' = [link EXCEPT ![u] = "out"]
      /\ zombie' = IF link[u] = "up" THEN zombie \cup {u} ELSE zombie
      /\ Shake({ v \in {u} : link[u] = "down" })
      /\ UNCHANGED <<buffer, row, flight>>
  BY DEF Logout, server
<1>2. client' = [client EXCEPT ![u] = LoggedOut(client[u])]
  BY LogoutTypes
<1>3. client'[u] = LoggedOut(client[u]) /\ \A v \in Users : v # u => client'[v] = client[v]
  BY <1>2 DEF PresenceTyped
<1>4. LoggedOut(client[u]) \in Tab /\ \A r \in Roles : LoggedOut(client[u]).on[r] = FALSE
  BY RoleOfUser, LoggedOutTab
<1>5. ASSUME NEW v \in Users PROVE OneRole(v)'
  <2>1. CASE v = u
    <3>1. Other(RoleOf(u)') \in Roles
      BY DEF RoleOf, Other, Roles
    <3>2. OneRole(u)'
      BY <1>3, <1>4, <3>1 DEF OneRole
    <3> QED BY <2>1, <3>2
  <2>2. CASE v # u
    BY <1>3, <2>2 DEF ToggleSafe, OneRole, RoleOf
  <2> QED BY <2>1, <2>2
<1>6. ASSUME NEW v \in Users \ shaken' PROVE Kept(v)'
  <2>1. Kept(v)
    BY <1>1 DEF ToggleSafe, Shake
  <2>2. CASE v # u
    <3>1. Leaves(v) /\ Carries(v)
      BY <1>1, <1>3, <2>2, SameCarries DEF Leaves, PresenceTyped
    <3> QED BY <2>1, <3>1, Undisturbed
  <2>3. CASE v = u
    <3>1. link[u] # "down"
      BY <1>1, <1>6, <2>3 DEF Shake
    <3>2. link'[u] = "out" /\ buffer'[u] = << >> /\ Orderly(flight', u)
      BY <1>1, <2>1, <2>3, <3>1 DEF Kept, PresenceTyped
    <3>3. u \notin zombie' => link[u] = "dead" /\ u \notin zombie
      BY <1>1, <3>1 DEF PresenceTyped
    <3>4. \A r \in Roles : u \notin zombie' => Promises(flight, row[r][u].on, u, r, FALSE)
      BY <2>1, <2>3, <3>3 DEF Kept, Heard
    <3>5. \A r \in Roles : Heard(u, r)'
      BY <1>1, <3>2, <3>4 DEF Heard
    <3> QED BY <2>3, <3>2, <3>5 DEF Kept
  <2> QED BY <2>2, <2>3
<1> QED BY <1>5, <1>6 DEF ToggleSafe

LEMMA LoginKept ==
  ASSUME PresenceTyped, ToggleSafe, NEW u \in Users, Login(u)
  PROVE  ToggleSafe'
<1>1. link[u] = "out" /\ link' = [link EXCEPT ![u] = "down"] /\ UNCHANGED <<client, zombie, buffer, row, flight, shaken>>
  BY DEF Login, server
<1>2. \A v \in Users : OneRole(v)'
  BY <1>1 DEF ToggleSafe, OneRole, RoleOf
<1>3. ASSUME NEW v \in Users \ shaken' PROVE Kept(v)'
  <2>1. Kept(v)
    BY <1>1 DEF ToggleSafe
  <2>2. CASE v # u
    <3>1. Leaves(v) /\ Carries(v)
      BY <1>1, <2>2, SameCarries DEF Leaves, PresenceTyped
    <3> QED BY <2>1, <3>1, Undisturbed
  <2>3. CASE v = u
    <3>1. link'[u] = "down" /\ buffer'[u] = << >> /\ Orderly(flight', u)
      BY <1>1, <2>1, <2>3 DEF Kept, PresenceTyped
    <3>2. \A r \in Roles : LastWord(buffer'[u], r, FALSE)
      BY <3>1 DEF LastWord
    <3>3. \A r \in Roles : u \notin zombie => Promises(flight, row[r][u].on, u, r, FALSE)
      BY <1>1, <2>1, <2>3 DEF Kept, Heard
    <3>4. \A r \in Roles : Heard(u, r)'
      BY <1>1, <3>1, <3>2, <3>3 DEF Heard
    <3> QED BY <2>3, <3>1, <3>4 DEF Kept
  <2> QED BY <2>2, <2>3
<1> QED BY <1>2, <1>3 DEF ToggleSafe

LEMMA DisconnectKept ==
  ASSUME PresenceTyped, ToggleSafe, NEW u \in Users, Disconnect(u)
  PROVE  ToggleSafe'
<1> DEFINE h == Handling(u, "disconnect", Nowhere, "own", Cleanup)
<1>1. /\ link[u] # "up" => ~ InTransit(u)
      /\ flight' = Append(flight, h) /\ zombie' = zombie \ {u}
      /\ shaken' = shaken \cup { v \in {u} : link[u] = "up" \/ Overlapping(u, "disconnect") }
      /\ UNCHANGED <<client, link, buffer, row>>
  BY DEF Disconnect, server, Shake
<1>2. /\ h \in Working /\ h.who = u /\ h.kind = "disconnect" /\ h.stage = "own" /\ h.agenda = Cleanup
      /\ Has(Cleanup, Do("write", "driver")) /\ Has(Cleanup, Do("write", "passenger"))
  BY CleanupForm
<1> HIDE DEF h
<1>3. flight \in Seq(Working) /\ << h >> \in Seq(Working) /\ flight' = flight \o << h >>
      /\ DOMAIN << h >> = {1} /\ << h >>[1] = h
  <2>1. flight \in Seq(Working) /\ flight' = Append(flight, h) /\ h \in Working
    BY <1>1, <1>2 DEF PresenceTyped
  <2>2. << h >> \in Seq(Working) /\ DOMAIN << h >> = {1} /\ << h >>[1] = h
    BY <2>1
  <2>3. flight' = flight \o << h >>
    BY <2>1
  <2> QED BY <2>1, <2>2, <2>3
<1>4. /\ DOMAIN flight' = DOMAIN flight \cup {Len(flight) + 1} /\ flight'[Len(flight) + 1] = h
      /\ \A k \in DOMAIN flight : flight'[k] = flight[k] /\ k < Len(flight) + 1
      /\ Len(flight) + 1 \in Int /\ DOMAIN flight \subseteq Int
  BY <1>1, <1>2, <1>3
<1>5. \A v \in Users : OneRole(v)'
  BY <1>1 DEF ToggleSafe, OneRole, RoleOf
<1>6. ASSUME NEW v \in Users, NEW r \in Roles
      PROVE  /\ NoEv(flight', v, r) <=> NoEv(flight, v, r) /\ v # u
             /\ \A b : v # u /\ LastSays(flight, v, r, b) => LastSays(flight', v, r, b)
             /\ v = u => LastSays(flight', v, r, FALSE)
  <2>1. /\ NoEv(flight', v, r) <=> NoEv(flight, v, r) /\ NoEv(<< h >>, v, r)
        /\ \A b : NoEv(<< h >>, v, r) /\ LastSays(flight, v, r, b) => LastSays(flight', v, r, b)
        /\ \A b : ~ NoEv(<< h >>, v, r) /\ LastSays(<< h >>, v, r, b) => LastSays(flight', v, r, b)
    BY <1>3, ThenSays
  <2>2. Ev(h, v, r) <=> v = u
    <3>1. Has(h.agenda, Do("write", r))
      BY <1>2 DEF Roles
    <3> QED BY <1>2, <3>1 DEF Ev
  <2>3. NoEv(<< h >>, v, r) <=> v # u
    BY <1>3, <2>2 DEF NoEv
  <2>4. LastSays(<< h >>, v, r, FALSE)
    BY <1>2, <1>3 DEF LastSays
  <2> QED BY <2>1, <2>3, <2>4
<1>7. ASSUME NEW v \in Users \ shaken' PROVE Kept(v)'
  <2>1. Kept(v)
    BY <1>1 DEF ToggleSafe
  <2>2. CASE v # u
    <3>1. Orderly(flight', v)
      <4>1. \A k \in DOMAIN flight' : flight'[k].who = v => k \in DOMAIN flight /\ flight'[k] = flight[k]
        BY <1>2, <1>4, <2>2
      <4> QED BY <2>1, <4>1 DEF Kept, Orderly, Acts
    <3>2. Carries(v)
      BY <1>6, <2>2, <3>1 DEF Carries, Promises
    <3>3. Leaves(v)
      BY <1>1, <2>2 DEF Leaves
    <3> QED BY <2>1, <3>2, <3>3, Undisturbed
  <2>3. CASE v = u
    <3>1. link[u] # "up" /\ ~ Overlapping(u, "disconnect") /\ ~ InTransit(u)
      BY <1>1, <1>7, <2>3
    <3>2. \A k \in DOMAIN flight : flight[k].who = u => flight[k].stage # "sent" /\ flight[k].kind = "position"
      BY <3>1 DEF InTransit, Overlapping, Busy
    <3>3. Orderly(flight', u)
      <4>1. \A i, j \in DOMAIN flight' : Acts(flight'[i], u) /\ Acts(flight'[j], u) => i = j
        BY <1>4, <3>2 DEF Acts
      <4>2. \A i \in DOMAIN flight' : flight'[i].who = u => flight'[i].stage # "sent"
        BY <1>2, <1>4, <3>2
      <4> QED BY <4>1, <4>2 DEF Orderly
    <3>4. \A r \in Roles : \A now : Promises(flight', now, u, r, FALSE)
      BY <1>6 DEF Promises
    <3>5. /\ link' = link /\ client' = client /\ buffer' = buffer /\ row' = row
          /\ link[u] # "down" => buffer[u] = << >>
          /\ \A r \in Roles : link[u] = "down" /\ ~ client[u].on[r] => LastWord(buffer[u], r, FALSE)
      BY <1>1, <2>1, <2>3 DEF Kept, Heard
    <3>6. \A r \in Roles : Heard(u, r)'
      BY <3>1, <3>4, <3>5 DEF Heard
    <3> QED BY <2>3, <3>3, <3>5, <3>6 DEF Kept
  <2> QED BY <2>2, <2>3
<1> QED BY <1>5, <1>7 DEF ToggleSafe

LEMMA NothingOnItsWay ==
  ASSUME NEW u, ~ OnItsWay(u)
  PROVE  \A r : NoEv(flight, u, r)
BY DEF OnItsWay, NoEv, Ev

LEMMA PickupKept ==
  ASSUME PresenceTyped, ToggleSafe, NEW u \in Users, Pickup(u)
  PROVE  ToggleSafe'
<1>1. /\ \/ link[u] = "up" /\ client[u].on_map /\ client' = [client EXCEPT ![u] = Riding(client[u])]
         \/ u \in shaken' /\ client' = client
      /\ OnItsWay(u) => u \in shaken'
      /\ \E w \in Row : w.on = FALSE /\ w.at = row["passenger"][u].at /\ row' = [row EXCEPT !["passenger"][u] = w]
  BY PickupMeans
<1>2. shaken \subseteq shaken' /\ UNCHANGED <<link, zombie, buffer, flight>>
  BY DEF Pickup, Shake, socket
<1>3. PICK w \in Row : w.on = FALSE /\ row' = [row EXCEPT !["passenger"][u] = w]
  BY <1>1
<1>4. row'["passenger"][u].on = FALSE /\ \A q \in Roles, v \in Users : q # "passenger" \/ v # u => row'[q][v] = row[q][v]
  <2> DEFINE p == "passenger"
  <2>1. p \in Roles /\ row' = [row EXCEPT ![p][u] = w]
    BY <1>3, TwoRoles
  <2> HIDE DEF p
  <2>4. row'[p][u] = w /\ \A q \in Roles, v \in Users : q # p \/ v # u => row'[q][v] = row[q][v]
    <3>1. row \in [Roles -> [Users -> Row]]
      BY DEF PresenceTyped
    <3>2. row' = [row EXCEPT ![p] = [row[p] EXCEPT ![u] = w]]
      BY <2>1, <3>1
    <3>3. [row[p] EXCEPT ![u] = w] \in [Users -> Row]
      BY <2>1, <3>1
    <3> QED BY <2>1, <3>1, <3>2, <3>3
  <2>2. /\ row'["passenger"][u] = w
        /\ \A q \in Roles, v \in Users : q # "passenger" \/ v # u => row'[q][v] = row[q][v]
    BY <2>4 DEF p
  <2>3. row'["passenger"][u].on = FALSE
    BY <1>3, <2>2
  <2> QED BY <2>2, <2>3
<1>5. client[u] \in Tab /\ client \in [Users -> Tab]
  BY RoleOfUser DEF PresenceTyped
<1>6. /\ Riding(client[u]).is_driver = client[u].is_driver
      /\ Riding(client[u]).on["passenger"] = FALSE /\ Riding(client[u]).on["driver"] = client[u].on["driver"]
  BY <1>5, RidingTab
<1>7. \A v \in Users : v # u => client'[v] = client[v]
  BY <1>1, <1>5
<1>8. client' = client \/ client'[u] = Riding(client[u])
  BY <1>1, <1>5
<1>9. ASSUME NEW v \in Users PROVE OneRole(v)'
  <2>1. CASE client'[v] = client[v]
    BY <2>1 DEF ToggleSafe, OneRole, RoleOf
  <2>2. CASE client'[v] # client[v]
    <3>1. v = u /\ client'[u] = Riding(client[u])
      BY <1>7, <1>8, <2>2
    <3>2. RoleOf(u)' = RoleOf(u)
      BY <1>6, <3>1 DEF RoleOf
    <3>3. ~ client[u].on[Other(RoleOf(u))] /\ Other(RoleOf(u)) \in {"driver", "passenger"}
      BY RoleOfUser, TwoRoles DEF ToggleSafe, OneRole, Roles
    <3>4. ~ Riding(client[u]).on[Other(RoleOf(u))]
      BY <1>6, <3>3
    <3> QED BY <3>1, <3>2, <3>4 DEF OneRole
  <2> QED BY <2>1, <2>2
<1>10. ASSUME NEW v \in Users \ shaken' PROVE Kept(v)'
  <2>1. Kept(v)
    BY <1>2 DEF ToggleSafe
  <2>2. CASE v # u
    <3>1. Leaves(v) /\ Carries(v)
      BY <1>2, <1>4, <1>7, <2>2, SameCarries DEF Leaves
    <3> QED BY <2>1, <3>1, Undisturbed
  <2>3. CASE v = u
    <3>1. link[u] = "up" /\ ~ OnItsWay(u) /\ client'[u] = Riding(client[u])
      BY <1>1, <1>5, <1>10, <2>3
    <3>2. \A r \in Roles : NoEv(flight, u, r)
      BY <3>1, NothingOnItsWay
    <3>3. ASSUME NEW r \in Roles, u \notin zombie PROVE Promises(flight, row'[r][u].on, u, r, client'[u].on[r])
      <4>1. \A b : LastSays(flight, u, r, b)
        BY <3>2 DEF NoEv, LastSays
      <4>2. row[r][u].on = client[u].on[r]
        BY <2>1, <2>3, <3>1, <3>2, <3>3 DEF Kept, Heard, Promises
      <4>3. row'[r][u].on = client'[u].on[r]
        <5>1. CASE r = "passenger"
          BY <1>4, <1>6, <3>1, <5>1
        <5>2. CASE r = "driver"
          <6>1. row'[r][u] = row[r][u]
            BY <1>4, <5>2
          <6> QED BY <1>6, <3>1, <4>2, <5>2, <6>1
        <5> QED BY <5>1, <5>2 DEF Roles
      <4> QED BY <4>1, <4>3 DEF Promises
    <3>4. link' = link /\ zombie' = zombie /\ buffer' = buffer /\ flight' = flight
      BY <1>2
    <3>5. \A r \in Roles : Heard(u, r)'
      BY <3>1, <3>3, <3>4 DEF Heard
    <3> QED BY <2>1, <2>3, <3>4, <3>5 DEF Kept
  <2> QED BY <2>2, <2>3
<1> QED BY <1>9, <1>10 DEF ToggleSafe

\* Steps of the handlers that neither start them nor write a row.
LEMMA OthersKept ==
  ASSUME PresenceTyped, ToggleSafe, shaken \subseteq shaken',
         UNCHANGED <<link, zombie, buffer>>,
         \A v \in Users : client'[v].is_driver = client[v].is_driver /\ client'[v].on = client[v].on,
         \A r \in Roles, v \in Users : row'[r][v].on = row[r][v].on,
         \A v \in Users \ shaken' : Carries(v)
  PROVE  ToggleSafe'
<1>1. \A v \in Users : OneRole(v)'
  BY SameRoles DEF ToggleSafe
<1>2. \A v \in Users : Leaves(v)
  BY DEF Leaves
<1>3. \A v \in Users \ shaken' : Kept(v)'
  BY <1>2, Undisturbed DEF ToggleSafe
<1> QED BY <1>1, <1>3 DEF ToggleSafe

\* A handler past its writes says nothing more.
LEMMA SaysNoMore ==
  ASSUME PresenceTyped, NEW i \in DOMAIN flight, Head(flight[i].agenda).does # "write"
  PROVE  \A v, r : ~ Ev(flight[i], v, r) /\ ~ SaysStill(i, Tail(flight[i].agenda), v, r)
<1> DEFINE h == flight[i]
<1>1. h.agenda \in Left(h.kind)
  BY HandlerParts
<1> HIDE DEF h
<1>2. /\ \A q : ~ Has(Tail(h.agenda), Do("write", q))
      /\ \A j : Has(h.agenda, j) <=> (j = Head(h.agenda) \/ Has(Tail(h.agenda), j))
  BY <1>1, Agendas DEF h
<1>3. \A q : Head(h.agenda) # Do("write", q)
  BY JobParts DEF h
<1>4. \A q : ~ Has(h.agenda, Do("write", q))
  BY <1>2, <1>3
<1> QED BY <1>2, <1>4 DEF Ev, SaysStill, h

LEMMA RecordKept ==
  ASSUME PresenceTyped, ToggleSafe, NEW i \in DOMAIN flight, Record(i)
  PROVE  ToggleSafe'
<1>1. PICK s : Goes(i, s) /\ (s # << >> => \A j : Has(s, j) <=> j = Do("broadcast", "passenger"))
  BY RecordMeans
<1>2. Head(flight[i].agenda).does # "write" /\ flight[i].stage # "sent"
  BY DEF Record
<1>3. \A q : ~ Has(s, Do("write", q))
  <2>1. CASE s = << >>
    BY <2>1, List0
  <2>2. CASE s # << >>
    <3>1. \A q : Do("write", q) # Do("broadcast", "passenger")
      BY JobParts
    <3> QED BY <1>1, <2>2, <3>1
  <2> QED BY <2>1, <2>2
<1>4. \A v, r : ~ Ev(flight[i], v, r) /\ ~ SaysStill(i, s, v, r)
  BY <1>2, <1>3, SaysNoMore DEF SaysStill
<1>5. \A v : Carries(v)
  BY <1>1, <1>2, <1>4, GoesCarries
<1>6. UNCHANGED <<client, link, zombie, buffer, row, shaken>>
  BY DEF Record, socket, server, history
<1> QED BY <1>5, <1>6, OthersKept

LEMMA ReadOwnKept ==
  ASSUME PresenceTyped, ToggleSafe, NEW i \in DOMAIN flight, ReadOwn(i)
  PROVE  ToggleSafe'
<1> DEFINE h == flight[i]
           mine == row[Head(h.agenda).role][h.who]
<1>1. /\ h.stage = "own" /\ Head(h.agenda).does \in {"broadcast", "snapshot", "removed"}
      /\ Goes(i, Tail(h.agenda)) \/ (Replaces(i, Near(h, mine.at)) /\ Near(h, mine.at) \in Working)
  BY ReadOwnMeans
<1>2. \A v : Carries(v)
  <2>1. CASE Goes(i, Tail(h.agenda))
    BY <1>1, <2>1, SaysNoMore, GoesCarries
  <2>2. CASE Replaces(i, Near(h, mine.at)) /\ Near(h, mine.at) \in Working
    <3> DEFINE g == Near(h, mine.at)
    <3>1. h \in Handler
      BY HandlerParts
    <3>2. g.who = h.who /\ g.kind = h.kind /\ g.agenda = h.agenda /\ g.stage = "near"
      BY <3>1 DEF Handler, Near
    <3> HIDE DEF g, mine
    <3> QED BY <1>1, <2>2, <3>2, StayCarries DEF g
  <2> QED BY <1>1, <2>1, <2>2
<1>3. UNCHANGED <<client, link, zombie, buffer, row, shaken>>
  BY DEF ReadOwn, socket, history
<1> QED BY <1>2, <1>3, OthersKept

LEMMA ReadNearKept ==
  ASSUME PresenceTyped, ToggleSafe, NEW i \in DOMAIN flight, ReadNear(i)
  PROVE  ToggleSafe'
<1> DEFINE h == flight[i]
           found == FindNearby(Other(Head(h.agenda).role), h.at)
<1>1. /\ h.stage = "near"
      /\ Goes(i, Tail(h.agenda)) \/ (Replaces(i, Found(h, found)) /\ Found(h, found) \in Working)
  BY ReadNearMeans
<1>2. \A v : Carries(v)
  <2>0. Head(h.agenda).does # "write"
    BY <1>1, HandlerParts DEF Formed
  <2>1. CASE Goes(i, Tail(h.agenda))
    BY <1>1, <2>0, <2>1, SaysNoMore, GoesCarries
  <2>2. CASE Replaces(i, Found(h, found)) /\ Found(h, found) \in Working
    <3> DEFINE g == Found(h, found)
    <3>1. h \in Handler
      BY HandlerParts
    <3>2. g.who = h.who /\ g.kind = h.kind /\ g.agenda = h.agenda /\ g.stage = "emit"
      BY <3>1 DEF Handler, Found
    <3> HIDE DEF g, found
    <3> QED BY <1>1, <2>2, <3>2, StayCarries DEF g
  <2> QED BY <1>1, <2>1, <2>2
<1>3. UNCHANGED <<client, link, zombie, buffer, row, shaken>>
  BY DEF ReadNear, socket, server, history
<1> QED BY <1>2, <1>3, OthersKept

LEMMA TellKept ==
  ASSUME PresenceTyped, ToggleSafe, NEW i \in DOMAIN flight, Tell(i)
  PROVE  ToggleSafe'
<1>1. /\ flight[i].stage = "emit" /\ Goes(i, Tail(flight[i].agenda))
      /\ \A v \in Users : client'[v].is_driver = client[v].is_driver /\ client'[v].on = client[v].on
  BY TellMeans
<1>2. Head(flight[i].agenda).does # "write"
  BY <1>1, HandlerParts DEF Formed
<1>3. \A v : Carries(v)
  BY <1>1, <1>2, SaysNoMore, GoesCarries
<1>4. UNCHANGED <<link, zombie, buffer, row, shaken>>
  BY DEF Tell, socket, server
<1> QED BY <1>1, <1>3, <1>4, OthersKept

LEMMA FailKept ==
  ASSUME PresenceTyped, ToggleSafe, NEW i \in DOMAIN flight, Fail(i)
  PROVE  ToggleSafe'
<1>1. /\ shaken' = shaken \cup {flight[i].who} /\ Removes(i)
      /\ UNCHANGED <<client, link, zombie, buffer, row>> /\ flight[i].stage # "sent"
  BY DEF Fail, Shake, socket, server, Removes, Busy
<1>2. Goes(i, << >>)
  BY <1>1 DEF Goes
<1>3. \A v, r : v # flight[i].who => ~ Ev(flight[i], v, r) /\ ~ SaysStill(i, << >>, v, r)
  BY DEF Ev, SaysStill
<1>4. \A v \in Users \ shaken' : Carries(v)
  BY <1>1, <1>2, <1>3, GoesCarries
<1> QED BY <1>1, <1>4, OthersKept

LEMMA ReceiveKept ==
  ASSUME PresenceTyped, ToggleSafe, NEW i \in DOMAIN flight, Receive(i)
  PROVE  ToggleSafe'
<1> DEFINE h == flight[i]
           g == Begun(h)
<1>1. Replaces(i, g) /\ g \in Working /\ h.stage = "sent"
  BY ReceiveMeans
<1>2. /\ \A j \in 1 .. i - 1 : ~ (flight[j].who = h.who /\ flight[j].stage = "sent")
      /\ shaken' = shaken \cup { u \in {h.who} : Overlapping(u, h.kind) }
      /\ UNCHANGED <<client, link, zombie, buffer, row>>
  BY DEF Receive, Shake, socket, server
<1>3. h \in Working /\ flight \in Seq(Working)
  BY HandlerParts DEF PresenceTyped
<1>4. g.who = h.who /\ g.kind = h.kind /\ g.agenda = h.agenda /\ g.stage = "own"
  BY <1>3, BegunForm
<1> HIDE DEF g
<1>5. ASSUME NEW v \in Users \ shaken' PROVE Carries(v)
  <2>1. CASE v # h.who
    BY <1>1, <1>4, <2>1, StayCarries
  <2>2. CASE v = h.who
    <3>1. flight' = [flight EXCEPT ![i] = g]
      BY <1>1 DEF Replaces
    <3>2. flight' \in Seq(Working) /\ Swaps(flight, flight', i, g)
      BY <1>1, <1>3, <1>4, <3>1, ReplacesThins
    <3>3. DOMAIN flight' = DOMAIN flight /\ flight'[i] = g /\ \A k \in DOMAIN flight \ {i} : flight'[k] = flight[k]
      BY <3>2 DEF Swaps
    <3>4. PICK f : Thins(flight, flight', f) /\ \A k \in DOMAIN flight' : f[k] = k
      BY <3>2 DEF Swaps
    <3>5. \A r : Ev(g, v, r) <=> Ev(flight[i], v, r)
      BY <1>4 DEF Ev
    <3>6. \A r : Follows(flight, flight', f, v, r)
      BY <3>3, <3>4, <3>5 DEF Follows
    <3>7. \A r, b, now : Promises(flight, now, v, r, b) => Promises(flight', now, v, r, b)
      BY <1>3, <3>2, <3>4, <3>6, FollowsSays
    <3>8. ASSUME Orderly(flight, v) PROVE Orderly(flight', v)
      <4>1. \A j \in DOMAIN flight : j < i /\ flight[j].who = v => flight[j].stage # "sent"
        <5>1. \A j \in DOMAIN flight : j < i => j \in 1 .. i - 1
          BY <1>3
        <5> QED BY <1>2, <2>2, <5>1
      <4>2. h.kind # "position" => \A j \in DOMAIN flight : ~ Acts(flight[j], v)
        BY <1>2, <1>5, <2>2 DEF Overlapping, Busy, Acts
      <4>3. \A j, k \in DOMAIN flight' : Acts(flight'[j], v) /\ Acts(flight'[k], v) => j = k
        <5>1. CASE h.kind = "position"
          <6>1. ~ Acts(flight'[i], v)
            BY <1>4, <3>3, <5>1 DEF Acts
          <6> QED BY <3>3, <3>8, <6>1 DEF Orderly
        <5>2. CASE h.kind # "position"
          BY <3>3, <4>2, <5>2
        <5> QED BY <5>1, <5>2
      <4>4. ASSUME NEW j \in DOMAIN flight', NEW k \in DOMAIN flight', j < k, flight'[j].who = v, flight'[k].who = v, flight'[k].stage # "sent"
            PROVE  flight'[j].stage # "sent"
        <5>1. CASE j = i
          BY <1>4, <3>3, <5>1
        <5>2. CASE j # i /\ k = i
          BY <3>3, <4>1, <4>4, <5>2
        <5>3. CASE j # i /\ k # i
          BY <3>3, <3>8, <4>4, <5>3 DEF Orderly
        <5> QED BY <5>1, <5>2, <5>3
      <4> QED BY <4>3, <4>4 DEF Orderly
    <3> QED BY <3>7, <3>8 DEF Carries
  <2> QED BY <2>1, <2>2
<1> QED BY <1>2, <1>5, OthersKept

LEMMA RestartKept ==
  ASSUME PresenceTyped, ToggleSafe, Restart
  PROVE  ToggleSafe'
<1>1. /\ flight' = << >> /\ zombie' = {} /\ UNCHANGED <<buffer, row>>
      /\ link' = [u \in Users |-> IF link[u] = "out" THEN "out" ELSE "down"]
      /\ client' = [u \in Users |-> ClearStores(client[u])]
      /\ shaken' = shaken \cup zombie \cup { u \in Users : OnItsWay(u) \/ link[u] = "out" }
  BY DEF Restart, Shake
<1>2. \A v \in Users : client'[v].is_driver = client[v].is_driver /\ client'[v].on = client[v].on
  BY <1>1, RoleOfUser, StoresCleared
<1>3. \A v \in Users : OneRole(v)'
  BY <1>2, SameRoles DEF ToggleSafe
<1>4. ASSUME NEW v \in Users \ shaken' PROVE Kept(v)'
  <2>1. Kept(v) /\ v \notin zombie /\ ~ OnItsWay(v) /\ link[v] # "out" /\ link'[v] = "down"
    BY <1>1, <1>4 DEF ToggleSafe
  <2>2. Orderly(flight', v) /\ \A r, b : NoEv(flight', v, r) /\ LastSays(flight', v, r, b)
    <3>1. DOMAIN flight' = {}
      BY <1>1
    <3> QED BY <3>1 DEF Orderly, NoEv, LastSays
  <2>3. ASSUME NEW r \in Roles, ~ client[v].on[r]
        PROVE  /\ LastWord(buffer[v], r, FALSE)
               /\ Silent(buffer[v], r) => row[r][v].on = FALSE
    <3>0. client[v].on[r] = FALSE
      BY <2>3, RoleOfUser, TabParts
    <3>1. NoEv(flight, v, r) /\ Heard(v, r) /\ (link[v] # "down" => buffer[v] = << >>)
      BY <2>1, NothingOnItsWay DEF Kept
    <3>2. link[v] # "down" => LastWord(buffer[v], r, FALSE)
      BY <3>1 DEF LastWord
    <3>3. CASE link[v] = "up"
      BY <2>1, <3>0, <3>1, <3>2, <3>3 DEF Heard, Promises
    <3>4. CASE link[v] = "dead"
      BY <2>1, <3>1, <3>2, <3>4 DEF Heard, Promises
    <3>5. CASE link[v] = "down"
      BY <2>1, <2>3, <3>1, <3>5 DEF Heard, Promises
    <3> QED BY <2>1, <3>3, <3>4, <3>5 DEF PresenceTyped
  <2>4. \A r \in Roles : Heard(v, r)'
    BY <1>1, <1>2, <2>1, <2>2, <2>3 DEF Heard, Promises
  <2> QED BY <2>1, <2>2, <2>4 DEF Kept
<1> QED BY <1>3, <1>4 DEF ToggleSafe

LEMMA WriteKept ==
  ASSUME PresenceTyped, ToggleSafe, NEW i \in DOMAIN flight, Write(i)
  PROVE  ToggleSafe'
<1> DEFINE h == flight[i]
           r == Head(h.agenda).role
           s == Tail(h.agenda)
<1>1. /\ Goes(i, s) /\ r \in Roles /\ Head(h.agenda) = Do("write", r) /\ h.stage = "own"
      /\ \E w \in Row :
           /\ row' = [row EXCEPT ![r][h.who] = w]
           /\ h.kind = "join" => w.on = TRUE
           /\ h.kind = "position" => w.on = row[r][h.who].on
           /\ h.kind \in {"leave", "disconnect"} => w.on = FALSE /\ w.at = row[r][h.who].at
           /\ Blur(IF w.at # row[r][h.who].at /\ row[r][h.who].at # Nowhere
                     THEN Viewers(h.who, r) \cup {<<h.who, Other(r)>>} ELSE {})
  BY WriteMeans
<1>2. PICK w \in Row : /\ row' = [row EXCEPT ![r][h.who] = w]
                       /\ h.kind = "join" => w.on = TRUE
                       /\ h.kind = "position" => w.on = row[r][h.who].on
                       /\ h.kind \in {"leave", "disconnect"} => w.on = FALSE
  BY <1>1
<1>3. /\ h \in Working /\ h.who \in Users /\ h.agenda \in Left(h.kind) /\ flight \in Seq(Working) /\ flight' \in Seq(Working)
      /\ h.kind \in {"join", "leave", "position", "disconnect"}
  <2>1. flight' \in Seq(Working)
    BY <1>1, GoesTypes
  <2>2. h \in Handler
    BY HandlerParts
  <2> QED BY <2>1, <2>2, HandlerParts DEF PresenceTyped, Handler, Kinds
<1>4. row'[r][h.who] = w /\ \A q \in Roles, v \in Users : q # r \/ v # h.who => row'[q][v] = row[q][v]
  <2> DEFINE x == h.who
  <2>1. r \in Roles /\ x \in Users /\ row' = [row EXCEPT ![r][x] = w]
    BY <1>1, <1>2, <1>3
  <2> HIDE DEF r, x
  <2>2. row'[r][x] = w /\ \A q \in Roles, v \in Users : q # r \/ v # x => row'[q][v] = row[q][v]
    <3>1. row \in [Roles -> [Users -> Row]]
      BY DEF PresenceTyped
    <3> QED BY <2>1, <3>1
  <2> QED BY <2>2 DEF x
<1>5. UNCHANGED <<client, link, zombie, buffer, shaken>>
  BY DEF Write, socket
<1>6. \A v \in Users : OneRole(v)'
  BY <1>5 DEF ToggleSafe, OneRole, RoleOf
<1>7. PICK f : /\ Thins(flight, flight', f) /\ \A u : Staged(flight, flight', f, u)
               /\ \A u, q : (Ev(flight[i], u, q) <=> SaysStill(i, s, u, q)) => Follows(flight, flight', f, u, q)
               /\ \A u, q : ~ SaysStill(i, s, u, q) => PassesOver(flight, flight', f, i, u, q)
  BY <1>1, GoesThins
<1>8. \A j : Has(h.agenda, j) <=> (j = Do("write", r) \/ Has(s, j))
  <2> HIDE DEF h
  <2> QED BY <1>1, <1>3, Agendas
<1>9. h.kind # "position" => ~ Has(s, Do("write", r))
  <2> DEFINE first == Head(h.agenda)
  <2>1. first = Do("write", r)
    BY <1>1
  <2>2. first.does = "write"
    <3> HIDE DEF first, r
    <3> QED BY <2>1, JobParts
  <2>3. Head(h.agenda).does = "write" /\ r = Head(h.agenda).role
    BY <2>2
  <2> HIDE DEF h, first, r
  <2> QED BY <1>3, <2>3, Agendas
<1>10. \A v, q : v # h.who \/ q # r \/ h.kind = "position" => (Ev(h, v, q) <=> SaysStill(i, s, v, q))
  <2>1. \A q : Do("write", q) = Do("write", r) <=> q = r
    BY JobParts
  <2> HIDE DEF r, s
  <2> QED BY <1>8, <2>1 DEF Ev, SaysStill
<1>11. h.kind # "position" => Ev(h, h.who, r) /\ ~ SaysStill(i, s, h.who, r)
  <2> HIDE DEF r, s
  <2> QED BY <1>8, <1>9 DEF Ev, SaysStill
<1> HIDE DEF r, s
<1>12. ASSUME NEW v \in Users \ shaken' PROVE Kept(v)'
  <2>1. Kept(v)
    BY <1>5 DEF ToggleSafe
  <2>2. Orderly(flight', v)
    BY <1>3, <1>7, <2>1, FollowsOrder DEF Kept
  <2>3. ASSUME NEW q \in Roles, v # h.who \/ q # r \/ h.kind = "position"
        PROVE  /\ row'[q][v].on = row[q][v].on
               /\ \A b, now : Promises(flight, now, v, q, b) => Promises(flight', now, v, q, b)
    <3>1. Follows(flight, flight', f, v, q)
      BY <1>7, <1>10, <2>3
    <3>2. \A b, now : Promises(flight, now, v, q, b) => Promises(flight', now, v, q, b)
      BY <1>3, <1>7, <3>1, FollowsSays
    <3>3. row'[q][v].on = row[q][v].on
      <4>1. CASE v # h.who \/ q # r
        BY <1>4, <4>1
      <4>2. CASE v = h.who /\ q = r /\ h.kind = "position"
        BY <1>2, <1>4, <4>2
      <4> QED BY <2>3, <4>1, <4>2
    <3> QED BY <3>2, <3>3
  <2>4. ASSUME v = h.who, h.kind # "position", NEW b, NEW now, Promises(flight, now, v, r, b)
        PROVE  Promises(flight', row'[r][v].on, v, r, b)
    <3>1. Ev(flight[i], v, r) /\ PassesOver(flight, flight', f, i, v, r)
      BY <1>7, <1>11, <2>4
    <3>2. ASSUME NEW j \in DOMAIN flight, Ev(flight[j], v, r) PROVE j >= i
      <4>1. ASSUME j < i PROVE FALSE
        <5>1. flight[j].who = v /\ flight[i].who = v /\ flight[i].stage # "sent" /\ flight[j].kind # "position"
          BY <1>1, <2>4, <3>2 DEF Ev
        <5>2. flight[j].stage # "sent"
          BY <2>1, <4>1, <5>1 DEF Kept, Orderly
        <5>3. Acts(flight[i], v) /\ Acts(flight[j], v)
          BY <2>4, <5>1, <5>2 DEF Acts
        <5>4. i = j
          BY <2>1, <5>3 DEF Kept, Orderly
        <5> QED BY <1>3, <4>1, <5>4
      <4>2. i \in Int /\ j \in Int
        BY <1>3
      <4> QED BY <4>1, <4>2
    <3>3. LastSays(flight, v, r, b)
      BY <2>4 DEF Promises
    <3>4. LastSays(flight', v, r, b) /\ (NoEv(flight', v, r) => (flight[i].kind = "join") = b)
      BY <1>3, <1>7, <3>1, <3>2, <3>3, PassesOverSays
    <3>5. row'[r][v].on = (flight[i].kind = "join")
      <4>1. row'[r][v].on = w.on
        BY <1>4, <2>4
      <4>2. CASE h.kind = "join"
        BY <1>2, <4>1, <4>2
      <4>3. CASE h.kind \in {"leave", "disconnect"}
        BY <1>2, <4>1, <4>3
      <4> QED BY <1>3, <2>4, <4>2, <4>3
    <3> QED BY <3>4, <3>5 DEF Promises
  <2>5. ASSUME NEW q \in Roles PROVE Heard(v, q)'
    <3>1. Heard(v, q)
      BY <2>1 DEF Kept
    <3>2. \A b : Promises(flight, row[q][v].on, v, q, b) => Promises(flight', row'[q][v].on, v, q, b)
      BY <2>3, <2>4
    <3> QED BY <1>5, <3>1, <3>2 DEF Heard
  <2> QED BY <1>5, <2>1, <2>2, <2>5 DEF Kept
<1> QED BY <1>6, <1>12 DEF ToggleSafe

LEMMA QuietKept ==
  ASSUME PresenceTyped, ToggleSafe, UNCHANGED <<client, link, zombie, buffer, row, flight, shaken>>
  PROVE  ToggleSafe'
BY SameCarries, OthersKept

\* To begin with nothing is on its way and every toggle and row is off.
LEMMA InitKept == PresenceInit => ToggleSafe
<1> SUFFICES ASSUME PresenceInit PROVE ToggleSafe
  OBVIOUS
<1>1. \A u \in Users, r \in Roles : client[u].on[r] = FALSE /\ row[r][u].on = FALSE /\ link[u] = "up" /\ buffer[u] = << >>
  BY DEF PresenceInit, NewTab, Quiet, NoRow
<1>2. \A u \in Users : OneRole(u)
  BY <1>1 DEF OneRole, RoleOf, Other, Roles
<1>3. DOMAIN flight = {}
  BY DEF PresenceInit, Quiet
<1>4. \A u \in Users : Orderly(flight, u) /\ \A r \in Roles : \A b : LastSays(flight, u, r, b)
  BY <1>3 DEF Orderly, LastSays
<1>5. ASSUME NEW u \in Users, NEW r \in Roles PROVE Heard(u, r)
  <2>1. link[u] = "up" /\ row[r][u].on = client[u].on[r]
    BY <1>1
  <2>2. Promises(flight, row[r][u].on, u, r, client[u].on[r])
    BY <1>4, <2>1 DEF Promises
  <2> QED BY <2>1, <2>2 DEF Heard
<1>6. \A u \in Users : Kept(u)
  <2>1. \A u \in Users : buffer[u] = << >>
    BY DEF PresenceInit, Quiet
  <2> QED BY <2>1, <1>4, <1>5 DEF Kept
<1> QED BY <1>2, <1>6 DEF ToggleSafe

LEMMA NextKept == PresenceTyped /\ ToggleSafe /\ [PresenceNext]_presence_vars => ToggleSafe'
<1> SUFFICES ASSUME PresenceTyped, ToggleSafe, [PresenceNext]_presence_vars PROVE ToggleSafe'
  OBVIOUS
<1>1. CASE UNCHANGED presence_vars
  BY <1>1, QuietKept DEF presence_vars, socket, server, history
<1>2. ASSUME NEW u \in Users, Turns(u) PROVE ToggleSafe'
  <2>1. CASE Speaking(u)
    BY <2>1, SpeakingSays, SaysKept
  <2>2. CASE DropOff(u)
    BY <2>2, QuietKept DEF DropOff, socket, history
  <2> QED BY <1>2, <2>1, <2>2, NavigateKept, BreakKept, NoticeKept, ReconnectKept, LogoutKept, LoginKept,
       DisconnectKept, PickupKept DEF Turns
<1>3. ASSUME NEW i \in DOMAIN flight, Works(i) PROVE ToggleSafe'
  BY <1>3, ReceiveKept, WriteKept, RecordKept, ReadOwnKept, ReadNearKept, TellKept, FailKept DEF Works
<1>4. CASE TimePasses
  BY <1>4, QuietKept DEF TimePasses, socket, history
<1> QED BY <1>1, <1>2, <1>3, <1>4, NextMeans, RestartKept

\* With nothing left on its way, the row already says what the toggle says.
LEMMA SafeToggles == PresenceTyped /\ ToggleSafe => ToggleMatchesRow
<1> SUFFICES ASSUME PresenceTyped, ToggleSafe, NEW u \in Users \ shaken, Settled(u), NEW r \in Roles
             PROVE  row[r][u].on = client[u].on[r]
  BY DEF ToggleMatchesRow
<1>1. link[u] = "up" /\ u \notin zombie /\ NoEv(flight, u, r)
  BY NothingOnItsWay DEF Settled
<1>2. Heard(u, r)
  BY DEF ToggleSafe, Kept
<1> QED BY <1>1, <1>2 DEF Heard, Promises

\* ToggleMatchesRow for every number of users, messages and events: once all that
\* a connected user sent is handled, the gateway has him online or waiting exactly
\* when his toggle says so, whatever connections and servers died in between, but
\* for the users Shake names.
THEOREM ToggleMatches == PresenceSpec => []ToggleMatchesRow
<1>1. PresenceSpec => [](PresenceTyped /\ ToggleSafe)
  <2>1. PresenceInit => PresenceTyped /\ ToggleSafe
    BY InitTyped, InitKept
  <2>2. PresenceTyped /\ ToggleSafe /\ [PresenceNext]_presence_vars => (PresenceTyped /\ ToggleSafe)'
    BY NextTyped, NextKept
  <2> QED BY <2>1, <2>2, PTL DEF PresenceSpec
<1> QED BY <1>1, SafeToggles, PTL

\* What an agenda of each kind has still to do.
LEMMA AgendaGoals ==
  ASSUME NEW kind, NEW s \in Left(kind)
  PROVE  /\ kind = "join" /\ Tail(s) # << >> => Head(Tail(s)).role = Head(s).role
         /\ kind = "join" /\ Head(s).does = "write" => Has(Tail(s), Do("snapshot", Head(s).role))
         /\ kind \in {"leave", "disconnect"} /\ Head(s).does = "write" => Has(Tail(s), Do("removed", Head(s).role))
         /\ \A q : Has(s, Do("removed", q)) => kind \in {"leave", "disconnect"}
         /\ \A q : Has(s, Do("snapshot", q)) => kind = "join"
<1> DEFINE Goal ==
         /\ kind = "join" /\ Tail(s) # << >> => Head(Tail(s)).role = Head(s).role
         /\ kind = "join" /\ Head(s).does = "write" => Has(Tail(s), Do("snapshot", Head(s).role))
         /\ kind \in {"leave", "disconnect"} /\ Head(s).does = "write" => Has(Tail(s), Do("removed", Head(s).role))
         /\ \A q : Has(s, Do("removed", q)) => kind \in {"leave", "disconnect"}
         /\ \A q : Has(s, Do("snapshot", q)) => kind = "join"
<1>1. ASSUME kind = "join", NEW r \in Roles, s \in JoinLeft(r) PROVE Goal
  <2>1. Do("write", r) \in Job /\ Do("broadcast", r) \in Job /\ Do("snapshot", r) \in Job
    BY Jobs DEF Routines
  <2>2. CASE s = << Do("write", r), Do("broadcast", r), Do("snapshot", r) >>
    <3> DEFINE t == << Do("broadcast", r), Do("snapshot", r) >>
    <3>1. Head(s) = Do("write", r) /\ Tail(s) = t /\ \A j : Has(s, j) <=> j \in { Do("write", r), Do("broadcast", r), Do("snapshot", r) }
      BY <2>1, <2>2, List3
    <3>2. Head(t) = Do("broadcast", r) /\ \A j : Has(t, j) <=> j \in { Do("broadcast", r), Do("snapshot", r) }
      BY <2>1, List2
    <3> HIDE DEF t
    <3>3. \A q : ~ Has(s, Do("removed", q))
      BY <3>1, JobParts
    <3>4. Head(s).does = "write" /\ Head(s).role = r /\ Head(t).role = r
      BY <3>1, <3>2, JobParts
    <3>5. Has(t, Do("snapshot", r))
      BY <3>2
    <3> QED BY <1>1, <3>1, <3>3, <3>4, <3>5
  <2>3. CASE s = << Do("broadcast", r), Do("snapshot", r) >>
    <3> DEFINE t == << Do("snapshot", r) >>
    <3>1. Head(s) = Do("broadcast", r) /\ Tail(s) = t /\ \A j : Has(s, j) <=> j \in { Do("broadcast", r), Do("snapshot", r) }
      BY <2>1, <2>3, List2
    <3>2. Head(t) = Do("snapshot", r)
      BY <2>1, List1
    <3> HIDE DEF t
    <3>3. \A q : ~ Has(s, Do("removed", q))
      BY <3>1, JobParts
    <3>4. Head(s).does = "broadcast" /\ Head(s).role = r /\ Head(t).role = r
      BY <3>1, <3>2, JobParts
    <3> QED BY <1>1, <3>1, <3>3, <3>4
  <2>4. CASE s = << Do("snapshot", r) >>
    <3>1. Head(s) = Do("snapshot", r) /\ Tail(s) = << >> /\ \A j : Has(s, j) <=> j \in { Do("snapshot", r) }
      BY <2>1, <2>4, List1
    <3>3. \A q : ~ Has(s, Do("removed", q))
      BY <3>1, JobParts
    <3>4. Head(s).does = "snapshot"
      BY <3>1, JobParts
    <3> QED BY <1>1, <3>1, <3>3, <3>4
  <2> QED BY <1>1, <2>2, <2>3, <2>4 DEF JoinLeft
<1>2. ASSUME kind = "leave", NEW r \in Roles, s \in LeaveLeft(r) PROVE Goal
  <2>1. Do("write", r) \in Job /\ Do("removed", r) \in Job
    BY Jobs DEF Routines
  <2>2. CASE s = << Do("write", r), Do("removed", r) >>
    <3> DEFINE t == << Do("removed", r) >>
    <3>1. Head(s) = Do("write", r) /\ Tail(s) = t /\ \A j : Has(s, j) <=> j \in { Do("write", r), Do("removed", r) }
      BY <2>1, <2>2, List2
    <3>2. \A j : Has(t, j) <=> j \in { Do("removed", r) }
      BY <2>1, List1
    <3> HIDE DEF t
    <3>3. \A q : ~ Has(s, Do("snapshot", q))
      BY <3>1, JobParts
    <3>4. Head(s).does = "write" /\ Head(s).role = r
      BY <3>1, JobParts
    <3>5. Has(t, Do("removed", r))
      BY <3>2
    <3> QED BY <1>2, <3>1, <3>3, <3>4, <3>5
  <2>3. CASE s = << Do("removed", r) >>
    <3>1. Head(s) = Do("removed", r) /\ \A j : Has(s, j) <=> j \in { Do("removed", r) }
      BY <2>1, <2>3, List1
    <3>3. \A q : ~ Has(s, Do("snapshot", q))
      BY <3>1, JobParts
    <3>4. Head(s).does = "removed"
      BY <3>1, JobParts
    <3> QED BY <1>2, <3>1, <3>3, <3>4
  <2> QED BY <1>2, <2>2, <2>3 DEF LeaveLeft
<1>3. ASSUME kind = "position", s \in MoveLeft PROVE Goal
  <2>1. /\ Do("write", "driver") \in Job /\ Do("broadcast", "driver") \in Job /\ Do("write", "passenger") \in Job
        /\ Do("record", "passenger") \in Job /\ Do("broadcast", "passenger") \in Job
    BY Jobs DEF Routines, Roles
  <2>2. \A j : Has(s, j) => j \in { Do("write", "driver"), Do("broadcast", "driver"), Do("write", "passenger"), Do("record", "passenger"), Do("broadcast", "passenger") }
    <3>1. CASE s = << Do("write", "driver"), Do("broadcast", "driver") >>
      <4>1. \A j : Has(<< Do("write", "driver"), Do("broadcast", "driver") >>, j) <=> j \in { Do("write", "driver"), Do("broadcast", "driver") }
        BY <2>1, List2
      <4> QED BY <3>1, <4>1
    <3>2. CASE s = << Do("broadcast", "driver") >>
      BY <2>1, <3>2, List1
    <3>3. CASE s = << Do("write", "passenger"), Do("record", "passenger") >>
      <4>1. \A j : Has(<< Do("write", "passenger"), Do("record", "passenger") >>, j) <=> j \in { Do("write", "passenger"), Do("record", "passenger") }
        BY <2>1, List2
      <4> QED BY <3>3, <4>1
    <3>4. CASE s = << Do("record", "passenger") >>
      BY <2>1, <3>4, List1
    <3>5. CASE s = << Do("broadcast", "passenger") >>
      BY <2>1, <3>5, List1
    <3> QED BY <1>3, <3>1, <3>2, <3>3, <3>4, <3>5 DEF MoveLeft
  <2>3. \A q : ~ Has(s, Do("snapshot", q)) /\ ~ Has(s, Do("removed", q))
    BY <2>2, JobParts
  <2> QED BY <1>3, <2>3
<1>4. ASSUME kind = "disconnect", s \in CleanupLeft PROVE Goal
  <2>1. /\ Do("write", "driver") \in Job /\ Do("write", "passenger") \in Job
        /\ Do("removed", "driver") \in Job /\ Do("removed", "passenger") \in Job
    BY Jobs DEF Routines, Roles
  <2> DEFINE gone == << Do("removed", "driver"), Do("removed", "passenger") >>
             more == << Do("write", "passenger"), Do("removed", "driver"), Do("removed", "passenger") >>
  <2>2. \A j : Has(gone, j) <=> j \in { Do("removed", "driver"), Do("removed", "passenger") }
    BY <2>1, List2
  <2>3. /\ Head(more) = Do("write", "passenger") /\ Tail(more) = gone
        /\ \A j : Has(more, j) <=> j \in { Do("write", "passenger"), Do("removed", "driver"), Do("removed", "passenger") }
    BY <2>1, List3
  <2>4. CASE s = << Do("write", "driver"), Do("write", "passenger"), Do("removed", "driver"), Do("removed", "passenger") >>
    <3>1. /\ Head(s) = Do("write", "driver") /\ Tail(s) = more
          /\ \A j : Has(s, j) <=> j \in { Do("write", "driver"), Do("write", "passenger"), Do("removed", "driver"), Do("removed", "passenger") }
      BY <2>1, <2>4, List4
    <3> HIDE DEF more, gone
    <3>2. \A q : ~ Has(s, Do("snapshot", q))
      BY <3>1, JobParts
    <3>3. Head(s).does = "write" /\ Head(s).role = "driver"
      BY <3>1, JobParts
    <3>4. Has(more, Do("removed", "driver"))
      BY <2>3
    <3> QED BY <1>4, <3>1, <3>2, <3>3, <3>4
  <2>5. CASE s = more
    <3> HIDE DEF more, gone
    <3>2. \A q : ~ Has(s, Do("snapshot", q))
      BY <2>3, <2>5, JobParts
    <3>3. Head(s).does = "write" /\ Head(s).role = "passenger"
      BY <2>3, <2>5, JobParts
    <3>4. Has(gone, Do("removed", "passenger"))
      BY <2>2
    <3> QED BY <1>4, <2>3, <2>5, <3>2, <3>3, <3>4
  <2>6. CASE s = gone
    <3>1. Head(gone) = Do("removed", "driver")
      BY <2>1, List2
    <3> HIDE DEF more, gone
    <3>2. \A q : ~ Has(s, Do("snapshot", q))
      BY <2>2, <2>6, JobParts
    <3>3. Head(s).does = "removed"
      BY <2>6, <3>1, JobParts
    <3> QED BY <1>4, <3>2, <3>3
  <2>7. CASE s = << Do("removed", "passenger") >>
    <3>1. Head(s) = Do("removed", "passenger") /\ \A j : Has(s, j) <=> j \in { Do("removed", "passenger") }
      BY <2>1, <2>7, List1
    <3>2. \A q : ~ Has(s, Do("snapshot", q))
      BY <3>1, JobParts
    <3>3. Head(s).does = "removed"
      BY <3>1, JobParts
    <3> QED BY <1>4, <3>2, <3>3
  <2> QED BY <1>4, <2>4, <2>5, <2>6, <2>7 DEF CleanupLeft, Cleanup
<1> QED BY <1>1, <1>2, <1>3, <1>4 DEF Left

-----------------------------------------------------------------------------
(* What the map of a connected user shows.                                 *)
\* The handler h will send v a snapshot of the role r.
Refreshes(h, v, r) == h.who = v /\ h.kind = "join" /\ Has(h.agenda, Do("snapshot", Other(r)))
\* The handler h will tell v that u has left the role r.
Retires(h, u, r, v) ==
  /\ h.who = u /\ Has(h.agenda, Do("removed", r))
  /\ h.stage = "emit" /\ Head(h.agenda) = Do("removed", r) => v \in h.found
Refreshing(v, r) == \E i \in Busy : Refreshes(flight[i], v, r)
Leaving(u, r, v) == \E i \in Busy : Retires(flight[i], u, r, v)

\* What the handler h has read is still what the rows say.
Current(h) ==
  LET role == Head(h.agenda).role IN
    /\ h.stage \in {"near", "emit"} => h.at = row[role][h.who].at
    /\ h.stage = "emit" => h.found = FindNearby(Other(role), h.at)
    /\ h.stage \in {"near", "emit"} /\ Head(h.agenda).does = "broadcast" => row[role][h.who].on
    /\ h.kind = "join" /\ Head(h.agenda).does # "write" => row[role][h.who].on

\* Those whom v sees are on his way, and there, or about to be taken away.
Sees(v, r) ==
  \A u \in client[v].store[r] : row[r][u].at = row[Other(r)][v].at /\ (row[r][u].on \/ Leaving(u, r, v))
Fresh(v, r) ==
  link[v] = "up" /\ row[Other(r)][v].on /\ <<v, r>> \notin blurred /\ ~ Refreshing(v, r) => Sees(v, r)
Sharp ==
  /\ \A i, j \in Busy : i = j
  /\ \A i \in Busy : Current(flight[i])
  /\ \A v \in Users, r \in Roles : Fresh(v, r)
Unseen == \A v \in Users, r \in Roles : link[v] \in {"down", "out"} => client[v].store[r] = {}
MapSafe == Unseen /\ (blurred = Stores \/ Sharp)

\* The same handlers are at work.
SameWork ==
  \E f \in [Busy' -> Busy] :
    /\ \A k \in Busy' : flight'[k] = flight[f[k]]
    /\ \A j, k \in Busy' : f[j] = f[k] => j = k
    /\ \A i \in Busy : \E k \in Busy' : f[k] = i

\* What the same handlers at work over the same rows will tell.
LEMMA WorkGoesOn ==
  ASSUME SameWork, row' = row
  PROVE  /\ \A v, r : Refreshing(v, r)' <=> Refreshing(v, r)
         /\ \A u, r, v : Leaving(u, r, v)' <=> Leaving(u, r, v)
         /\ (\A i, j \in Busy : i = j) => (\A i, j \in Busy' : i = j)
         /\ (\A i \in Busy : Current(flight[i])) => (\A i \in Busy' : Current(flight[i])')
<1>1. PICK f \in [Busy' -> Busy] : /\ \A k \in Busy' : flight'[k] = flight[f[k]]
                                   /\ \A j, k \in Busy' : f[j] = f[k] => j = k
                                   /\ \A i \in Busy : \E k \in Busy' : f[k] = i
  BY DEF SameWork
<1>2. \A k \in Busy' : f[k] \in Busy
  BY <1>1
<1>3. \A v, r : Refreshing(v, r)' <=> Refreshing(v, r)
  BY <1>1, <1>2 DEF Refreshing, Refreshes
<1>4. \A u, r, v : Leaving(u, r, v)' <=> Leaving(u, r, v)
  BY <1>1, <1>2 DEF Leaving, Retires
<1>5. (\A i, j \in Busy : i = j) => (\A i, j \in Busy' : i = j)
  BY <1>1, <1>2
<1>6. ASSUME \A i \in Busy : Current(flight[i]), NEW k \in Busy' PROVE Current(flight[k])'
  <2>1. Current(flight[f[k]]) /\ flight'[k] = flight[f[k]]
    BY <1>1, <1>2, <1>6
  <2> DEFINE h == flight[f[k]]
  <2>2. Current(h) /\ flight'[k] = h
    BY <2>1
  <2> HIDE DEF h
  <2> QED BY <2>2 DEF Current, FindNearby
<1> QED BY <1>3, <1>4, <1>5, <1>6

\* A step that only takes people off the maps.
LEMMA TakenOff ==
  ASSUME MapSafe, SameWork, row' = row, blurred' = blurred,
         \A v \in Users, r \in Roles :
           /\ link'[v] \in {"down", "out"} => client'[v].store[r] = {}
           /\ client'[v].store[r] = {} \/ (client'[v].store[r] = client[v].store[r] /\ (link'[v] = "up" => link[v] = "up"))
  PROVE  MapSafe'
<1>1. Unseen'
  BY DEF Unseen
<1>2. ASSUME Sharp PROVE Sharp'
  <2>1. /\ \A i, j \in Busy' : i = j
        /\ \A i \in Busy' : Current(flight[i])'
        /\ \A v, r : Refreshing(v, r)' <=> Refreshing(v, r)
        /\ \A u, r, v : Leaving(u, r, v)' <=> Leaving(u, r, v)
    BY <1>2, WorkGoesOn DEF Sharp
  <2>2. ASSUME NEW v \in Users, NEW r \in Roles PROVE Fresh(v, r)'
    <3>1. CASE client'[v].store[r] = {}
      BY <3>1 DEF Fresh, Sees
    <3>2. CASE client'[v].store[r] = client[v].store[r] /\ (link'[v] = "up" => link[v] = "up")
      <4>1. Fresh(v, r)
        BY <1>2 DEF Sharp
      <4>2. Sees(v, r) => Sees(v, r)'
        BY <2>1, <3>2 DEF Sees
      <4> QED BY <2>1, <3>2, <4>1, <4>2 DEF Fresh
    <3> QED BY <3>1, <3>2
  <2> QED BY <2>1, <2>2 DEF Sharp
<1>3. blurred = Stores => (blurred = Stores)'
  BY DEF Stores
<1> QED BY <1>1, <1>2, <1>3 DEF MapSafe

LEMMA SameFlight == flight' = flight => SameWork
<1> SUFFICES ASSUME flight' = flight PROVE SameWork
  OBVIOUS
<1>1. Busy' = Busy
  BY DEF Busy
<1> DEFINE f == [k \in Busy |-> k]
<1>2. f \in [Busy' -> Busy] /\ \A k \in Busy : f[k] = k
  BY <1>1
<1> HIDE DEF f
<1> QED BY <1>1, <1>2 DEF SameWork

\* Messages on their way are not at work.
LEMMA SentWork ==
  ASSUME PresenceTyped, NEW u \in Users, NEW ms \in Seq(Spoken), flight' = flight \o Sent(u, ms)
  PROVE  SameWork
<1> DEFINE e == Sent(u, ms)
<1>1. e \in Seq(Working) /\ (\A i \in DOMAIN e : e[i].stage = "sent") /\ flight \in Seq(Working) /\ flight' = flight \o e
  BY SentForm DEF PresenceTyped
<1> HIDE DEF e
<1>2. /\ Len(flight) \in Nat
      /\ \A k \in DOMAIN flight : k \in DOMAIN flight' /\ flight'[k] = flight[k]
      /\ \A k \in DOMAIN e : Len(flight) + k \in DOMAIN flight' /\ flight'[Len(flight) + k] = e[k]
      /\ \A k \in DOMAIN flight' : k \in DOMAIN flight \/ (k - Len(flight) \in DOMAIN e /\ k = Len(flight) + (k - Len(flight)))
  BY <1>1, Concatenated
<1>3. \A k \in DOMAIN flight' : flight'[k].stage # "sent" => k \in DOMAIN flight
  BY <1>1, <1>2
<1>4. Busy' = Busy
  <2>1. ASSUME NEW k \in Busy PROVE k \in Busy'
    BY <1>2, <2>1 DEF Busy
  <2>2. ASSUME NEW k \in Busy' PROVE k \in Busy
    <3>1. k \in DOMAIN flight' /\ flight'[k].stage # "sent"
      BY DEF Busy
    <3>2. k \in DOMAIN flight
      BY <1>3, <3>1
    <3> QED BY <1>2, <3>1, <3>2 DEF Busy
  <2> QED BY <2>1, <2>2
<1> DEFINE f == [k \in Busy |-> k]
<1>5. f \in [Busy' -> Busy] /\ \A k \in Busy : f[k] = k
  BY <1>4
<1> HIDE DEF f
<1>6. \A k \in Busy : flight'[k] = flight[k]
  BY <1>2 DEF Busy
<1>7. \A k \in Busy' : flight'[k] = flight[f[k]]
  BY <1>4, <1>5, <1>6
<1>8. f \in [Busy' -> Busy] /\ (\A j, k \in Busy' : f[j] = f[k] => j = k) /\ \A i \in Busy : \E k \in Busy' : f[k] = i
  BY <1>4, <1>5
<1> QED BY <1>7, <1>8 DEF SameWork
-----------------------------------------------------------------------------
(* The steps of a user, and the maps.                                      *)
LEMMA SaysMap ==
  ASSUME PresenceTyped, MapSafe, NEW u \in Users, NEW ms \in Seq(Spoken), NEW tab \in Tab, Says(u, ms, tab)
  PROVE  MapSafe'
<1>1. /\ client' = [client EXCEPT ![u] = tab] /\ link' = link /\ row' = row /\ blurred' = blurred
      /\ \A r \in Roles : tab.store[r] = client[u].store[r] \/ tab.store[r] = {}
  BY DEF Says, server
<1>2. flight' = flight \/ flight' = flight \o Sent(u, ms)
  BY DEF Says, Emit
<1>3. SameWork
  BY <1>2, SameFlight, SentWork
<1>4. client'[u] = tab /\ \A v \in Users : v # u => client'[v] = client[v]
  BY <1>1 DEF PresenceTyped
<1>5. ASSUME NEW v \in Users, NEW r \in Roles
      PROVE  client'[v].store[r] = {} \/ client'[v].store[r] = client[v].store[r]
  BY <1>1, <1>4
<1>6. \A v \in Users, r \in Roles :
        /\ link'[v] \in {"down", "out"} => client'[v].store[r] = {}
        /\ client'[v].store[r] = {} \/ (client'[v].store[r] = client[v].store[r] /\ (link'[v] = "up" => link[v] = "up"))
  BY <1>1, <1>5 DEF MapSafe, Unseen
<1> QED BY <1>1, <1>3, <1>6, TakenOff

\* A step that changes no store, no socket and no handler.
LEMMA SameMap ==
  ASSUME MapSafe, SameWork, row' = row, blurred' = blurred, link' = link,
         \A v \in Users : client'[v].store = client[v].store
  PROVE  MapSafe'
<1>1. \A v \in Users, r \in Roles :
        /\ link'[v] \in {"down", "out"} => client'[v].store[r] = {}
        /\ client'[v].store[r] = {} \/ (client'[v].store[r] = client[v].store[r] /\ (link'[v] = "up" => link[v] = "up"))
  BY DEF MapSafe, Unseen
<1> QED BY <1>1, TakenOff

\* The steps that neither the rows nor the handlers feel.
LEMMA NavigateMap ==
  ASSUME PresenceTyped, MapSafe, NEW u \in Users, Navigate(u) \/ ForgetPosition(u)
  PROVE  MapSafe'
<1>1. PICK tab \in Tab : /\ client' = [client EXCEPT ![u] = tab] /\ tab.store = client[u].store
                         /\ UNCHANGED <<socket, server, flight, blurred>>
  BY NavigateMeans
<1>2. \A v \in Users : client'[v].store = client[v].store
  BY <1>1 DEF PresenceTyped
<1> QED BY <1>1, <1>2, SameFlight, SameMap DEF socket, server

LEMMA DropOffMap ==
  ASSUME MapSafe, NEW u \in Users, DropOff(u)
  PROVE  MapSafe'
BY SameFlight, SameMap DEF DropOff, socket, history

LEMMA TimePassesMap ==
  ASSUME MapSafe, TimePasses
  PROVE  MapSafe'
BY SameFlight, SameMap DEF TimePasses, socket, history

LEMMA StillMap ==
  ASSUME MapSafe, UNCHANGED presence_vars
  PROVE  MapSafe'
BY SameFlight, SameMap DEF presence_vars, socket, server, history

LEMMA BreakMap ==
  ASSUME PresenceTyped, MapSafe, NEW u \in Users, Break(u)
  PROVE  MapSafe'
<1>1. /\ link[u] = "up" /\ link' = [link EXCEPT ![u] = "dead"] /\ UNCHANGED <<client, row, blurred>>
      /\ \E n \in 0 .. Len(flight) : \E o \in InOrder(DOMAIN flight \ Lost(u, n)) : flight' = [k \in DOMAIN o |-> flight[o[k]]]
  BY DEF Break, server
<1>2. PICK n \in 0 .. Len(flight) : \E o \in InOrder(DOMAIN flight \ Lost(u, n)) : flight' = [k \in DOMAIN o |-> flight[o[k]]]
  BY <1>1
<1>3. PICK o \in InOrder(DOMAIN flight \ Lost(u, n)) : flight' = [k \in DOMAIN o |-> flight[o[k]]]
  BY <1>2
<1>4. /\ DOMAIN flight' = DOMAIN o /\ o \in [DOMAIN flight' -> DOMAIN flight]
      /\ \A j, k \in DOMAIN flight' : j < k => o[j] < o[k]
      /\ \A k \in DOMAIN flight' : flight'[k] = flight[o[k]]
      /\ \A i \in DOMAIN flight : i \notin Lost(u, n) => \E k \in DOMAIN flight' : o[k] = i
      /\ flight' \in Seq(Working)
  BY <1>3, BreakKeeps
<1>5. SameWork
  <2>1. \A k \in Busy' : k \in DOMAIN flight' /\ flight'[k] = flight[o[k]] /\ o[k] \in Busy
    BY <1>4 DEF Busy
  <2> DEFINE f == [k \in Busy' |-> o[k]]
  <2>2. f \in [Busy' -> Busy] /\ \A k \in Busy' : f[k] = o[k]
    BY <2>1
  <2> HIDE DEF f
  <2>3. ASSUME NEW j \in Busy', NEW k \in Busy', f[j] = f[k] PROVE j = k
    <3>1. j \in DOMAIN flight' /\ k \in DOMAIN flight' /\ o[j] = o[k] /\ o[j] \in DOMAIN flight
      BY <1>4, <2>1, <2>2, <2>3
    <3>2. j \in Int /\ k \in Int /\ o[j] \in Int
      <4>1. flight' \in Seq(Working) /\ flight \in Seq(Working)
        BY <1>4 DEF PresenceTyped
      <4> QED BY <3>1, <4>1
    <3>3. ~ (j < k) /\ ~ (k < j)
      BY <1>4, <3>1, <3>2
    <3> QED BY <3>2, <3>3
  <2>4. ASSUME NEW i \in Busy PROVE \E k \in Busy' : f[k] = i
    <3>1. i \in DOMAIN flight /\ flight[i].stage # "sent" /\ i \notin Lost(u, n)
      BY DEF Busy, Lost
    <3>2. PICK k \in DOMAIN flight' : o[k] = i
      BY <1>4, <3>1
    <3>3. k \in Busy'
      BY <1>4, <3>1, <3>2 DEF Busy
    <3> QED BY <2>2, <3>2, <3>3
  <2>5. \A k \in Busy' : flight'[k] = flight[f[k]]
    BY <2>1, <2>2
  <2> QED BY <2>2, <2>3, <2>4, <2>5 DEF SameWork
<1>6. \A v \in Users : (link'[v] \in {"down", "out"} => link[v] \in {"down", "out"}) /\ (link'[v] = "up" => link[v] = "up")
  BY <1>1 DEF PresenceTyped
<1>7. \A v \in Users, r \in Roles :
        /\ link'[v] \in {"down", "out"} => client'[v].store[r] = {}
        /\ client'[v].store[r] = {} \/ (client'[v].store[r] = client[v].store[r] /\ (link'[v] = "up" => link[v] = "up"))
  BY <1>1, <1>6 DEF MapSafe, Unseen
<1> QED BY <1>1, <1>5, <1>7, TakenOff

\* The tab of u forgets what it saw.
LEMMA ForgetsMap ==
  ASSUME PresenceTyped, MapSafe, SameWork, row' = row, blurred' = blurred, NEW u \in Users, NEW tab \in Tab,
         client' = [client EXCEPT ![u] = tab], \A r \in Roles : tab.store[r] = {},
         \A v \in Users : v # u => link'[v] = link[v]
  PROVE  MapSafe'
<1>1. client'[u] = tab /\ \A v \in Users : v # u => client'[v] = client[v]
  BY DEF PresenceTyped
<1>2. ASSUME NEW v \in Users, NEW r \in Roles
      PROVE  /\ link'[v] \in {"down", "out"} => client'[v].store[r] = {}
             /\ client'[v].store[r] = {} \/ (client'[v].store[r] = client[v].store[r] /\ (link'[v] = "up" => link[v] = "up"))
  <2>1. CASE v = u
    BY <1>1, <2>1
  <2>2. CASE v # u
    BY <1>1, <2>2 DEF MapSafe, Unseen
  <2> QED BY <2>1, <2>2
<1> QED BY <1>2, TakenOff

LEMMA NoticeMap ==
  ASSUME PresenceTyped, MapSafe, NEW u \in Users, Notice(u)
  PROVE  MapSafe'
<1> DEFINE tab == ClearStores(client[u])
<1>1. /\ client' = [client EXCEPT ![u] = tab] /\ link' = [link EXCEPT ![u] = "down"]
      /\ UNCHANGED <<row, flight, blurred>>
  BY DEF Notice, server, history
<1>2. tab \in Tab /\ \A r \in Roles : tab.store[r] = {}
  BY StoresCleared DEF PresenceTyped
<1> HIDE DEF tab
<1>3. \A v \in Users : v # u => link'[v] = link[v]
  BY <1>1 DEF PresenceTyped
<1> QED BY <1>1, <1>2, <1>3, SameFlight, ForgetsMap

LEMMA LogoutMap ==
  ASSUME PresenceTyped, MapSafe, NEW u \in Users, Logout(u)
  PROVE  MapSafe'
<1> DEFINE tab == LoggedOut(client[u])
<1>1. /\ client' = [client EXCEPT ![u] = tab] /\ link' = [link EXCEPT ![u] = "out"]
      /\ UNCHANGED <<row, flight, blurred>>
  BY LogoutTypes DEF Logout, server
<1>2. tab \in Tab /\ \A r \in Roles : tab.store[r] = {}
  BY LoggedOutTab DEF PresenceTyped
<1> HIDE DEF tab
<1>3. \A v \in Users : v # u => link'[v] = link[v]
  BY <1>1 DEF PresenceTyped
<1> QED BY <1>1, <1>2, <1>3, SameFlight, ForgetsMap

\* The socket of u changes, and he saw nothing.
LEMMA BlindMap ==
  ASSUME PresenceTyped, MapSafe, SameWork, row' = row, blurred' = blurred, client' = client, NEW u \in Users,
         link[u] \in {"down", "out"}, \A v \in Users : v # u => link'[v] = link[v]
  PROVE  MapSafe'
<1>1. ASSUME NEW v \in Users, NEW r \in Roles
      PROVE  /\ link'[v] \in {"down", "out"} => client'[v].store[r] = {}
             /\ client'[v].store[r] = {} \/ (client'[v].store[r] = client[v].store[r] /\ (link'[v] = "up" => link[v] = "up"))
  <2>1. CASE v = u
    BY <2>1 DEF MapSafe, Unseen
  <2>2. CASE v # u
    BY <2>2 DEF MapSafe, Unseen
  <2> QED BY <2>1, <2>2
<1> QED BY <1>1, TakenOff

LEMMA ReconnectMap ==
  ASSUME PresenceTyped, MapSafe, NEW u \in Users, Reconnect(u)
  PROVE  MapSafe'
<1> DEFINE ms == buffer[u] \o Resync(u)
<1>1. /\ link[u] = "down" /\ link' = [link EXCEPT ![u] = "up"] /\ flight' = flight \o Sent(u, ms)
      /\ UNCHANGED <<client, row, blurred>>
  BY DEF Reconnect, server
<1>2. ms \in Seq(Spoken)
  BY ResyncSays
<1> HIDE DEF ms
<1>3. SameWork
  BY <1>1, <1>2, SentWork
<1>4. \A v \in Users : v # u => link'[v] = link[v]
  BY <1>1 DEF PresenceTyped
<1> QED BY <1>1, <1>3, <1>4, BlindMap

LEMMA LoginMap ==
  ASSUME PresenceTyped, MapSafe, NEW u \in Users, Login(u)
  PROVE  MapSafe'
<1>1. link[u] = "out" /\ link' = [link EXCEPT ![u] = "down"] /\ UNCHANGED <<client, row, flight, blurred>>
  BY DEF Login, server
<1>2. \A v \in Users : v # u => link'[v] = link[v]
  BY <1>1 DEF PresenceTyped
<1> QED BY <1>1, <1>2, SameFlight, BlindMap
-----------------------------------------------------------------------------
(* One handler at work.                                                    *)
LEMMA AloneGoes ==
  ASSUME PresenceTyped, NEW i \in DOMAIN flight, Busy = {i}, NEW s, Goes(i, s)
  PROVE  \/ s = << >> /\ Busy' = {}
         \/ s # << >> /\ Busy' = {i} /\ flight'[i] = Ahead(flight[i], s)
<1>1. flight \in Seq(Working) /\ i \in Nat
  BY DEF PresenceTyped
<1>2. CASE s = << >> /\ Removes(i)
  <2>1. \A k \in DOMAIN flight' : flight'[k] = flight[Was(i, k)] /\ Was(i, k) \in DOMAIN flight
    BY <1>1, <1>2, OneRemoved DEF Removes
  <2>2. ASSUME NEW k \in Busy' PROVE FALSE
    <3>1. k \in DOMAIN flight' /\ flight'[k].stage # "sent"
      BY DEF Busy
    <3>2. Was(i, k) \in Busy
      BY <2>1, <3>1 DEF Busy
    <3>3. flight' \in Seq(Working)
      BY <1>1, <1>2, OneRemoved DEF Removes
    <3>4. k \in Int
      BY <3>1, <3>3
    <3>5. Was(i, k) # i
      BY <1>1, <3>4 DEF Was
    <3> QED BY <3>2, <3>5
  <2> QED BY <1>2, <2>2
<1>3. CASE s # << >> /\ Replaces(i, Ahead(flight[i], s)) /\ Ahead(flight[i], s) \in Working
  <2> DEFINE g == Ahead(flight[i], s)
  <2>1. g \in Working /\ g.stage = "own"
    BY <1>1, <1>3, AheadParts
  <2>2. flight' = [flight EXCEPT ![i] = g]
    BY <1>3 DEF Replaces
  <2> HIDE DEF g
  <2>3. DOMAIN flight' = DOMAIN flight /\ flight'[i] = g /\ \A k \in DOMAIN flight \ {i} : flight'[k] = flight[k]
    BY <1>1, <2>1, <2>2, OneReplaced
  <2>4. Busy' = {i}
    BY <2>1, <2>3 DEF Busy
  <2> QED BY <1>3, <2>3, <2>4 DEF g
<1> QED BY <1>2, <1>3 DEF Goes

\* It goes on with s.
LEMMA GoesWork ==
  ASSUME PresenceTyped, NEW i \in DOMAIN flight, Busy = {i}, NEW s, Goes(i, s)
  PROVE  /\ \A j, k \in Busy' : j = k
         /\ \A v, r : Refreshing(v, r)' <=> flight[i].who = v /\ flight[i].kind = "join" /\ Has(s, Do("snapshot", Other(r)))
         /\ \A u, r, v : Leaving(u, r, v)' <=> flight[i].who = u /\ Has(s, Do("removed", r))
         /\ (flight[i].kind = "join" /\ s # << >> => row'[Head(s).role][flight[i].who].on)
              => \A k \in Busy' : Current(flight[k])'
<1>1. CASE s = << >> /\ Busy' = {}
  <2>1. \A j : ~ Has(s, j)
    BY <1>1, List0
  <2> QED BY <1>1, <2>1 DEF Refreshing, Leaving
<1>2. CASE s # << >> /\ Busy' = {i} /\ flight'[i] = Ahead(flight[i], s)
  <2> DEFINE g == flight'[i]
  <2>1. g.who = flight[i].who /\ g.kind = flight[i].kind /\ g.agenda = s /\ g.stage = "own"
    BY <1>2, AheadParts DEF PresenceTyped
  <2>2. \A v, r : Refreshing(v, r)' <=> flight[i].who = v /\ flight[i].kind = "join" /\ Has(s, Do("snapshot", Other(r)))
    BY <1>2, <2>1 DEF Refreshing, Refreshes
  <2>3. \A u, r, v : Leaving(u, r, v)' <=> flight[i].who = u /\ Has(s, Do("removed", r))
    BY <1>2, <2>1 DEF Leaving, Retires
  <2>4. ASSUME flight[i].kind = "join" /\ s # << >> => row'[Head(s).role][flight[i].who].on
        PROVE  Current(flight[i])'
    BY <2>1, <2>4, <1>2 DEF Current
  <2> QED BY <1>2, <2>2, <2>3, <2>4
<1> QED BY <1>1, <1>2, AloneGoes

\* It stays on the same job, and has become g.
LEMMA StayWork ==
  ASSUME PresenceTyped, NEW i \in DOMAIN flight, Busy \subseteq {i}, NEW g \in Working, Replaces(i, g), g.stage # "sent"
  PROVE  /\ \A j, k \in Busy' : j = k
         /\ \A v, r : Refreshing(v, r)' <=> Refreshes(g, v, r)
         /\ \A u, r, v : Leaving(u, r, v)' <=> Retires(g, u, r, v)
         /\ Current(g)' => \A k \in Busy' : Current(flight[k])'
<1>1. flight \in Seq(Working)
  BY DEF PresenceTyped
<1>2. DOMAIN flight' = DOMAIN flight /\ flight'[i] = g /\ \A k \in DOMAIN flight \ {i} : flight'[k] = flight[k]
  BY <1>1, OneReplaced DEF Replaces
<1>3. Busy' = {i}
  BY <1>2 DEF Busy
<1>4. \A v, r : Refreshing(v, r)' <=> Refreshes(g, v, r)
  BY <1>2, <1>3 DEF Refreshing, Refreshes
<1>5. \A u, r, v : Leaving(u, r, v)' <=> Retires(g, u, r, v)
  BY <1>2, <1>3 DEF Leaving, Retires
<1>6. ASSUME Current(g)' PROVE Current(flight[i])'
  BY <1>2, <1>6 DEF Current, FindNearby
<1> QED BY <1>3, <1>4, <1>5, <1>6

-----------------------------------------------------------------------------
(* The steps after which nobody's map is known.                            *)
LEMMA BlurredMap ==
  ASSUME PresenceTyped, Unseen', Blur(Stores)
  PROVE  MapSafe'
<1>1. (blurred = Stores)'
  BY DEF PresenceTyped, Blur, Stores
<1> QED BY <1>1 DEF MapSafe

LEMMA FailMap ==
  ASSUME PresenceTyped, MapSafe, NEW i \in DOMAIN flight, Fail(i)
  PROVE  MapSafe'
<1>1. Unseen'
  BY DEF Fail, socket, MapSafe, Unseen
<1> QED BY <1>1, BlurredMap DEF Fail

LEMMA RestartMap ==
  ASSUME PresenceTyped, MapSafe, Restart
  PROVE  MapSafe'
<1>1. client' = [u \in Users |-> ClearStores(client[u])] /\ Blur(Stores)
  BY DEF Restart
<1>2. \A v \in Users, r \in Roles : client'[v].store[r] = {}
  <2> TAKE v \in Users
  <2>1. client'[v] = ClearStores(client[v]) /\ client[v] \in Tab
    BY <1>1 DEF PresenceTyped
  <2> QED BY <2>1, StoresCleared
<1>3. Unseen'
  BY <1>2 DEF Unseen
<1> QED BY <1>1, <1>3, BlurredMap

-----------------------------------------------------------------------------
(* A handler begins.                                                       *)
\* Alone at work, and it has read nothing.
LEMMA BeginsMap ==
  ASSUME PresenceTyped, MapSafe, NEW g, g.stage = "own", g.kind = "join" => Head(g.agenda).does = "write",
         UNCHANGED <<client, link, row>>, blurred' = blurred,
         Busy = {}, \A k \in Busy' : flight'[k] = g, \A j, k \in Busy' : j = k
  PROVE  MapSafe'
<1>1. Unseen'
  BY DEF MapSafe, Unseen
<1>2. ASSUME Sharp PROVE Sharp'
  <2>1. ASSUME NEW k \in Busy' PROVE Current(flight[k])'
    BY DEF Current
  <2>2. ASSUME NEW v \in Users, NEW r \in Roles PROVE Fresh(v, r)'
    <3>1. Fresh(v, r) /\ ~ Refreshing(v, r) /\ \A u : ~ Leaving(u, r, v)
      BY <1>2 DEF Sharp, Refreshing, Leaving
    <3>2. Sees(v, r) => Sees(v, r)'
      BY <3>1 DEF Sees
    <3> QED BY <3>1, <3>2 DEF Fresh
  <2> QED BY <2>1, <2>2 DEF Sharp
<1>3. blurred = Stores => (blurred = Stores)'
  BY DEF Stores
<1> QED BY <1>1, <1>2, <1>3 DEF MapSafe

\* handleDisconnect, and a message dispatched: alone at work, or nobody's map is known.
LEMMA DisconnectMap ==
  ASSUME PresenceTyped, MapSafe, NEW u \in Users, Disconnect(u)
  PROVE  MapSafe'
<1> DEFINE h == Handling(u, "disconnect", Nowhere, "own", Cleanup)
<1>1. /\ flight' = Append(flight, h) /\ UNCHANGED <<client, link, row>>
      /\ Blur(IF Busy = {} THEN {} ELSE Stores)
  BY DEF Disconnect, server
<1>2. Unseen'
  BY <1>1 DEF MapSafe, Unseen
<1>3. h \in Working /\ h.kind = "disconnect" /\ h.stage = "own"
  BY CleanupForm
<1> HIDE DEF h
<1>4. CASE Busy = {}
  <2>1. blurred' = blurred
    BY <1>1, <1>4 DEF Blur
  <2>2. /\ DOMAIN flight' = DOMAIN flight \cup {Len(flight) + 1}
        /\ flight'[Len(flight) + 1] = h /\ \A k \in DOMAIN flight : flight'[k] = flight[k]
    BY <1>1, <1>3, OneAppended DEF PresenceTyped
  <2>3. Busy' \subseteq {Len(flight) + 1}
    BY <1>4, <2>2 DEF Busy
  <2>4. (\A k \in Busy' : flight'[k] = h) /\ \A j, k \in Busy' : j = k
    BY <2>2, <2>3
  <2> QED BY <1>1, <1>3, <1>4, <2>1, <2>4, BeginsMap
<1>5. CASE Busy # {}
  BY <1>1, <1>2, <1>5, BlurredMap
<1> QED BY <1>4, <1>5

LEMMA ReceiveMap ==
  ASSUME PresenceTyped, MapSafe, NEW i \in DOMAIN flight, Receive(i)
  PROVE  MapSafe'
<1>1. UNCHANGED <<client, link, row>> /\ Blur(IF Busy = {} THEN {} ELSE Stores)
  BY DEF Receive, socket, server
<1>2. Unseen'
  BY <1>1 DEF MapSafe, Unseen
<1> DEFINE g == Begun(flight[i])
<1>3. flight[i].stage = "sent" /\ Replaces(i, g) /\ flight[i] \in Working /\ Formed(flight[i])
  BY ReceiveMeans, HandlerParts
<1>4. g \in Working /\ g.stage = "own" /\ g.agenda = flight[i].agenda
  BY <1>3, BegunForm
<1>5. Head(g.agenda).does = "write"
  BY <1>3, <1>4 DEF Formed
<1> HIDE DEF g
<1>6. CASE Busy = {}
  <2>1. blurred' = blurred
    BY <1>1, <1>6 DEF Blur
  <2>2. DOMAIN flight' = DOMAIN flight /\ flight'[i] = g /\ \A k \in DOMAIN flight \ {i} : flight'[k] = flight[k]
    BY <1>3, <1>4, OneReplaced DEF Replaces, PresenceTyped
  <2>3. Busy' \subseteq {i}
    BY <1>6, <2>2 DEF Busy
  <2>4. (\A k \in Busy' : flight'[k] = g) /\ \A j, k \in Busy' : j = k
    BY <2>2, <2>3
  <2> QED BY <1>1, <1>4, <1>5, <1>6, <2>1, <2>4, BeginsMap
<1>7. CASE Busy # {}
  BY <1>1, <1>2, <1>7, BlurredMap
<1> QED BY <1>6, <1>7
-----------------------------------------------------------------------------
(* A trip begins, and a handler reads.                                     *)
LEMMA PickupMap ==
  ASSUME PresenceTyped, MapSafe, NEW u \in Users, Pickup(u)
  PROVE  MapSafe'
<1>1. /\ UNCHANGED <<link, flight>> /\ Blur(IF Busy = {} THEN Viewers(u, "passenger") ELSE Stores)
      /\ "passenger" \in Roles
  BY TwoRoles DEF Pickup, socket
<1>2. PICK w \in Row : w.on = FALSE /\ w.at = row["passenger"][u].at /\ row' = [row EXCEPT !["passenger"][u] = w]
  BY PickupMeans
<1>3. \A v \in Users : client'[v].store = client[v].store
  <2>1. CASE client' = [client EXCEPT ![u] = Riding(client[u])]
    BY <2>1, RidingTab DEF PresenceTyped
  <2>2. CASE client' = client
    BY <2>2
  <2> QED BY <2>1, <2>2, PickupMeans
<1>4. Unseen'
  BY <1>1, <1>3 DEF MapSafe, Unseen
<1>5. \A q \in Roles, v \in Users : row'[q][v].at = row[q][v].at /\ (row'[q][v].on => row[q][v].on)
                                    /\ (row[q][v].on => row'[q][v].on \/ (q = "passenger" /\ v = u))
  BY <1>1, <1>2, RowChanged
<1>6. ASSUME Sharp, Busy = {} PROVE Sharp'
  <2>1. Busy' = {}
    BY <1>1, <1>6 DEF Busy
  <2>2. ASSUME NEW v \in Users, NEW r \in Roles PROVE Fresh(v, r)'
    <3>1. Fresh(v, r) /\ ~ Refreshing(v, r) /\ \A x : ~ Leaving(x, r, v)
      BY <1>6 DEF Sharp, Refreshing, Leaving
    <3>2. SUFFICES ASSUME link'[v] = "up", row'[Other(r)][v].on, <<v, r>> \notin blurred'
                   PROVE  Sees(v, r)'
      BY DEF Fresh
    <3>3. Other(r) \in Roles /\ <<v, r>> \notin blurred /\ <<v, r>> \notin Viewers(u, "passenger")
      BY <1>1, <1>6, <3>2, TwoRoles DEF Blur
    <3>4. Sees(v, r)
      BY <1>1, <1>5, <3>1, <3>2, <3>3 DEF Fresh
    <3>5. ~ (r = "passenger" /\ u \in client[v].store[r])
      BY <3>3 DEF Viewers
    <3>6. client[v].store[r] \subseteq Users
      BY TabParts DEF PresenceTyped
    <3>7. ASSUME NEW x \in client[v].store[r]
          PROVE  row'[r][x].at = row'[Other(r)][v].at /\ row'[r][x].on
      <4>1. x \in Users /\ row[r][x].at = row[Other(r)][v].at /\ row[r][x].on
        BY <3>1, <3>4, <3>6, <3>7 DEF Sees
      <4>2. row'[r][x].at = row[r][x].at /\ row'[Other(r)][v].at = row[Other(r)][v].at
        BY <1>5, <3>3, <4>1
      <4>3. row'[r][x].on
        BY <1>5, <3>5, <3>7, <4>1
      <4> QED BY <4>1, <4>2, <4>3
    <3> QED BY <1>3, <3>7 DEF Sees
  <2> QED BY <2>1, <2>2 DEF Sharp
<1>7. CASE Busy = {}
  <2>1. blurred = Stores => (blurred = Stores)'
    BY <1>1, <1>7 DEF Blur, Stores, PresenceTyped, Viewers
  <2> QED BY <1>4, <1>6, <1>7, <2>1 DEF MapSafe
<1>8. CASE Busy # {}
  BY <1>1, <1>4, <1>8, BlurredMap
<1> QED BY <1>7, <1>8

\* What the handlers will still do for the maps of connected users.
Persists ==
  \A v \in Users, r \in Roles : link[v] = "up" /\ row[Other(r)][v].on =>
    /\ Refreshing(v, r) => Refreshing(v, r)'
    /\ \A u \in Users : row[r][u].at = row[Other(r)][v].at /\ Leaving(u, r, v) => Leaving(u, r, v)'

\* A handler that only reads: the snapshots and removals due to those who are
\* around stay due.
LEMMA ReadsMap ==
  ASSUME PresenceTyped, MapSafe, UNCHANGED <<client, link, row, blurred>>,
         Sharp => (\A j, k \in Busy' : j = k) /\ (\A k \in Busy' : Current(flight[k])') /\ Persists
  PROVE  MapSafe'
<1>1. Unseen'
  BY DEF MapSafe, Unseen
<1>2. ASSUME Sharp PROVE Sharp'
  <2>1. ASSUME NEW v \in Users, NEW r \in Roles PROVE Fresh(v, r)'
    <3>1. SUFFICES ASSUME link'[v] = "up", row'[Other(r)][v].on, <<v, r>> \notin blurred', ~ Refreshing(v, r)'
                   PROVE  Sees(v, r)'
      BY DEF Fresh
    <3>2. Persists /\ Fresh(v, r)
      BY <1>2 DEF Sharp
    <3>3. Sees(v, r)
      BY <3>1, <3>2 DEF Fresh, Persists
    <3>4. client[v].store[r] \subseteq Users
      BY TabParts DEF PresenceTyped
    <3> QED BY <3>1, <3>2, <3>3, <3>4 DEF Sees, Persists
  <2> QED BY <1>2, <2>1 DEF Sharp
<1>3. blurred = Stores => (blurred = Stores)'
  BY DEF Stores
<1> QED BY <1>1, <1>2, <1>3 DEF MapSafe

\* The handler at work.
LEMMA Alone ==
  ASSUME PresenceTyped, Sharp, NEW i \in DOMAIN flight, flight[i].stage # "sent"
  PROVE  /\ Busy = {i} /\ Current(flight[i])
         /\ \A v, r : Refreshing(v, r) <=> Refreshes(flight[i], v, r)
         /\ \A u, r, v : Leaving(u, r, v) <=> Retires(flight[i], u, r, v)
<1>1. Busy = {i}
  BY DEF Sharp, Busy
<1> QED BY <1>1 DEF Sharp, Refreshing, Leaving

\* Its agenda.
LEMMA AtWork ==
  ASSUME PresenceTyped, NEW i \in DOMAIN flight
  PROVE  LET s == flight[i].agenda IN
         /\ s \in Left(flight[i].kind) /\ Head(s) \in Job
         /\ \A j : Has(s, j) <=> (j = Head(s) \/ Has(Tail(s), j))
         /\ flight[i].stage \in {"near", "emit"} => Head(s).does \notin {"write", "record"}
         /\ Head(s) = Do(Head(s).does, Head(s).role) /\ Head(s).role \in Roles
<1> DEFINE h == flight[i]
<1>1. h \in Working /\ Formed(h) /\ h.agenda \in Left(h.kind) /\ Head(h.agenda) \in Job
  BY HandlerParts
<1> HIDE DEF h
<1>2. \A j : Has(h.agenda, j) <=> (j = Head(h.agenda) \/ Has(Tail(h.agenda), j))
  BY <1>1, Agendas
<1>3. Head(h.agenda) = Do(Head(h.agenda).does, Head(h.agenda).role) /\ Head(h.agenda).role \in Roles
  BY <1>1 DEF Job, Do
<1> QED BY <1>1, <1>2, <1>3 DEF h, Formed

\* recordPassengerPointIfActive, and the two reads of a routine.
LEMMA RecordMap ==
  ASSUME PresenceTyped, MapSafe, NEW i \in DOMAIN flight, Record(i)
  PROVE  MapSafe'
<1> DEFINE h == flight[i]
<1>1. h.stage = "own" /\ Head(h.agenda).does = "record" /\ UNCHANGED <<client, link, row, blurred>>
  BY DEF Record, socket, server, history
<1>2. PICK s : Goes(i, s)
  BY RecordMeans
<1>3. h.kind = "position"
  BY <1>1, AtWork, Agendas
<1>4. \A q : ~ Has(h.agenda, Do("snapshot", q)) /\ ~ Has(h.agenda, Do("removed", q))
  BY <1>3, AtWork, AgendaGoals
<1> HIDE DEF h
<1>5. ASSUME Sharp PROVE (\A j, k \in Busy' : j = k) /\ (\A k \in Busy' : Current(flight[k])') /\ Persists
  <2>1. /\ Busy = {i}
        /\ \A v, r : ~ Refreshing(v, r)
        /\ \A u, r, v : ~ Leaving(u, r, v)
    BY <1>1, <1>4, <1>5, Alone DEF h, Refreshes, Retires
  <2>2. (\A j, k \in Busy' : j = k) /\ \A k \in Busy' : Current(flight[k])'
    BY <1>2, <1>3, <2>1, GoesWork DEF h
  <2> QED BY <2>1, <2>2 DEF Persists
<1> QED BY <1>1, <1>5, ReadsMap

LEMMA ReadOwnMap ==
  ASSUME PresenceTyped, MapSafe, NEW i \in DOMAIN flight, ReadOwn(i)
  PROVE  MapSafe'
<1> DEFINE h == flight[i]
           job == Head(h.agenda)
           role == job.role
           does == job.does
           mine == row[role][h.who]
           s == Tail(h.agenda)
<1>1. UNCHANGED <<client, link, row, blurred>>
  BY DEF ReadOwn, socket, history
<1>2. /\ h.stage = "own" /\ does \in {"broadcast", "snapshot", "removed"}
      /\ \/ Goes(i, s) /\ (h.kind = "position" \/ mine.at = Nowhere \/ (~ mine.on /\ does # "removed"))
         \/ /\ Replaces(i, Near(h, mine.at)) /\ Near(h, mine.at) \in Working
            /\ does = "broadcast" => mine.on
  BY ReadOwnMeans
<1>3. /\ \A j : Has(h.agenda, j) <=> (j = job \/ Has(s, j))
      /\ h.agenda \in Left(h.kind) /\ job = Do(does, role) /\ role \in Roles
  BY AtWork
<1>4. /\ s # << >> /\ h.kind = "join" => Head(s).role = role
      /\ does = "snapshot" => h.kind = "join"
      /\ does = "removed" => h.kind \in {"leave", "disconnect"}
  BY <1>3, AgendaGoals, Agendas
<1>5. h.who \in Users /\ (mine.on => mine.at # Nowhere) /\ mine.at \in Seen \cup {Nowhere} /\ h \in Working
  <2>1. h.who \in Users /\ h \in Working
    BY HandlerParts
  <2> QED BY <1>3, <2>1, RowType
<1>6. \A v, r : Do(does, role) = Do(v, r) => does = v /\ role = r
  BY JobParts
<1>7. \A v \in Users, r \in Roles : row[Other(r)][v].on => row[Other(r)][v].at # Nowhere
  BY RowType, TwoRoles
<1> HIDE DEF h, job, role, does, mine, s
<1>8. ASSUME Sharp PROVE (\A j, k \in Busy' : j = k) /\ (\A k \in Busy' : Current(flight[k])') /\ Persists
  <2>1. /\ Busy = {i} /\ Current(h)
        /\ \A v, r : Refreshing(v, r) <=> Refreshes(h, v, r)
        /\ \A u, r, v : Leaving(u, r, v) <=> Retires(h, u, r, v)
    BY <1>2, <1>8, Alone DEF h
  <2>2. h.kind = "join" => mine.on
    BY <1>2, <2>1 DEF Current, mine, role, does, job
  <2>3. CASE Goes(i, s) /\ (h.kind = "position" \/ mine.at = Nowhere \/ (~ mine.on /\ does # "removed"))
    <3>1. /\ \A j, k \in Busy' : j = k
          /\ \A v, r : Refreshing(v, r)' <=> h.who = v /\ h.kind = "join" /\ Has(s, Do("snapshot", Other(r)))
          /\ \A u, r, v : Leaving(u, r, v)' <=> h.who = u /\ Has(s, Do("removed", r))
          /\ (h.kind = "join" /\ s # << >> => row'[Head(s).role][h.who].on) => \A k \in Busy' : Current(flight[k])'
      BY <2>1, <2>3, GoesWork DEF h
    <3>2. h.kind = "join" /\ s # << >> => row'[Head(s).role][h.who].on
      BY <1>1, <1>4, <2>2 DEF mine
    <3>3. ASSUME NEW v \in Users, NEW r \in Roles, row[Other(r)][v].on
          PROVE  /\ Refreshing(v, r) => Refreshing(v, r)'
                 /\ \A u \in Users : row[r][u].at = row[Other(r)][v].at /\ Leaving(u, r, v) => Leaving(u, r, v)'
      <4>1. ASSUME Refreshing(v, r) PROVE Refreshing(v, r)'
        <5>1. h.who = v /\ h.kind = "join" /\ Has(h.agenda, Do("snapshot", Other(r)))
          BY <2>1, <4>1 DEF Refreshes
        <5>2. ~ (does = "snapshot")
          BY <1>5, <2>2, <2>3, <5>1
        <5>3. job # Do("snapshot", Other(r))
          BY <1>3, <1>6, <5>2
        <5> QED BY <1>3, <3>1, <5>1, <5>3
      <4>2. ASSUME NEW u \in Users, row[r][u].at = row[Other(r)][v].at, Leaving(u, r, v) PROVE Leaving(u, r, v)'
        <5>1. h.who = u /\ Has(h.agenda, Do("removed", r))
          BY <2>1, <4>2 DEF Retires
        <5>2. ASSUME job = Do("removed", r) PROVE FALSE
          <6>1. does = "removed" /\ role = r
            BY <1>3, <1>6, <5>2
          <6>2. mine.at = Nowhere
            BY <1>4, <2>3, <6>1
          <6>3. row[r][u].at = Nowhere
            BY <5>1, <6>1, <6>2 DEF mine
          <6> QED BY <1>7, <3>3, <4>2, <6>3
        <5> QED BY <1>3, <3>1, <5>1, <5>2
      <4> QED BY <4>1, <4>2
    <3> QED BY <3>1, <3>2, <3>3 DEF Persists
  <2>4. CASE /\ Replaces(i, Near(h, mine.at)) /\ Near(h, mine.at) \in Working
             /\ does = "broadcast" => mine.on
    <3>1. PICK g \in Working : g = Near(h, mine.at)
      BY <2>4
    <3>2. g.who = h.who /\ g.kind = h.kind /\ g.agenda = h.agenda /\ g.stage = "near" /\ g.at = mine.at
      BY <1>2, <1>5, <3>1, NearForm DEF does, job
    <3>3. /\ \A j, k \in Busy' : j = k
          /\ \A v, r : Refreshing(v, r)' <=> Refreshes(g, v, r)
          /\ \A u, r, v : Leaving(u, r, v)' <=> Retires(g, u, r, v)
          /\ Current(g)' => \A k \in Busy' : Current(flight[k])'
      BY <2>1, <2>4, <3>1, <3>2, StayWork
    <3>4. Current(g)'
      BY <1>1, <2>2, <2>4, <3>2 DEF Current, mine, does, role, job
    <3>5. \A v, r : Refreshing(v, r) => Refreshing(v, r)'
      BY <2>1, <3>2, <3>3 DEF Refreshes
    <3>6. \A u, r, v : Leaving(u, r, v) => Leaving(u, r, v)'
      BY <2>1, <3>2, <3>3 DEF Retires
    <3> QED BY <3>3, <3>4, <3>5, <3>6 DEF Persists
  <2> QED BY <1>2, <2>3, <2>4
<1> QED BY <1>1, <1>8, ReadsMap

LEMMA ReadNearMap ==
  ASSUME PresenceTyped, MapSafe, NEW i \in DOMAIN flight, ReadNear(i)
  PROVE  MapSafe'
<1> DEFINE h == flight[i]
           job == Head(h.agenda)
           role == job.role
           does == job.does
           found == FindNearby(Other(role), h.at)
           s == Tail(h.agenda)
<1>1. UNCHANGED <<client, link, row, blurred>>
  BY DEF ReadNear, socket, server, history
<1>2. /\ h.stage = "near" /\ found \subseteq Users
      /\ \/ Goes(i, s) /\ found = {} /\ does # "snapshot"
         \/ Replaces(i, Found(h, found)) /\ Found(h, found) \in Working
  BY ReadNearMeans
<1>3. /\ \A j : Has(h.agenda, j) <=> (j = job \/ Has(s, j))
      /\ h.agenda \in Left(h.kind) /\ job = Do(does, role) /\ role \in Roles
      /\ does # "write" /\ h \in Working
  BY <1>2, AtWork, HandlerParts
<1>4. s # << >> /\ h.kind = "join" => Head(s).role = role
  BY <1>3, AgendaGoals
<1>6. \A v, r : Do(does, role) = Do(v, r) => does = v /\ role = r
  BY JobParts
<1>7. \A v \in Users : v \in found <=> row[Other(role)][v].on /\ row[Other(role)][v].at = h.at
  BY DEF FindNearby
<1> HIDE DEF h, job, role, does, found, s
<1>8. ASSUME Sharp PROVE (\A j, k \in Busy' : j = k) /\ (\A k \in Busy' : Current(flight[k])') /\ Persists
  <2>1. /\ Busy = {i} /\ Current(h)
        /\ \A v, r : Refreshing(v, r) <=> Refreshes(h, v, r)
        /\ \A u, r, v : Leaving(u, r, v) <=> Retires(h, u, r, v)
    BY <1>2, <1>8, Alone DEF h
  <2>2. /\ h.kind = "join" => row[role][h.who].on
        /\ h.at = row[role][h.who].at
        /\ does = "broadcast" => row[role][h.who].on
    BY <1>2, <1>3, <2>1 DEF Current, role, does, job
  <2>5. ASSUME NEW v \in Users, NEW r \in Roles, row[Other(r)][v].on, NEW u \in Users,
               row[r][u].at = row[Other(r)][v].at, h.who = u, job = Do("removed", r)
        PROVE  v \in found
    <3>1. role = r
      BY <1>3, <1>6, <2>5
    <3> QED BY <1>7, <2>2, <2>5, <3>1
  <2>3. CASE Goes(i, s) /\ found = {} /\ does # "snapshot"
    <3>1. /\ \A j, k \in Busy' : j = k
          /\ \A v, r : Refreshing(v, r)' <=> h.who = v /\ h.kind = "join" /\ Has(s, Do("snapshot", Other(r)))
          /\ \A u, r, v : Leaving(u, r, v)' <=> h.who = u /\ Has(s, Do("removed", r))
          /\ (h.kind = "join" /\ s # << >> => row'[Head(s).role][h.who].on) => \A k \in Busy' : Current(flight[k])'
      BY <2>1, <2>3, GoesWork DEF h
    <3>2. h.kind = "join" /\ s # << >> => row'[Head(s).role][h.who].on
      BY <1>1, <1>4, <2>2
    <3>3. ASSUME NEW v \in Users, NEW r \in Roles, row[Other(r)][v].on
          PROVE  /\ Refreshing(v, r) => Refreshing(v, r)'
                 /\ \A u \in Users : row[r][u].at = row[Other(r)][v].at /\ Leaving(u, r, v) => Leaving(u, r, v)'
      <4>1. ASSUME Refreshing(v, r) PROVE Refreshing(v, r)'
        <5>1. h.who = v /\ h.kind = "join" /\ Has(h.agenda, Do("snapshot", Other(r)))
          BY <2>1, <4>1 DEF Refreshes
        <5>3. job # Do("snapshot", Other(r))
          BY <1>3, <1>6, <2>3
        <5> QED BY <1>3, <3>1, <5>1, <5>3
      <4>2. ASSUME NEW u \in Users, row[r][u].at = row[Other(r)][v].at, Leaving(u, r, v) PROVE Leaving(u, r, v)'
        <5>1. h.who = u /\ Has(h.agenda, Do("removed", r))
          BY <2>1, <4>2 DEF Retires
        <5>2. job # Do("removed", r)
          BY <2>3, <2>5, <3>3, <4>2, <5>1
        <5> QED BY <1>3, <3>1, <5>1, <5>2
      <4> QED BY <4>1, <4>2
    <3> QED BY <3>1, <3>2, <3>3 DEF Persists
  <2>4. CASE Replaces(i, Found(h, found)) /\ Found(h, found) \in Working
    <3>1. PICK g \in Working : g = Found(h, found)
      BY <2>4
    <3>2. g.who = h.who /\ g.kind = h.kind /\ g.agenda = h.agenda /\ g.stage = "emit" /\ g.at = h.at /\ g.found = found
      BY <1>2, <1>3, <3>1, FoundForm
    <3>3. /\ \A j, k \in Busy' : j = k
          /\ \A v, r : Refreshing(v, r)' <=> Refreshes(g, v, r)
          /\ \A u, r, v : Leaving(u, r, v)' <=> Retires(g, u, r, v)
          /\ Current(g)' => \A k \in Busy' : Current(flight[k])'
      BY <2>1, <2>4, <3>1, <3>2, StayWork
    <3>4. Current(g)'
      <4>1. g.found = FindNearby(Other(role), h.at) /\ row' = row
        BY <1>1, <3>2 DEF found
      <4>2. Head(g.agenda) = job
        BY <3>2 DEF job
      <4> QED BY <2>2, <3>2, <4>1, <4>2 DEF Current, does, role, FindNearby
    <3>5. \A v, r : Refreshing(v, r) => Refreshing(v, r)'
      BY <2>1, <3>2, <3>3 DEF Refreshes
    <3>6. ASSUME NEW v \in Users, NEW r \in Roles, row[Other(r)][v].on, NEW u \in Users,
                 row[r][u].at = row[Other(r)][v].at, Leaving(u, r, v)
          PROVE  Leaving(u, r, v)'
      <4>1. h.who = u /\ Has(h.agenda, Do("removed", r))
        BY <2>1, <3>6 DEF Retires
      <4>2. Head(g.agenda) = Do("removed", r) => v \in g.found
        BY <2>5, <3>2, <3>6, <4>1 DEF job
      <4>3. Retires(g, u, r, v)
        BY <3>2, <4>1, <4>2 DEF Retires
      <4> QED BY <3>3, <4>3
    <3> QED BY <3>3, <3>4, <3>5, <3>6 DEF Persists
  <2> QED BY <1>2, <2>3, <2>4
<1> QED BY <1>1, <1>8, ReadsMap
-----------------------------------------------------------------------------
(* A handler writes a row.                                                 *)
\* driverOnline, passengerWait, driverOffline, cancelPassengerWait and the two
\* positions: who joins is due a snapshot, who leaves is due a removal, and who
\* moves blurs the maps that show him and his own.
LEMMA WriteMap ==
  ASSUME PresenceTyped, MapSafe, NEW i \in DOMAIN flight, Write(i)
  PROVE  MapSafe'
<1> DEFINE h == flight[i]
           job == Head(h.agenda)
           role == job.role
           mine == row[role][h.who]
           s == Tail(h.agenda)
<1>1. UNCHANGED <<client, link>>
  BY DEF Write, socket
<1>2. Goes(i, s) /\ role \in Roles /\ job = Do("write", role) /\ h.stage = "own"
  BY WriteMeans
<1>3. PICK w \in Row :
        /\ row' = [row EXCEPT ![role][h.who] = w]
        /\ h.kind = "join" => w.on = TRUE
        /\ h.kind = "position" => w.on = mine.on
        /\ h.kind \in {"leave", "disconnect"} => w.on = FALSE /\ w.at = mine.at
        /\ Blur(IF w.at # mine.at /\ mine.at # Nowhere THEN Viewers(h.who, role) \cup {<<h.who, Other(role)>>} ELSE {})
  BY WriteMeans
<1>4. /\ h.agenda \in Left(h.kind) /\ h.who \in Users
      /\ \A j : Has(h.agenda, j) <=> (j = job \/ Has(s, j))
      /\ h.kind \in {"join", "position", "leave", "disconnect"}
  <2>1. h.kind \in {"join", "position", "leave", "disconnect"}
    BY HandlerParts DEF Handler, Kinds
  <2> QED BY <2>1, AtWork, HandlerParts
<1>5. /\ h.kind = "join" /\ s # << >> => Head(s).role = role
      /\ h.kind = "join" => Has(s, Do("snapshot", role))
      /\ h.kind \in {"leave", "disconnect"} => Has(s, Do("removed", role))
  <2>1. job.does = "write"
    BY <1>2, JobParts
  <2> QED BY <1>4, <2>1, AgendaGoals
<1>6. \A q : job # Do("snapshot", q) /\ job # Do("removed", q)
  BY <1>2, JobParts
<1>7. mine.on \in BOOLEAN /\ (mine.on => mine.at # Nowhere)
  BY <1>2, <1>4, RowType
<1>8. row'[role][h.who] = w /\ \A q \in Roles, v \in Users : q # role \/ v # h.who => row'[q][v] = row[q][v]
  <2>1. PICK q0 \in Roles, v0 \in Users : q0 = role /\ v0 = h.who
    BY <1>2, <1>4
  <2>2. row' = [row EXCEPT ![q0][v0] = w]
    BY <1>3, <2>1
  <2> HIDE DEF h, job, role, mine, s
  <2>3. row'[q0][v0] = w /\ \A q \in Roles, v \in Users : q # q0 \/ v # v0 => row'[q][v] = row[q][v]
    <3>1. row \in [Roles -> [Users -> Row]]
      BY DEF PresenceTyped
    <3> QED BY <2>2, <3>1
  <2> QED BY <2>1, <2>3
<1>9. Unseen'
  BY <1>1 DEF MapSafe, Unseen
<1>10. blurred \subseteq blurred' /\ (blurred = Stores => (blurred = Stores)')
  <2>1. Viewers(h.who, role) \cup {<<h.who, Other(role)>>} \subseteq Stores
    BY <1>2, <1>4, TwoRoles DEF Viewers, Stores
  <2> QED BY <1>3, <2>1 DEF Blur, Stores
<1>11. w.at # mine.at /\ mine.at # Nowhere => Viewers(h.who, role) \subseteq blurred' /\ <<h.who, Other(role)>> \in blurred'
  BY <1>3 DEF Blur
<1>12. h.stage # "sent"
  BY <1>2
<1> HIDE DEF h, job, role, mine, s
<1>13. ASSUME Sharp PROVE Sharp'
  <2>1. /\ Busy = {i} /\ Current(h)
        /\ \A v, r : Refreshing(v, r) <=> Refreshes(h, v, r)
        /\ \A u, r, v : Leaving(u, r, v) <=> Retires(h, u, r, v)
    BY <1>12, <1>13, Alone DEF h
  <2>2. /\ \A j, k \in Busy' : j = k
        /\ \A v, r : Refreshing(v, r)' <=> h.who = v /\ h.kind = "join" /\ Has(s, Do("snapshot", Other(r)))
        /\ \A u, r, v : Leaving(u, r, v)' <=> h.who = u /\ Has(s, Do("removed", r))
        /\ (h.kind = "join" /\ s # << >> => row'[Head(s).role][h.who].on) => \A k \in Busy' : Current(flight[k])'
    BY <1>2, <2>1, GoesWork DEF h
  <2>3. \A k \in Busy' : Current(flight[k])'
    BY <1>3, <1>5, <1>8, <2>2
  <2>4. ASSUME NEW v \in Users, NEW r \in Roles PROVE Fresh(v, r)'
    <3>1. SUFFICES ASSUME link'[v] = "up", row'[Other(r)][v].on, <<v, r>> \notin blurred', ~ Refreshing(v, r)'
                   PROVE  Sees(v, r)'
      BY DEF Fresh
    <3>2. ~ Refreshing(v, r)
      BY <1>4, <1>6, <2>1, <2>2, <3>1 DEF Refreshes
    <3>3. Fresh(v, r) /\ Other(r) \in Roles /\ Other(r) # r /\ Other(Other(r)) = r /\ (Other(r) = role => Other(role) = r)
      BY <1>13, TwoRoles DEF Sharp
    <3>4. row[Other(r)][v].on /\ row'[Other(r)][v].at = row[Other(r)][v].at
      <4>1. CASE Other(r) = role /\ v = h.who
        <5>1. h.kind # "join"
          <6>1. ~ (h.kind = "join" /\ Has(s, Do("snapshot", role)))
            BY <2>2, <3>1, <4>1
          <6> QED BY <1>5, <6>1
        <5>2. row'[Other(r)][v] = w /\ row[Other(r)][v] = mine /\ w.on
          BY <1>8, <3>1, <4>1 DEF mine
        <5>3. mine.on
          BY <1>3, <1>4, <5>1, <5>2
        <5>4. w.at = mine.at
          BY <1>7, <1>11, <3>1, <3>3, <4>1, <5>3
        <5> QED BY <5>2, <5>3, <5>4
      <4>2. CASE ~ (Other(r) = role /\ v = h.who)
        BY <1>8, <3>1, <3>3, <4>2
      <4> QED BY <4>1, <4>2
    <3>5. Sees(v, r)
      BY <1>1, <1>10, <3>1, <3>2, <3>3, <3>4 DEF Fresh
    <3>6. client'[v].store[r] = client[v].store[r] /\ client[v].store[r] \subseteq Users
      BY <1>1, TabParts DEF PresenceTyped
    <3>7. row[Other(r)][v].at # Nowhere
      BY <3>3, <3>4, RowType
    <3>8. ASSUME NEW u \in client[v].store[r]
          PROVE  row'[r][u].at = row'[Other(r)][v].at /\ (row'[r][u].on \/ Leaving(u, r, v)')
      <4>1. u \in Users /\ row[r][u].at = row[Other(r)][v].at /\ (row[r][u].on \/ Leaving(u, r, v))
        BY <3>5, <3>6, <3>8 DEF Sees
      <4>2. CASE r = role /\ u = h.who
        <5>1. row'[r][u] = w /\ row[r][u] = mine
          BY <1>8, <4>2 DEF mine
        <5>2. <<v, r>> \in Viewers(h.who, role)
          BY <3>8, <4>2 DEF Viewers
        <5>3. w.at = mine.at
          BY <1>11, <3>1, <3>7, <4>1, <5>1, <5>2
        <5>4. CASE h.kind = "join"
          BY <1>3, <3>4, <4>1, <5>1, <5>3, <5>4
        <5>5. CASE h.kind = "position"
          <6>1. ~ Has(h.agenda, Do("removed", r))
            BY <1>4, <5>5, AgendaGoals
          <6>2. row[r][u].on
            BY <2>1, <4>1, <6>1 DEF Retires
          <6> QED BY <1>3, <3>4, <4>1, <5>1, <5>3, <5>5, <6>2
        <5>6. CASE h.kind \in {"leave", "disconnect"}
          <6>1. Leaving(u, r, v)'
            BY <1>5, <2>2, <4>2, <5>6
          <6> QED BY <3>4, <4>1, <5>1, <5>3, <6>1
        <5> QED BY <1>4, <5>4, <5>5, <5>6
      <4>3. CASE ~ (r = role /\ u = h.who)
        <5>1. row'[r][u] = row[r][u]
          BY <1>8, <4>1, <4>3
        <5>2. Leaving(u, r, v) => Leaving(u, r, v)'
          BY <1>4, <1>6, <2>1, <2>2 DEF Retires
        <5> QED BY <3>4, <4>1, <5>1, <5>2
      <4> QED BY <4>2, <4>3
    <3> QED BY <3>6, <3>8 DEF Sees
  <2> QED BY <2>2, <2>3, <2>4 DEF Sharp
<1> QED BY <1>9, <1>10, <1>13 DEF MapSafe
-----------------------------------------------------------------------------
(* A handler tells whom it found.                                          *)
\* The store of the role r, once v was told.
LEMMA ToldStore ==
  ASSUME PresenceTyped, NEW i \in DOMAIN flight, flight[i].stage = "emit", NEW v \in Users, NEW r \in Roles
  PROVE  LET h == flight[i]
             job == Head(h.agenda)
             told == Told(v, h, job).store[r]
             was == client[v].store[r]
         IN /\ link[v] # "up" => told = was
            /\ link[v] = "up" /\ job.does = "snapshot" /\ v = h.who /\ r = Other(job.role) => told = h.found
            /\ job.does = "snapshot" /\ ~ (v = h.who /\ r = Other(job.role)) => told = was
            /\ job.does # "snapshot" /\ (v \notin h.found \/ r # job.role) => told = was
            /\ job.does = "broadcast" => told \subseteq was \cup {h.who}
            /\ link[v] = "up" /\ job.does = "removed" /\ v \in h.found /\ r = job.role => told = was \ {h.who}
<1> DEFINE h == flight[i]
           job == Head(h.agenda)
           told == Told(v, h, job).store[r]
           was == client[v].store[r]
<1>1. h.found \subseteq Users /\ job.role \in Roles /\ client[v] \in Tab /\ h.who \in Users
  BY HandlerParts DEF PresenceTyped
<1> DEFINE mine == job.role
           other == Other(mine)
           found == h.found
           who == h.who
<1>2. was \subseteq Users /\ other \in Roles /\ mine # other
  BY <1>1, TabParts, TwoRoles
<1> DEFINE Goal ==
      /\ link[v] # "up" => told = was
      /\ link[v] = "up" /\ job.does = "snapshot" /\ v = who /\ r = other => told = found
      /\ job.does = "snapshot" /\ ~ (v = who /\ r = other) => told = was
      /\ job.does # "snapshot" /\ (v \notin found \/ r # mine) => told = was
      /\ job.does = "broadcast" => told \subseteq was \cup {who}
      /\ link[v] = "up" /\ job.does = "removed" /\ v \in found /\ r = mine => told = was \ {who}
<1> HIDE DEF h, job
<1>3. ASSUME link[v] # "up" PROVE Goal
  BY <1>3, <1>1 DEF Told
<1>4. ASSUME link[v] = "up" /\ job.does = "snapshot" PROVE Goal
  <2>1. CASE v = h.who
    <3>1. Told(v, h, job) = Stored(client[v], other, found)
      BY <1>4, <2>1 DEF Told, Stored
    <3>2. told = IF r = other THEN found ELSE was
      <4> HIDE DEF other, found
      <4> QED BY <1>1, <1>2, <3>1, StoreChanged DEF found
    <3> QED BY <1>4, <2>1, <3>2
  <2>2. CASE v # h.who
    <3>1. Told(v, h, job) = client[v]
      BY <1>4, <2>2 DEF Told
    <3>2. told = was
      BY <3>1
    <3> QED BY <1>4, <2>2, <3>2
  <2> QED BY <2>1, <2>2
<1>5. ASSUME link[v] = "up" /\ job.does # "snapshot" /\ v \notin found PROVE Goal
  <2>1. Told(v, h, job) = client[v]
    BY <1>5 DEF Told
  <2>2. told = was
    BY <2>1
  <2> HIDE DEF told, was
  <2> QED BY <1>5, <2>2
<1>6. ASSUME link[v] = "up" /\ job.does # "snapshot" /\ v \in found PROVE Goal
  <2> DEFINE known == client[v].store[mine]
             new == IF job.does = "broadcast" THEN known \cup {who} ELSE known \ {who}
  <2>1. Told(v, h, job) = Stored(client[v], mine, new)
    BY <1>6 DEF Told, Stored
  <2>2. known \subseteq Users
    BY <1>1, TabParts
  <2>3. new \in SUBSET Users
    BY <1>1, <2>2
  <2>4. told = IF r = mine THEN new ELSE was
    <3>1. mine \in Roles
      BY <1>1
    <3> HIDE DEF new, mine
    <3> QED BY <1>1, <2>1, <2>3, <3>1, StoreChanged
  <2>5. r = mine => known = was
    OBVIOUS
  <2> HIDE DEF told, was, known
  <2> QED BY <1>6, <2>4, <2>5
<1>7. Goal
  BY <1>3, <1>4, <1>5, <1>6
<1> QED BY <1>7 DEF h, job

\* emitToUsers: an update adds, a removal takes away, a snapshot replaces.
LEMMA TellMap ==
  ASSUME PresenceTyped, MapSafe, NEW i \in DOMAIN flight, Tell(i)
  PROVE  MapSafe'
<1> DEFINE h == flight[i]
           job == Head(h.agenda)
           role == job.role
           does == job.does
           who == h.who
           s == Tail(h.agenda)
           accurate == does = "snapshot" /\ link[who] = "up" /\ Busy = {i}
                       /\ h.at = row[role][who].at /\ h.found = FindNearby(Other(role), h.at)
<1>1. /\ UNCHANGED <<link, row>> /\ h.stage = "emit" /\ Goes(i, s)
      /\ \A v \in Users : client'[v] = Told(v, h, job)
  BY TellMeans DEF Tell, socket, server
<1>2. blurred' = blurred \ (IF accurate THEN {<<who, Other(role)>>} ELSE {})
  BY DEF Tell
<1>3. /\ \A j : Has(h.agenda, j) <=> (j = job \/ Has(s, j))
      /\ h.agenda \in Left(h.kind) /\ job = Do(does, role) /\ role \in Roles
      /\ does \notin {"write", "record"} /\ who \in Users
  <2>1. /\ \A j : Has(h.agenda, j) <=> (j = job \/ Has(s, j))
        /\ h.agenda \in Left(h.kind) /\ job = Do(does, role) /\ role \in Roles
        /\ h.stage \in {"near", "emit"} => does \notin {"write", "record"}
    BY AtWork
  <2>2. who \in Users
    BY HandlerParts
  <2> QED BY <1>1, <2>1, <2>2
<1>4. /\ s # << >> /\ h.kind = "join" => Head(s).role = role
      /\ does = "snapshot" => s = << >>
  <2> DEFINE a == h.agenda
             kind == h.kind
  <2>1. a \in Left(kind)
    BY <1>3
  <2> HIDE DEF a, kind
  <2>2. /\ Head(a).does = "snapshot" => kind = "join" /\ Tail(a) = << >>
        /\ kind = "join" /\ Tail(a) # << >> => Head(Tail(a)).role = Head(a).role
    <3>1. Head(a).does = "snapshot" => kind = "join" /\ Tail(a) = << >>
      BY <2>1, Agendas
    <3>2. kind = "join" /\ Tail(a) # << >> => Head(Tail(a)).role = Head(a).role
      BY <2>1, AgendaGoals
    <3> QED BY <3>1, <3>2
  <2> QED BY <2>2 DEF a, kind
<1>5. does \in {"broadcast", "snapshot", "removed"}
  BY <1>3, HandlerParts DEF Routines
<1>6. \A v, r : Do(does, role) = Do(v, r) => does = v /\ role = r
  BY JobParts
<1>7. ASSUME NEW v \in Users, NEW r \in Roles
      PROVE  /\ link[v] # "up" => client'[v].store[r] = client[v].store[r]
             /\ link[v] = "up" /\ does = "snapshot" /\ v = who /\ r = Other(role) => client'[v].store[r] = h.found
             /\ does = "snapshot" /\ ~ (v = who /\ r = Other(role)) => client'[v].store[r] = client[v].store[r]
             /\ does # "snapshot" /\ (v \notin h.found \/ r # role) => client'[v].store[r] = client[v].store[r]
             /\ does = "broadcast" => client'[v].store[r] \subseteq client[v].store[r] \cup {who}
             /\ link[v] = "up" /\ does = "removed" /\ v \in h.found /\ r = role => client'[v].store[r] = client[v].store[r] \ {who}
  BY <1>1, ToldStore
<1>8. Unseen'
  <2> SUFFICES ASSUME NEW v \in Users, NEW r \in Roles, link'[v] \in {"down", "out"} PROVE client'[v].store[r] = {}
    BY DEF Unseen
  <2>1. client'[v].store[r] = client[v].store[r]
    BY <1>1, <1>7
  <2> QED BY <1>1, <2>1 DEF MapSafe, Unseen
<1>9. Other(role) \in Roles /\ Other(Other(role)) = role /\ \A r \in Roles : Other(r) \in Roles /\ (Other(r) = role => r = Other(role)) /\ Other(Other(r)) = r
  BY <1>3, TwoRoles
<1>10. \A v \in Users, q \in Roles : v \in FindNearby(q, h.at) <=> row[q][v].on /\ row[q][v].at = h.at
  BY DEF FindNearby
<1>11. FindNearby(Other(role), h.at) \subseteq Users
  BY DEF FindNearby
<1>12. Busy = {i} => /\ \A j, k \in Busy' : j = k
                     /\ \A v, r : Refreshing(v, r)' <=> who = v /\ h.kind = "join" /\ Has(s, Do("snapshot", Other(r)))
                     /\ \A u, r, v : Leaving(u, r, v)' <=> who = u /\ Has(s, Do("removed", r))
                     /\ (h.kind = "join" /\ s # << >> => row'[Head(s).role][who].on) => \A k \in Busy' : Current(flight[k])'
  BY <1>1, GoesWork
<1> HIDE DEF h, job, role, does, who, s

\* The snapshot is of what the rows say.
<1>13. ASSUME h.found = FindNearby(Other(role), h.at), h.at = row[role][who].at, does = "snapshot", link[who] = "up",
              NEW v \in Users, NEW r \in Roles, v = who, r = Other(role)
       PROVE  Sees(v, r)'
  <2>1. client'[v].store[r] = h.found /\ Other(r) = role
    BY <1>7, <1>9, <1>13
  <2>2. \A u \in h.found : u \in Users /\ row[r][u].on /\ row[r][u].at = h.at
    BY <1>10, <1>11, <1>13
  <2>3. row[Other(r)][v].at = h.at
    BY <1>13, <2>1
  <2> QED BY <1>1, <2>1, <2>2, <2>3 DEF Sees
<1>14. ASSUME Sharp PROVE Sharp'
  <2>1. /\ Busy = {i} /\ Current(h)
        /\ \A v, r : Refreshing(v, r) <=> Refreshes(h, v, r)
        /\ \A u, r, v : Leaving(u, r, v) <=> Retires(h, u, r, v)
    BY <1>1, <1>14, Alone DEF h
  <2>2. /\ h.at = row[role][who].at /\ h.found = FindNearby(Other(role), h.at)
        /\ does = "broadcast" => row[role][who].on
        /\ h.kind = "join" => row[role][who].on
    BY <1>1, <1>3, <2>1 DEF Current, role, does, job, who
  <2>3. \A k \in Busy' : Current(flight[k])'
    BY <1>1, <1>4, <1>12, <2>1, <2>2
  <2>4. ASSUME NEW v \in Users, NEW r \in Roles PROVE Fresh(v, r)'
    <3>1. SUFFICES ASSUME link'[v] = "up", row'[Other(r)][v].on, <<v, r>> \notin blurred', ~ Refreshing(v, r)'
                   PROVE  Sees(v, r)'
      BY DEF Fresh
    <3>2. CASE does = "snapshot" /\ v = who /\ r = Other(role)
      BY <1>1, <1>13, <2>2, <3>1, <3>2
    <3>3. CASE ~ (does = "snapshot" /\ v = who /\ r = Other(role))
      <4>1. <<v, r>> \notin blurred
        BY <1>2, <3>1, <3>3
      <4>2. ~ Refreshing(v, r)
        <5>1. ASSUME who = v, job = Do("snapshot", Other(r)) PROVE FALSE
          BY <1>3, <1>6, <1>9, <3>3, <5>1
        <5> QED BY <1>3, <1>12, <2>1, <3>1, <5>1 DEF Refreshes, who
      <4>3. Sees(v, r)
        BY <1>1, <1>14, <3>1, <4>1, <4>2 DEF Sharp, Fresh
      <4>4. client[v].store[r] \subseteq Users
        BY TabParts DEF PresenceTyped
      <4>5. ASSUME NEW u \in client[v].store[r], ~ (u = who /\ does = "removed" /\ r = role /\ v \in h.found)
            PROVE  row'[r][u].at = row'[Other(r)][v].at /\ (row'[r][u].on \/ Leaving(u, r, v)')
        <5>1. row[r][u].at = row[Other(r)][v].at /\ (row[r][u].on \/ Leaving(u, r, v))
          BY <4>3 DEF Sees
        <5>2. ASSUME Leaving(u, r, v) PROVE Leaving(u, r, v)'
          <6>1. who = u /\ Has(h.agenda, Do("removed", r)) /\ (job = Do("removed", r) => v \in h.found)
            BY <1>1, <2>1, <5>2 DEF Retires, who, job, h
          <6>2. ASSUME job = Do("removed", r) PROVE FALSE
            BY <1>3, <1>6, <4>5, <6>1, <6>2
          <6> QED BY <1>3, <1>12, <2>1, <6>1, <6>2
        <5> QED BY <1>1, <5>1, <5>2
      <4>6. CASE does = "broadcast"
        <5>1. client'[v].store[r] \subseteq client[v].store[r] \cup {who}
          BY <1>7, <4>6
        <5>2. ASSUME who \in client'[v].store[r], who \notin client[v].store[r]
              PROVE  row'[r][who].at = row'[Other(r)][v].at /\ row'[r][who].on
          <6>1. v \in h.found /\ r = role
            BY <1>7, <4>6, <5>2
          <6>2. row[Other(role)][v].at = h.at
            BY <1>9, <1>10, <2>2, <6>1
          <6> QED BY <1>1, <2>2, <4>6, <6>1, <6>2
        <5> QED BY <4>5, <4>6, <5>1, <5>2 DEF Sees
      <4>7. CASE does = "removed" /\ v \in h.found /\ r = role
        <5>1. client'[v].store[r] = client[v].store[r] \ {who}
          BY <1>1, <1>7, <3>1, <4>7
        <5> QED BY <4>5, <5>1 DEF Sees
      <4>8. CASE does # "broadcast" /\ ~ (does = "removed" /\ v \in h.found /\ r = role)
        <5>1. client'[v].store[r] = client[v].store[r]
          BY <1>5, <1>7, <3>3, <4>8
        <5> QED BY <4>5, <4>8, <5>1 DEF Sees
      <4> QED BY <4>6, <4>7, <4>8
    <3> QED BY <3>2, <3>3
  <2> QED BY <1>12, <2>1, <2>3, <2>4 DEF Sharp
<1>15. ASSUME blurred = Stores PROVE (blurred = Stores)' \/ Sharp'
  <2>1. CASE accurate
    <3>1. /\ \A j, k \in Busy' : j = k
          /\ \A k \in Busy' : Current(flight[k])'
      BY <1>4, <1>12, <2>1
    <3>2. ASSUME NEW v \in Users, NEW r \in Roles, <<v, r>> \notin blurred' PROVE Sees(v, r)'
      <4>1. v = who /\ r = Other(role)
        BY <1>2, <1>15, <2>1, <3>2 DEF Stores
      <4> QED BY <1>13, <2>1, <4>1
    <3> QED BY <3>1, <3>2 DEF Sharp, Fresh
  <2>2. CASE ~ accurate
    BY <1>2, <1>15, <2>2 DEF Stores
  <2> QED BY <2>1, <2>2
<1> QED BY <1>8, <1>14, <1>15 DEF MapSafe

-----------------------------------------------------------------------------
\* To begin with every map is empty.
LEMMA InitMap == PresenceInit => MapSafe
<1> SUFFICES ASSUME PresenceInit PROVE MapSafe
  OBVIOUS
<1>1. flight = << >> /\ client = [u \in Users |-> NewTab(u)]
  BY DEF PresenceInit, Quiet
<1>2. Busy = {}
  BY <1>1 DEF Busy
<1>3. \A v \in Users, r \in Roles : client[v].store[r] = {}
  BY <1>1 DEF NewTab
<1> QED BY <1>2, <1>3 DEF MapSafe, Unseen, Sharp, Fresh, Sees

LEMMA NextMap == PresenceTyped /\ MapSafe /\ [PresenceNext]_presence_vars => MapSafe'
<1> SUFFICES ASSUME PresenceTyped, MapSafe, [PresenceNext]_presence_vars PROVE MapSafe'
  OBVIOUS
<1>1. CASE UNCHANGED presence_vars
  BY <1>1, StillMap
<1>2. ASSUME NEW u \in Users, Turns(u) PROVE MapSafe'
  <2>1. CASE Speaking(u)
    BY <2>1, SpeakingSays, SaysMap
  <2> QED BY <1>2, <2>1, NavigateMap, BreakMap, NoticeMap, ReconnectMap, LogoutMap, LoginMap,
             DisconnectMap, PickupMap, DropOffMap DEF Turns
<1>3. ASSUME NEW i \in DOMAIN flight, Works(i) PROVE MapSafe'
  BY <1>3, ReceiveMap, WriteMap, RecordMap, ReadOwnMap, ReadNearMap, TellMap, FailMap DEF Works
<1>4. CASE PresenceNext
  BY <1>2, <1>3, <1>4, NextMeans, TimePassesMap, RestartMap
<1> QED BY <1>1, <1>4

\* With no handler at work, nobody is about to be taken away.
LEMMA SafeMap == PresenceTyped /\ MapSafe => LeaversDisappear
<1> SUFFICES ASSUME PresenceTyped, MapSafe, Busy = {}, NEW v \in Users, NEW r \in Roles, link[v] = "up",
                    row[Other(r)][v].on, <<v, r>> \notin blurred, NEW u \in client[v].store[r]
             PROVE  row[r][u].on
  BY DEF LeaversDisappear
<1>1. Sharp
  BY DEF MapSafe, Stores
<1>2. ~ Refreshing(v, r) /\ ~ Leaving(u, r, v)
  BY DEF Refreshing, Leaving
<1> QED BY <1>1, <1>2 DEF Sharp, Fresh, Sees

\* LeaversDisappear for every number of users, messages and events: when no
\* handler is at work, nobody who went offline is left on the map of a connected
\* user on the same way, unless handlers overlapped or someone moved since that
\* user's last snapshot.
THEOREM LeaversLeave == PresenceSpec => []LeaversDisappear
<1>1. PresenceInit => PresenceTyped /\ MapSafe
  BY InitTyped, InitMap
<1>2. PresenceTyped /\ MapSafe /\ [PresenceNext]_presence_vars => (PresenceTyped /\ MapSafe)'
  BY NextTyped, NextMap
<1>3. PresenceTyped /\ MapSafe => LeaversDisappear
  BY SafeMap
<1> QED BY <1>1, <1>2, <1>3, PTL DEF PresenceSpec
=============================================================================
