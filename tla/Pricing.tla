------------------------------- MODULE Pricing -------------------------------
(***************************************************************************)
(* What a ride costs and what its driver earns: PricingService over the    *)
(* three pricing settings of SettingsService, which an admin may change at *)
(* any time (AdminSettingsService.update) and in any order.                *)
(*                                                                         *)
(* Distances are whole numbers of a unit of 1/PerKm km, so that the sums   *)
(* are exact before Math.round; the code computes them in doubles.         *)
(***************************************************************************)
EXTENDS Integers

CONSTANTS
  PerKm,      \* units of distance in one kilometre
  Distances,  \* distances a trip may measure
  Values,     \* values an admin may type
  Largest,    \* max of the three settings in EDITABLE
  Default     \* their values in the environment (app.config.ts): nothing
              \* checks them, but a fee or a rate below zero is no tariff

Keys == {"fareBaseXpf", "farePerKmXpf", "appMarginPerKmXpf"}

ASSUME PricingAssumption ==
  /\ PerKm \in Nat \ {0}
  /\ Distances \subseteq Int /\ Values \subseteq Int
  /\ Largest \in Nat
  /\ Default \in [Keys -> Int]
  /\ Default["fareBaseXpf"] >= 0 /\ Default["farePerKmXpf"] >= 0

VARIABLES
  setting,    \* what getNumber answers for each key
  quote       \* fare and driver share of the last trip that was priced

vars == <<setting, quote>>

Quote == [ distance : Int, fare : Int, share : Int ]
NoQuote == [ distance |-> 0, fare |-> 0, share |-> 0 ]

-----------------------------------------------------------------------------
AtLeast(low, n) == IF n < low THEN low ELSE n

\* Mistake: the margin is not capped.
NoCap(high, n) == n

AtMost(high, n) == IF n > high THEN high ELSE n

\* Math.round(n / PerKm): halves go up.
Round(n) == (2 * n + PerKm) \div (2 * PerKm)

Base == setting["fareBaseXpf"]
Rate == setting["farePerKmXpf"]
Margin == AtMost(Rate, AtLeast(0, setting["appMarginPerKmXpf"]))

\* What the passenger owes and what the driver is due, before rounding, in
\* francs times PerKm.
Owed(m) == Base * PerKm + AtLeast(0, m) * Rate

\* Mistake: the driver gets the base fee too.
DueWithBase(m) == Base * PerKm + AtLeast(0, m) * (Rate - Margin)

Due(m) == AtLeast(0, m) * (Rate - Margin)

Fare(m) == Round(Owed(m))
DriverShare(m) == Round(Due(m))

-----------------------------------------------------------------------------
\* AdminSettingsService.update, through SettingsService.setValue.
Update(k, v) ==
  /\ v >= 0 /\ v <= Largest
  /\ setting' = [setting EXCEPT ![k] = v]
  /\ UNCHANGED quote

\* The server restarts and cannot read app_settings: the overrides are gone
\* until the next start (onApplicationBootstrap logs a warning and goes on).
ForgetOverrides ==
  /\ setting' = Default
  /\ UNCHANGED quote

\* The two calls of TripsService.finalizeTrip, with no await between them.
Price(m) ==
  /\ quote' = [distance |-> m, fare |-> Fare(m), share |-> DriverShare(m)]
  /\ UNCHANGED setting

Init == setting = Default /\ quote = NoQuote

Next ==
  \/ \E k \in Keys, v \in Values : Update(k, v)
  \/ ForgetOverrides
  \/ \E m \in Distances : Price(m)

Spec == Init /\ [][Next]_vars

-----------------------------------------------------------------------------
TypeOK ==
  /\ setting \in [Keys -> Int]
  /\ Base >= 0 /\ Rate >= 0
  /\ quote \in Quote

\* Whatever the admins have set, in whatever order, settleTrip never refuses a
\* quote for its share: the driver is due something between nothing and the
\* whole fare (the clamp of the margin and of the distance).
QuoteIsPayable == 0 <= quote.share /\ quote.share <= quote.fare

\* The platform keeps its base fee and its margin per kilometre: rounding the
\* fare and the share separately moves its part by one franc at most
\* (computeFare, computeDriverShare).
PlatformKeepsItsCut ==
  \A m \in Distances :
    LET kept == (Fare(m) - DriverShare(m)) * PerKm
        cut == Base * PerKm + AtLeast(0, m) * Margin
    IN cut - PerKm <= kept /\ kept <= cut + PerKm

\* A longer route is never cheaper for the passenger nor worth less to the
\* driver, under any settings.
LongerIsNotCheaper ==
  \A m, n \in Distances : m <= n => Fare(m) <= Fare(n) /\ DriverShare(m) <= DriverShare(n)

\* Rounding against its reference: the fare is the number of francs nearest to
\* what is owed, the higher of two.
FareIsNearest ==
  \A m \in Distances :
    LET low == (2 * Fare(m) - 1) * PerKm IN low <= 2 * Owed(m) /\ 2 * Owed(m) < low + 2 * PerKm
=============================================================================
