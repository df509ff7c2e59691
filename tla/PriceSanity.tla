----------------------------- MODULE PriceSanity -----------------------------
(***************************************************************************)
(* PriceSanityChecker of openmatch-core (security.rs): the last reference  *)
(* price per market and the deviation check on an order's price.  Decimal  *)
(* values are integers here; Decimal::MAX is the constant DecMax.  The     *)
(* bound ref / max_deviation is a Decimal division, compared exactly as    *)
(* p * max_deviation < ref; a division by zero panics.                     *)
(***************************************************************************)
EXTENDS Integers, TLC

CONSTANTS
  Markets,
  Prices,        \* prices passed to update_reference and check_price
  MaxDeviation,  \* max_deviation_multiplier given to new()
  DecMax         \* Decimal::MAX

VARIABLES
  refPrices,     \* reference_prices: a function on the markets that have one
  result         \* what the last check_price returned ("Panic" for a panic)

vars == <<refPrices, result>>

Init ==
  /\ refPrices = [m \in {} |-> 0]
  /\ result = "Ok"

(* mutant: the reference is stored whatever its sign                       *)
UpdateReferenceUnguarded(m, p) ==
  /\ refPrices' = (m :> p) @@ refPrices
  /\ UNCHANGED result

(* update_reference: only a positive price replaces the reference          *)
UpdateReference(m, p) ==
  /\ refPrices' = IF p > 0 THEN (m :> p) @@ refPrices ELSE refPrices
  /\ UNCHANGED result

(* ref_price.saturating_mul(max_deviation)                                 *)
Upper(ref) == IF ref * MaxDeviation > DecMax THEN DecMax ELSE ref * MaxDeviation

(* mutant: a price exactly at ref / max_deviation is rejected              *)
CheckPriceResultStrictLower(m, p) ==
  CASE p <= 0                      -> "SuspiciousPrice"
    [] p = DecMax                  -> "Ok"
    [] m \notin DOMAIN refPrices   -> "Ok"
    [] MaxDeviation = 0            -> "Panic"
    [] p > Upper(refPrices[m]) \/ p * MaxDeviation <= refPrices[m] -> "SuspiciousPrice"
    [] OTHER                       -> "Ok"

(* check_price: non-positive prices are rejected, Decimal::MAX (a market   *)
(* order) passes, no reference passes; otherwise upper is computed, then   *)
(* lower = ref / max_deviation (panicking on a zero divisor), and a price  *)
(* outside [lower, upper] is SuspiciousPrice.                              *)
CheckPriceResult(m, p) ==
  CASE p <= 0                      -> "SuspiciousPrice"
    [] p = DecMax                  -> "Ok"
    [] m \notin DOMAIN refPrices   -> "Ok"
    [] MaxDeviation = 0            -> "Panic"
    [] p > Upper(refPrices[m]) \/ p * MaxDeviation < refPrices[m] -> "SuspiciousPrice"
    [] OTHER                       -> "Ok"

CheckPrice(m, p) ==
  /\ result' = CheckPriceResult(m, p)
  /\ UNCHANGED refPrices

Next ==
  \E m \in Markets, p \in Prices : UpdateReference(m, p) \/ CheckPrice(m, p)

Spec == Init /\ [][Next]_vars

-----------------------------------------------------------------------------
(* The comment at the division: "ref_price is always > 0 (ensured by       *)
(* update_reference)".  Part of the type invariant: every stored reference *)
(* is positive, whatever prices update_reference was called with.         *)
TypeOK ==
  /\ DOMAIN refPrices \subseteq Markets
  /\ \A m \in DOMAIN refPrices : refPrices[m] \in Prices /\ refPrices[m] > 0
  /\ result \in {"Ok", "SuspiciousPrice", "Panic"}

(* Spec section 4.7, read as an exact rational condition: p <= 0 is       *)
(* rejected; otherwise a price of +infinity, or any price for a market     *)
(* without reference, passes; otherwise ref / D <= p <= ref * D.           *)
SpecVerdict(m, p) ==
  IF p <= 0 THEN "SuspiciousPrice"
  ELSE IF p = DecMax \/ m \notin DOMAIN refPrices THEN "Ok"
  ELSE IF refPrices[m] <= p * MaxDeviation /\ p <= refPrices[m] * MaxDeviation
       THEN "Ok" ELSE "SuspiciousPrice"

(* Every check_price call returns what spec section 4.7 prescribes for the *)
(* reference price current at the call, across any sequence of reference   *)
(* updates (including ones with non-positive prices) on any market.        *)
CheckMatchesSpec ==
  [][\A m \in Markets, p \in Prices :
       CheckPrice(m, p) => result' = SpecVerdict(m, p)]_vars
====
