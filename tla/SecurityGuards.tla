---------------------------- MODULE SecurityGuards ----------------------------
(***************************************************************************)
(* The three admission guards of openmatch-core's security.rs side by      *)
(* side: NonceTracker, OrderRateLimiter and PriceSanityChecker.  They share *)
(* no state and no code calls one from another, so a step of this module  *)
(* is a step of exactly one of them; each keeps its own `result`.          *)
(***************************************************************************)
EXTENDS Integers

CONSTANTS
  Users, WindowMs, MaxPerWindow, MaxPerEpoch, MaxTime,   \* OrderRateLimiter
  Nodes, Nonces, MaxPerNode,                             \* NonceTracker
  Markets, Prices, MaxDeviation, DecMax                  \* PriceSanityChecker

VARIABLES
  now, windows, epochCounts, rateResult, log,
  usedNonces, nonceResult, accepted,
  refPrices, priceResult

rateVars  == <<now, windows, epochCounts, rateResult, log>>
nonceVars == <<usedNonces, nonceResult, accepted>>
priceVars == <<refPrices, priceResult>>
vars == <<rateVars, nonceVars, priceVars>>

R == INSTANCE RateLimiter  WITH result <- rateResult
N == INSTANCE NonceTracker WITH result <- nonceResult
P == INSTANCE PriceSanity  WITH result <- priceResult

Init == R!Init /\ N!Init /\ P!Init

Next ==
  \/ R!Next /\ UNCHANGED <<nonceVars, priceVars>>
  \/ N!Next /\ UNCHANGED <<rateVars, priceVars>>
  \/ P!Next /\ UNCHANGED <<rateVars, nonceVars>>

Spec == Init /\ [][Next]_vars

-----------------------------------------------------------------------------
TypeOK == R!TypeOK /\ N!TypeOK /\ P!TypeOK

(* OrderRateLimiter: no more than max_per_window accepted orders of a user *)
(* in any closed window of window_ms ms within an epoch.                   *)
WindowLimit == R!WindowLimit

(* NonceTracker: a node's nonce is accepted at most once between clears.   *)
NoReplayWithinEpoch == N!NoReplayWithinEpoch

(* PriceSanityChecker: check_price returns the verdict of spec section 4.7 *)
(* for the reference current at the call.                                 *)
CheckMatchesSpec ==
  [][\A m \in Markets, p \in Prices :
       P!CheckPrice(m, p) => priceResult' = P!SpecVerdict(m, p)]_vars
====
