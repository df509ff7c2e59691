---------------------------- MODULE AbstractBook ----------------------------
(***************************************************************************)
(* What the matchcore OrderBook promises its callers, without levels or an *)
(* index: a set of resting orders in which an order id occurs at most      *)
(* once.  Orders are added under fresh ids (insert_order, insert_batch),   *)
(* removed by id (cancel_order) and all removed at once (drain_all).  A    *)
(* call that fails changes nothing here; OrderBook shows which of its      *)
(* failing calls really do so.                                             *)
(***************************************************************************)
EXTENDS FiniteSets

CONSTANT Orders   \* the orders that may be inserted (records with an id)

VARIABLE resting

Ids(S) == {o.id : o \in S}

AbstractInit == resting = {}

(* insert fresh orders, pairwise distinct in id *)
Add ==
  \E S \in SUBSET Orders :
     /\ S # {}
     /\ Cardinality(Ids(S)) = Cardinality(S)
     /\ Ids(S) \cap Ids(resting) = {}
     /\ resting' = resting \cup S

Remove == \E o \in resting : resting' = resting \ {o}

Clear == resting' = {}

AbstractNext == Add \/ Remove \/ Clear

AbstractSpec == AbstractInit /\ [][AbstractNext]_resting
=============================================================================
