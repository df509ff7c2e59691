----------------------------- MODULE NonceTracker -----------------------------
(***************************************************************************)
(* NonceTracker of openmatch-core (security.rs): the nonces of freeze      *)
(* proofs seen per issuing node, with a per-node cap, cleared at the epoch *)
(* boundary by clear_node or clear_all.                                    *)
(***************************************************************************)
EXTENDS Naturals, FiniteSets

CONSTANTS
  Nodes,        \* issuing node ids
  Nonces,       \* nonces proofs may carry
  MaxPerNode    \* max_per_node

VARIABLES
  usedNonces,   \* used_nonces[n]; a node without an entry maps to {}
  result,       \* what the last check_and_record returned
  accepted      \* history: accepted[n][k] = calls for (n, k) that returned
                \* Ok since the node was last cleared

vars == <<usedNonces, result, accepted>>

Init ==
  /\ usedNonces = [n \in Nodes |-> {}]
  /\ result = "Ok"
  /\ accepted = [n \in Nodes |-> [k \in Nonces |-> 0]]

(* mutant: the quota is compared with > instead of >=                     *)
CheckResultQuotaLate(n, k) ==
  CASE k \in usedNonces[n]                      -> "NonceReplay"
    [] Cardinality(usedNonces[n]) > MaxPerNode  -> "RateLimitExceeded"
    [] OTHER                                    -> "Ok"

(* check_and_record: a known nonce is NonceReplay, a full set is           *)
(* RateLimitExceeded, otherwise the nonce is inserted                      *)
CheckResult(n, k) ==
  CASE k \in usedNonces[n]                      -> "NonceReplay"
    [] Cardinality(usedNonces[n]) >= MaxPerNode -> "RateLimitExceeded"
    [] OTHER                                    -> "Ok"

(* mutant: the node's set is replaced by a fresh one on every call          *)
(* (insert(node, HashSet::new()) instead of entry().or_default())          *)
CheckAndRecordFreshSet(n, k) ==
  /\ result' = "Ok"
  /\ usedNonces' = [usedNonces EXCEPT ![n] = {k}]
  /\ accepted' = [accepted EXCEPT ![n][k] = @ + 1]

CheckAndRecord(n, k) ==
  /\ result' = CheckResult(n, k)
  /\ IF CheckResult(n, k) = "Ok"
     THEN /\ usedNonces' = [usedNonces EXCEPT ![n] = @ \cup {k}]
          /\ accepted' = [accepted EXCEPT ![n][k] = @ + 1]
     ELSE UNCHANGED <<usedNonces, accepted>>

ClearNode(n) ==
  /\ usedNonces' = [usedNonces EXCEPT ![n] = {}]
  /\ accepted' = [accepted EXCEPT ![n] = [k \in Nonces |-> 0]]
  /\ UNCHANGED result

ClearAll ==
  /\ usedNonces' = [n \in Nodes |-> {}]
  /\ accepted' = [n \in Nodes |-> [k \in Nonces |-> 0]]
  /\ UNCHANGED result

Next ==
  \/ \E n \in Nodes, k \in Nonces : CheckAndRecord(n, k)
  \/ \E n \in Nodes : ClearNode(n)
  \/ ClearAll

Spec == Init /\ [][Next]_vars

-----------------------------------------------------------------------------
TypeOK ==
  /\ usedNonces \in [Nodes -> SUBSET Nonces]
  /\ \A n \in Nodes : Cardinality(usedNonces[n]) <= MaxPerNode
  /\ result \in {"Ok", "NonceReplay", "RateLimitExceeded"}
  /\ accepted \in [Nodes -> [Nonces -> Nat]]

(* Freeze-proof replay prevention (spec section 4.7): between two clears   *)
(* of a node, each of its nonces is accepted at most once, across any      *)
(* interleaving of calls for other nodes and clears of other nodes.        *)
NoReplayWithinEpoch == \A n \in Nodes, k \in Nonces : accepted[n][k] <= 1
====
