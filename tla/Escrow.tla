------------------------------- MODULE Escrow -------------------------------
(***************************************************************************)
(* The escrow of openmatch-ingress: its BalanceManager                     *)
(* (balance_manager.rs) and the EscrowManager that freezes funds and mints *)
(* SpendRights (escrow.rs, with the state machine of                       *)
(* openmatch-types/src/spend_right.rs).                                    *)
(*                                                                         *)
(* A SpendRight id is its position in srs, which is also its nonce plus 1  *)
(* (NONCE_COUNTER is a global counter incremented once per mint).  For     *)
(* each operation, <Op>Result is the error the code returns ("Ok" on       *)
(* success) and <Op> the state change it makes on success.  Escrow         *)
(* amounts are positive, so a missing balance entry behaves like a zero    *)
(* one (freeze and unfreeze of a positive amount fail on both).            *)
(***************************************************************************)
EXTENDS Integers, Sequences

CONSTANTS
  Users,          \* UserId values
  Assets,         \* the asset names used by the market
  InitialFunds    \* available balance of every user and asset at the start

VARIABLES
  avail,          \* avail[u][a]: BalanceEntry.available
  frozen,         \* frozen[u][a]: BalanceEntry.frozen
  srs             \* Seq of SpendRight records, by nonce

escrowVars == <<avail, frozen, srs>>

SRStates == {"Active", "Spent", "Released"}

EscrowInit ==
  /\ avail  = [u \in Users |-> [a \in Assets |-> InitialFunds]]
  /\ frozen = [u \in Users |-> [a \in Assets |-> 0]]
  /\ srs    = <<>>

(* SpendRightState::can_transition_to: only ACTIVE moves, to SPENT or      *)
(* RELEASED                                                                *)
CanTransitionTo(s, t) == s = "Active" /\ t \in {"Spent", "Released"}

(* a freshly minted SpendRight, with the fields the model keeps (id is its *)
(* position; issuer, signature, epoch and timestamps are left out)         *)
NewSR(o, u, a, x) == [order |-> o, user |-> u, asset |-> a, amount |-> x, state |-> "Active"]

(* BalanceManager::deposit *)
BalanceDeposit(u, a, x) ==
  /\ avail' = [avail EXCEPT ![u][a] = @ + x]
  /\ UNCHANGED <<frozen, srs>>

(* BalanceManager::freeze: its error, and the move on success *)
FreezeResult(u, a, x) == IF avail[u][a] < x THEN "InsufficientBalance" ELSE "Ok"

(* BalanceManager::unfreeze: its error, and the move on success *)
UnfreezeResult(u, a, x) == IF frozen[u][a] < x THEN "InsufficientFrozen" ELSE "Ok"

BalanceUnfreeze(u, a, x) ==
  /\ frozen' = [frozen EXCEPT ![u][a] = @ - x]
  /\ avail'  = [avail EXCEPT ![u][a] = @ + x]

(* EscrowManager::mint on success: freeze, then store an ACTIVE SpendRight *)
Mint(o, u, a, x) ==
  /\ avail'  = [avail EXCEPT ![u][a] = @ - x]
  /\ frozen' = [frozen EXCEPT ![u][a] = @ + x]
  /\ srs' = Append(srs, NewSR(o, u, a, x))

(* mutant: release does not check that the SpendRight is ACTIVE            *)
ReleaseResultNoStateCheck(id) ==
  CASE id \notin 1..Len(srs)                                       -> "InvalidSpendRight"
    [] frozen[srs[id].user][srs[id].asset] < srs[id].amount         -> "InsufficientFrozen"
    [] OTHER                                                        -> "Ok"

(* EscrowManager::release: the SR must exist and be ACTIVE, then           *)
(* BalanceManager::unfreeze must succeed                                   *)
ReleaseResult(id) ==
  CASE id \notin 1..Len(srs)                                       -> "InvalidSpendRight"
    [] srs[id].state # "Active"                                     -> "InvalidSpendRight"
    [] UnfreezeResult(srs[id].user, srs[id].asset, srs[id].amount) # "Ok"
                                                                    -> "InsufficientFrozen"
    [] OTHER                                                        -> "Ok"

(* release on success: unfreeze, then mark_released                        *)
Release(id) ==
  LET sr == srs[id] IN
  /\ BalanceUnfreeze(sr.user, sr.asset, sr.amount)
  /\ srs'    = [srs EXCEPT ![id].state = "Released"]

(* EscrowManager::mark_spent: ACTIVE -> SPENT, funds stay frozen           *)
MarkSpentResult(id) ==
  IF id \in 1..Len(srs) /\ CanTransitionTo(srs[id].state, "Spent") THEN "Ok" ELSE "InvalidSpendRight"

MarkSpent(id) ==
  /\ srs' = [srs EXCEPT ![id].state = "Spent"]
  /\ UNCHANGED <<avail, frozen>>
=============================================================================
