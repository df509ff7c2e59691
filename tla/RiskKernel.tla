----------------------------- MODULE RiskKernel -----------------------------
(***************************************************************************)
(* The risk kernel of openmatch-ingress (risk_kernel.rs) for one market:   *)
(* per-user order counts of the current epoch and the last known price.    *)
(* A last price of 0 stands for "no entry": check_price_deviation skips    *)
(* both a missing and a zero last price.                                   *)
(***************************************************************************)
EXTENDS Integers

CONSTANTS
  RiskUsers,             \* the users whose orders are validated
  MaxOrdersPerUser,      \* max_orders_per_user_per_epoch
  MaxOrderSize,          \* max_order_size
  MaxPriceDeviation      \* max_price_deviation (a multiplier)

VARIABLES
  orderCounts,           \* epoch_order_counts
  lastPrice              \* last_prices[market]

riskVars == <<orderCounts, lastPrice>>

RiskInit ==
  /\ orderCounts = [u \in RiskUsers |-> 0]
  /\ lastPrice = 0

(* check_price_deviation: ratio = max/min of price and last price         *)
Deviates(p) ==
  /\ lastPrice # 0
  /\ IF p > lastPrice THEN p > MaxPriceDeviation * lastPrice
                      ELSE lastPrice > MaxPriceDeviation * p

(* mutant: the epoch cap compares with > instead of >=                     *)
ValidateResultFloodLate(o) ==
  CASE o.qty <= 0                                   -> "InvalidOrder"
    [] o.otype = "Cancel"                           -> "Ok"
    [] o.qty > MaxOrderSize                         -> "InvalidOrder"
    [] o.otype = "Limit" /\ o.price <= 0            -> "SuspiciousPrice"
    [] o.otype = "Limit" /\ Deviates(o.price)       -> "SuspiciousPrice"
    [] orderCounts[o.user] > MaxOrdersPerUser       -> "OrderFloodDetected"
    [] OTHER                                        -> "Ok"

(* RiskKernel::validate: the error it returns, checks in code order        *)
ValidateResult(o) ==
  CASE o.qty <= 0                                   -> "InvalidOrder"
    [] o.otype = "Cancel"                           -> "Ok"
    [] o.qty > MaxOrderSize                         -> "InvalidOrder"
    [] o.otype = "Limit" /\ o.price <= 0            -> "SuspiciousPrice"
    [] o.otype = "Limit" /\ Deviates(o.price)       -> "SuspiciousPrice"
    [] orderCounts[o.user] >= MaxOrdersPerUser      -> "OrderFloodDetected"
    [] OTHER                                        -> "Ok"

(* the state change of a successful validate: Cancel orders return before *)
(* the count is incremented                                                *)
Validate(o) ==
  /\ orderCounts' = IF o.otype = "Cancel" THEN orderCounts
                    ELSE [orderCounts EXCEPT ![o.user] = @ + 1]
  /\ UNCHANGED lastPrice

(* RiskKernel::advance_epoch *)
AdvanceEpoch ==
  /\ orderCounts' = [u \in RiskUsers |-> 0]
  /\ UNCHANGED lastPrice

(* RiskKernel::set_last_price *)
SetLastPrice(p) ==
  /\ lastPrice' = p
  /\ UNCHANGED orderCounts
=============================================================================
