-------------------------------- MODULE Tier1 --------------------------------
(***************************************************************************)
(* Tier1Settler of openmatch-settlement (tier1.rs): same-node settlement   *)
(* with its own balance map, its IdempotencyGuard (idempotency.rs) and its *)
(* SupplyConservation tracker (supply_conservation.rs).                    *)
(*                                                                         *)
(* Unlike the core BalanceManager, the balance map is a HashMap whose      *)
(* entries freeze and the debit legs of settle_trade look up with get_mut: *)
(* a missing entry is an error there, while deposit and the credit legs    *)
(* create it.  `entries` records which (user, asset) keys exist; avail and *)
(* frozen are 0 on a missing key, as balance() reports them.               *)
(*                                                                         *)
(* The settler is driven by one caller at a time (&mut self); every method *)
(* is one atomic step, and the methods may be called in any order.         *)
(***************************************************************************)
EXTENDS Integers, Sequences, SequencesExt, FiniteSetsExt

CONSTANTS
  Users, Base, Quote,
  Trades,     \* trades settle_trade may be called with
  Amounts,    \* amounts passed to deposit and freeze
  CacheSize,  \* idempotency_cache_size given to Tier1Settler::new
  MaxDeposit  \* bound: |total deposits| per asset the model allows

ASSUME CacheSize > 0   \* IdempotencyGuard::new asserts max_size > 0

VARIABLES
  entries,     \* the keys present in `balances`
  avail,       \* balances[(u, a)].available
  frozen,      \* balances[(u, a)].frozen
  guardQueue,  \* IdempotencyGuard: `order`, whose elements are `settled`
  deposits,    \* SupplyConservation.deposits (0 when absent)
  result,      \* what the last call returned
  applied      \* history: settle_trade calls per trade id that returned Ok

vars == <<entries, avail, frozen, guardQueue, deposits, result, applied>>
balVars == <<entries, avail, frozen>>

Assets   == {Base, Quote}
TradeIds == {t.id : t \in Trades}
Results  == {"Ok", "InsufficientBalance", "InsufficientFrozen",
             "TradeAlreadySettled", "SupplyInvariantViolation"}

Init ==
  /\ entries    = {}
  /\ avail      = [u \in Users |-> [a \in Assets |-> 0]]
  /\ frozen     = [u \in Users |-> [a \in Assets |-> 0]]
  /\ guardQueue = <<>>
  /\ deposits   = [a \in Assets |-> 0]
  /\ result     = "Ok"
  /\ applied    = [id \in TradeIds |-> 0]

-----------------------------------------------------------------------------
(* IdempotencyGuard                                                        *)
Settled == ToSet(guardQueue)

(* mutant: evicts one entry early (len >= max_size - 1)                   *)
MarkSettledEvictEarly(id) ==
  IF Len(guardQueue) >= CacheSize - 1 /\ guardQueue # <<>>
  THEN Append(Tail(guardQueue), id)
  ELSE Append(guardQueue, id)

(* mark_settled on an id not in `settled`: pop the oldest id when the set  *)
(* holds max_size ids, then insert and push_back the new one.              *)
MarkSettled(id) ==
  IF Len(guardQueue) >= CacheSize /\ guardQueue # <<>>
  THEN Append(Tail(guardQueue), id)
  ELSE Append(guardQueue, id)

-----------------------------------------------------------------------------
(* deposit: entry().or_insert_with, available += amount, record_deposit.   *)
(* There is no check on the amount and nothing is returned.               *)
Deposit(u, a, x) ==
  /\ -MaxDeposit <= deposits[a] + x /\ deposits[a] + x <= MaxDeposit
  /\ entries'  = entries \cup {<<u, a>>}
  /\ avail'    = [avail EXCEPT ![u][a] = @ + x]
  /\ deposits' = [deposits EXCEPT ![a] = @ + x]
  /\ result'   = "Ok"
  /\ UNCHANGED <<frozen, guardQueue, applied>>

(* mutant: the available check is missing                                   *)
FreezeNoCheck(u, a, x) ==
  IF <<u, a>> \notin entries
  THEN /\ result' = "InsufficientBalance"
       /\ UNCHANGED <<avail, frozen>>
  ELSE /\ avail'  = [avail  EXCEPT ![u][a] = @ - x]
       /\ frozen' = [frozen EXCEPT ![u][a] = @ + x]
       /\ result' = "Ok"

(* freeze: get_mut (a missing entry is InsufficientBalance), then the      *)
(* available check; no check on the sign of the amount.                   *)
FreezeBody(u, a, x) ==
  CASE <<u, a>> \notin entries -> result' = "InsufficientBalance" /\ UNCHANGED <<avail, frozen>>
    [] avail[u][a] < x         -> result' = "InsufficientBalance" /\ UNCHANGED <<avail, frozen>>
    [] OTHER ->
       /\ avail'  = [avail  EXCEPT ![u][a] = @ - x]
       /\ frozen' = [frozen EXCEPT ![u][a] = @ + x]
       /\ result' = "Ok"

Freeze(u, a, x) ==
  /\ FreezeBody(u, a, x)
  /\ UNCHANGED <<entries, guardQueue, deposits, applied>>

-----------------------------------------------------------------------------
(* settle_trade after mark_settled succeeded.  The four blocks run in      *)
(* order and each `?` returns at once, keeping what earlier blocks wrote:  *)
(*   2a seller base: get_mut, frozen check, frozen -= quantity              *)
(*   2b buyer base: or_insert, available += quantity                        *)
(*   3a buyer quote: get_mut, frozen check, frozen -= quote_amount          *)
(*   3b seller quote: or_insert, available += quote_amount                  *)
Buyer(t)  == IF t.takerSide = "Buy" THEN t.taker ELSE t.maker
Seller(t) == IF t.takerSide = "Buy" THEN t.maker ELSE t.taker

SellerBaseOk(t) ==
  <<Seller(t), Base>> \in entries /\ frozen[Seller(t)][Base] >= t.qty
BuyerQuoteOk(t) ==
  <<Buyer(t), Quote>> \in entries /\ frozen[Buyer(t)][Quote] >= t.quoteAmt

(* mutant: the buyer's base credit does not insert a missing entry        *)
BaseLegEntriesNoInsert(t) == entries

(* the state after blocks 2a and 2b *)
BaseLegEntries(t) == entries \cup {<<Buyer(t), Base>>}
BaseLegFrozen(t)  == [frozen EXCEPT ![Seller(t)][Base] = @ - t.qty]
BaseLegAvail(t)   == [avail  EXCEPT ![Buyer(t)][Base]  = @ + t.qty]

(* mutant: the seller's quote credit (3b) is written before the buyer's    *)
(* quote check (3a), so it stays when that check fails                     *)
TransferCreditFirst(t) ==
  CASE ~SellerBaseOk(t) ->
         result' = "InsufficientFrozen" /\ UNCHANGED balVars
    [] ~BuyerQuoteOk(t) ->
         /\ entries' = BaseLegEntries(t) \cup {<<Seller(t), Quote>>}
         /\ frozen'  = BaseLegFrozen(t)
         /\ avail'   = [BaseLegAvail(t) EXCEPT ![Seller(t)][Quote] = @ + t.quoteAmt]
         /\ result'  = "InsufficientFrozen"
    [] OTHER ->
         /\ entries' = BaseLegEntries(t) \cup {<<Seller(t), Quote>>}
         /\ frozen'  = [BaseLegFrozen(t) EXCEPT ![Buyer(t)][Quote] = @ - t.quoteAmt]
         /\ avail'   = [BaseLegAvail(t)  EXCEPT ![Seller(t)][Quote] = @ + t.quoteAmt]
         /\ result'  = "Ok"

Transfer(t) ==
  CASE ~SellerBaseOk(t) ->
         result' = "InsufficientFrozen" /\ UNCHANGED balVars
    [] ~BuyerQuoteOk(t) ->
         /\ entries' = BaseLegEntries(t)
         /\ frozen'  = BaseLegFrozen(t)
         /\ avail'   = BaseLegAvail(t)
         /\ result'  = "InsufficientFrozen"
    [] OTHER ->
         /\ entries' = BaseLegEntries(t) \cup {<<Seller(t), Quote>>}
         /\ frozen'  = [BaseLegFrozen(t) EXCEPT ![Buyer(t)][Quote] = @ - t.quoteAmt]
         /\ avail'   = [BaseLegAvail(t)  EXCEPT ![Seller(t)][Quote] = @ + t.quoteAmt]
         /\ result'  = "Ok"

(* settle_trade: mark_settled first (its error returns before anything     *)
(* else), then the transfer.  `applied` counts the calls returning Ok.     *)
SettleTrade(t) ==
  /\ IF t.id \in Settled
     THEN /\ result' = "TradeAlreadySettled"
          /\ UNCHANGED <<balVars, guardQueue, applied>>
     ELSE /\ guardQueue' = MarkSettled(t.id)
          /\ Transfer(t)
          /\ applied' = [applied EXCEPT ![t.id] = @ + IF result' = "Ok" THEN 1 ELSE 0]
  /\ UNCHANGED deposits

-----------------------------------------------------------------------------
(* verify_supply: sum of total() over the entries of the asset, compared   *)
(* by SupplyConservation::verify with deposits - withdrawals (the settler  *)
(* never records a withdrawal).                                            *)
Total(e) == avail[e[1]][e[2]] + frozen[e[1]][e[2]]

(* mutant: only the available part of each entry is summed                *)
ActualSupplyAvailOnly(a) ==
  MapThenSumSet(LAMBDA e : avail[e[1]][e[2]], {e \in entries : e[2] = a})

ActualSupply(a) == MapThenSumSet(Total, {e \in entries : e[2] = a})

ExpectedSupply(a) == deposits[a]

VerifySupply(a) ==
  /\ result' = IF ActualSupply(a) # ExpectedSupply(a)
               THEN "SupplyInvariantViolation" ELSE "Ok"
  /\ UNCHANGED <<balVars, guardQueue, deposits, applied>>

Next ==
  \/ \E u \in Users, a \in Assets, x \in Amounts :
       Deposit(u, a, x) \/ Freeze(u, a, x)
  \/ \E t \in Trades : SettleTrade(t)
  \/ \E a \in Assets : VerifySupply(a)

Spec == Init /\ [][Next]_vars

-----------------------------------------------------------------------------
TypeOK ==
  /\ entries \subseteq Users \X Assets
  /\ \A u \in Users, a \in Assets :
       <<u, a>> \notin entries => avail[u][a] = 0 /\ frozen[u][a] = 0
  /\ avail  \in [Users -> [Assets -> Int]]
  /\ frozen \in [Users -> [Assets -> Int]]
  /\ guardQueue \in Seq(TradeIds)
  /\ Len(guardQueue) <= CacheSize
  /\ deposits \in [Assets -> Int]
  /\ result \in Results
  /\ applied \in [TradeIds -> Nat]

(* What every user holds of an asset, a missing entry counting as 0.       *)
HeldSupply(a) == MapThenSumSet(LAMBDA u : avail[u][a] + frozen[u][a], Users)

(* Every available and frozen balance stays >= 0 (spec section 8) under    *)
(* any sequence of deposits, freezes, replayed or unfunded settle_trade   *)
(* calls: freeze's available check and settle_trade's two frozen checks.   *)
BalancesNonNegative ==
  \A u \in Users, a \in Assets : avail[u][a] >= 0 /\ frozen[u][a] >= 0

(* supply_conservation.rs: for every asset the balances sum to deposits    *)
(* minus withdrawals after every call, settle_trade calls that fail half   *)
(* way included (each written leg is a debit matched by its credit).       *)
SupplyConserved == \A a \in Assets : HeldSupply(a) = ExpectedSupply(a)

(* IdempotencyGuard docs: a trade's transfer happens at most once however  *)
(* often settle_trade is called with it.                                   *)
NoDoubleSettlement == \A id \in TradeIds : applied[id] <= 1

(* verify_supply reports SupplyInvariantViolation only when supply really  *)
(* is not conserved: its sum over the balance map counts every entry.      *)
VerifyReportsOnlyRealViolations ==
  result = "SupplyInvariantViolation" => ~SupplyConserved

(* tier1.rs, Tier1Settler docs: "If any step fails, the entire settlement  *)
(* is rolled back (no partial state)"; spec section 4.1: any failure       *)
(* leaves all four subaccounts unchanged.  A settle_trade step that        *)
(* returns an error changes no balance.                                    *)
AtomicSettlement ==
  [][\A t \in Trades :
       (SettleTrade(t) /\ result' # "Ok") => UNCHANGED <<avail, frozen>>]_vars
====
