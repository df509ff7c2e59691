--------------------------- MODULE IngressPipeline ---------------------------
(***************************************************************************)
(* The order flow of openmatch-ingress into openmatch-matchcore (ingress   *)
(* lib.rs, "Order Flow"):                                                  *)
(*   freeze/mint -> RiskKernel.validate -> PendingBuffer.push              *)
(*     -> seal, drain -> BatchSealer.seal -> match_sealed_batch            *)
(* as the EpochPipeline of the settlement end-to-end tests drives it.      *)
(* submit_order stops at the first error ('?'), leaving the earlier steps  *)
(* in place.  Every other public operation of the escrow, the risk kernel  *)
(* and the buffer can be called between submissions, in any order.        *)
(***************************************************************************)
EXTENDS Escrow, RiskKernel, IngressBuffer, Matchcore, FiniteSets

CONSTANTS
  Base, Quote,          \* the market's assets
  Templates,            \* order parameters a client may submit
  Prices,               \* prices set_last_price may be called with
  PriceCap,             \* quote per unit escrowed by a market or cancel buy
  MaxSubmits,           \* bound on submitted orders (each gets an OrderId)
  MaxSupply             \* bound on the sum of all balances (deposits stop there)

VARIABLES
  nextOrder,            \* OrderIds handed out so far; also the sequence
  batch,                \* the last SealedBatch's orders
  bundle                \* the last TradeBundle

vars == <<avail, frozen, srs, orderCounts, lastPrice, buffer, sealed,
          nextOrder, batch, bundle>>

NoBundle == [panic |-> FALSE, found |-> FALSE, cp2 |-> 0, trades |-> <<>>, remaining |-> <<>>]

Init ==
  /\ EscrowInit /\ RiskInit /\ IngressBufferInit
  /\ nextOrder = 0
  /\ batch = <<>>
  /\ bundle = NoBundle

pipelineState == <<nextOrder, batch, bundle>>

TotalHeld == FoldSet(LAMBDA c, acc : acc + avail[c[1]][c[2]] + frozen[c[1]][c[2]], 0,
                     Users \X Assets)

(* BalanceManager::deposit by a client                                     *)
Deposit(u, a, x) ==
  /\ TotalHeld + x <= MaxSupply
  /\ BalanceDeposit(u, a, x)
  /\ UNCHANGED <<riskVars, bufferVars, pipelineState>>

(* the escrow submit_order mints: the quote notional at the limit price   *)
(* for a buy (PriceCap when it has no limit), the base quantity for a sell *)
EscrowAsset(t) == IF t.side = "Buy" THEN Quote ELSE Base
EscrowAmount(t) ==
  IF t.side = "Sell" THEN t.qty
  ELSE t.qty * (IF t.otype = "Limit" THEN t.price ELSE PriceCap)

(* the order submit_order builds (Order::dummy_limit with id, user and     *)
(* sequence set); the template gives its type, and market and cancel      *)
(* orders carry no price                                                  *)
NewOrder(t, id, sr) ==
  [id |-> id, user |-> t.user, side |-> t.side, otype |-> t.otype, price |-> t.price,
   qty |-> t.qty, rem |-> t.qty, seq |-> id, sr |-> sr]

(* EpochPipeline::submit_order: mint, build the order (sequence = its      *)
(* number), validate, push; each step runs only if the previous succeeded  *)
SubmitOrder(t) ==
  LET a  == EscrowAsset(t)
      x  == EscrowAmount(t)
      o  == NewOrder(t, nextOrder, Len(srs) + 1)
  IN
  /\ nextOrder < MaxSubmits
  /\ IF FreezeResult(t.user, a, x) # "Ok"
     THEN UNCHANGED <<escrowVars, riskVars, bufferVars, pipelineState>>
     ELSE /\ Mint(o.id, t.user, a, x)
          /\ nextOrder' = nextOrder + 1
          /\ UNCHANGED <<batch, bundle>>
          /\ CASE ValidateResult(o) # "Ok" ->
                    UNCHANGED <<riskVars, bufferVars>>
               [] PushResult # "Ok" ->
                    /\ Validate(o)
                    /\ UNCHANGED bufferVars
               [] OTHER ->
                    /\ Validate(o)
                    /\ Push(o)

(* EscrowManager::release of a SpendRight (an order cancelled or expired) *)
ReleaseSR(id) ==
  /\ IF ReleaseResult(id) = "Ok" THEN Release(id) ELSE UNCHANGED escrowVars
  /\ UNCHANGED <<riskVars, bufferVars, pipelineState>>

(* EscrowManager::mark_spent *)
MarkSpentSR(id) ==
  /\ IF MarkSpentResult(id) = "Ok" THEN MarkSpent(id) ELSE UNCHANGED escrowVars
  /\ UNCHANGED <<riskVars, bufferVars, pipelineState>>

(* RiskKernel::set_last_price *)
SetPrice(p) ==
  /\ SetLastPrice(p)
  /\ UNCHANGED <<escrowVars, bufferVars, pipelineState>>

(* EpochPipeline::seal_and_match: seal, drain, BatchSealer::seal,          *)
(* verify_batch_hash, match_sealed_batch                                   *)
SealAndMatch ==
  /\ IF SealResult # "Ok"
     THEN UNCHANGED <<bufferVars, batch, bundle>>
     ELSE /\ SealAndDrain
          /\ batch' = SealBatch(buffer)
          /\ bundle' = MatchSealedBatch(SealBatch(buffer))
  /\ UNCHANGED <<escrowVars, riskVars, nextOrder>>

(* the next epoch: RiskKernel::advance_epoch and PendingBuffer::reset      *)
NextEpoch ==
  /\ AdvanceEpoch
  /\ Reset
  /\ UNCHANGED <<escrowVars, pipelineState>>

Next ==
  \/ \E u \in Users, a \in Assets, x \in {1} : Deposit(u, a, x)
  \/ \E t \in Templates : SubmitOrder(t)
  \/ \E id \in 1..Len(srs) : ReleaseSR(id) \/ MarkSpentSR(id)
  \/ \E p \in Prices : SetPrice(p)
  \/ SealAndMatch
  \/ NextEpoch

Spec == Init /\ [][Next]_vars

-----------------------------------------------------------------------------
(* Properties.  The helpers below read the state, not the code's logic.   *)

TypeOK ==
  /\ avail \in [Users -> [Assets -> 0..MaxSupply]]
  /\ frozen \in [Users -> [Assets -> 0..MaxSupply]]
  /\ \A i \in 1..Len(srs) : srs[i].state \in SRStates /\ srs[i].amount > 0
  /\ orderCounts \in [RiskUsers -> 0..MaxOrdersPerUser]
  /\ Len(buffer) <= MaxOrders
  /\ nextOrder \in 0..MaxSubmits

SRAmount(u, a, states) ==
  LET ids == {i \in 1..Len(srs) : srs[i].user = u /\ srs[i].asset = a /\ srs[i].state \in states}
  IN FoldSet(LAMBDA i, acc : acc + srs[i].amount, 0, ids)

(* Escrow backing (escrow.rs mint/release/mark_spent): a user's frozen     *)
(* balance of an asset is exactly the sum of the amounts of their ACTIVE   *)
(* and SPENT SpendRights of it -- no SpendRight without frozen funds, no   *)
(* funds frozen or released twice, whatever the order of mint, release    *)
(* and mark_spent calls.                                                   *)
EscrowBacksSpendRights ==
  \A u \in Users, a \in Assets : frozen[u][a] = SRAmount(u, a, {"Active", "Spent"})

BatchOrder(id) == CHOOSE o \in ToSet(batch) : o.id = id

(* No self trade (matcher.rs self-trade prevention): no trade of the last  *)
(* bundle has the same user as buyer and seller.                           *)
BundleNoSelfTrade ==
  \A i \in 1..Len(bundle.trades) : bundle.trades[i].taker # bundle.trades[i].maker

(* Limits (matcher.rs bid/ask collection): every trade is at a clearing    *)
(* price no higher than its buyer's and no lower than its seller's         *)
(* effective price.                                                        *)
BundleWithinLimits ==
  \A i \in 1..Len(bundle.trades) :
    LET t == bundle.trades[i] IN
    /\ 2 * EffectivePrice(BatchOrder(t.takerOrder)) >= t.price2
    /\ 2 * EffectivePrice(BatchOrder(t.makerOrder)) <= t.price2

(* Quantity (matcher.rs fills and remaining-order collection): in a bundle *)
(* that did not panic, each non-cancel order of the batch appears at most  *)
(* once among the remaining orders, and its fills plus the quantity left   *)
(* there equal its quantity; cancel orders never remain.                   *)
FilledQty(id) ==
  FoldLeft(LAMBDA acc, t : IF t.takerOrder = id \/ t.makerOrder = id THEN acc + t.qty ELSE acc,
           0, bundle.trades)
RemainingEntries(id) == {i \in 1..Len(bundle.remaining) : bundle.remaining[i].id = id}
LeftQty(id) ==
  IF RemainingEntries(id) = {} THEN 0
  ELSE bundle.remaining[CHOOSE i \in RemainingEntries(id) : TRUE].rem
BundleConservesQuantity ==
  ~bundle.panic =>
    \A o \in ToSet(batch) :
      IF o.otype = "Cancel" THEN RemainingEntries(o.id) = {}
      ELSE /\ Cardinality(RemainingEntries(o.id)) <= 1
           /\ FilledQty(o.id) + LeftQty(o.id) = o.qty

(* lib.rs: "Every order entering MatchCore must have a valid SpendRight": *)
(* when seal_and_match hands the sealed batch to match_sealed_batch, no    *)
(* order of it has had its SpendRight released (and its funds unfrozen).  *)
MatchedOrdersBacked ==
  [][SealAndMatch /\ SealResult = "Ok"
       => \A i \in 1..Len(buffer) : srs[buffer[i].sr].state # "Released"]_vars

(* match_sealed_batch is documented as total on a sealed batch: it never   *)
(* panics, whatever orders the risk kernel let through.                    *)
MatchNeverPanics == ~bundle.panic
=============================================================================
