------------------------------- MODULE Epoch -------------------------------
(***************************************************************************)
(* One epoch of openmatch-core end to end: the PendingBuffer and           *)
(* BatchMatcher of MatchEpoch composed with the SecuredBalanceManager of   *)
(* SecuredLedger, driven through the phases of EpochPhase (epoch.rs).      *)
(*                                                                         *)
(* Users deposit, withdraw and submit orders.  Submitting an order freezes          *)
(* its escrow on the ledger and then pushes it into the buffer, which is   *)
(* what the callers in tests/integration_full_cycle.rs do (limit buys      *)
(* freeze price x quantity of the quote asset, sells their quantity of the *)
(* base asset).  The epoch controller moves the phase with                 *)
(* EpochPhase::next, seals in SEAL, matches in MATCH and, in FINALIZE,      *)
(* calls settle_trade on each trade of the bundle in bundle order (the     *)
(* settlement loop of the same tests).  Every call is one atomic step of   *)
(* the shard's single executor; user calls interleave with the            *)
(* controller's at any point.  An operator may set the emergency lock and  *)
(* run verify_supply_conservation, and settle_trade may be called again    *)
(* with a trade already handed to it (a coordinator retrying after a lost  *)
(* reply: the replay the idempotency guard exists for).  Spec assumes users never unfreeze escrow   *)
(* (the core buffer has no way to withdraw a pushed order, so there is no  *)
(* honest cancel); SpecWithUnfreeze adds unfreeze, which is not gated by    *)
(* phase, at any point.                                                    *)
(***************************************************************************)
EXTENDS Integers, Sequences, SequencesExt, FiniteSets

CONSTANTS
  Users, Base, Quote,
  OrderTemplates,      \* limit orders users may submit (id and seq filled in)
  InitialFunds,        \* what every user has deposited of each asset
  Amounts,             \* amounts of withdraw and unfreeze calls
  DepositAssets,       \* assets of deposit calls
  DepositAmounts,      \* amounts of deposit calls
  DepositCap,          \* bound: total deposits per asset the model allows
  CacheSize, DecMax, BatchIdVal, MaxOrdersPerBatch

VARIABLES
  avail, frozen, guardQueue, phase, emergency, deposits, withdrawals,
  result, applied,                                   \* the facade
  orders, sequenceCounter, sealed, batchHash,         \* the buffer
  matchResult, taken, bundle,                         \* the matcher
  settleIdx            \* the settlement loop's position in bundle.trades

(* trade ids of one batch: TradeId::deterministic(batch_id, fill_sequence) *)
(* with fill_sequence from 0; at most MaxOrdersPerBatch - 1 fills          *)
FillIds == 0..(MaxOrdersPerBatch - 1)

(* the trades settle_trade may see, by id                                  *)
FillTrades == [id : FillIds]

SL == INSTANCE SecuredLedger WITH Trades <- FillTrades, MaxDeposit <- DepositCap
ME == INSTANCE MatchEpoch WITH result <- matchResult

ledgerVars == <<avail, frozen, guardQueue, phase, emergency, deposits,
                withdrawals, result, applied>>
matchVars  == <<orders, sequenceCounter, sealed, batchHash, matchResult,
                taken, bundle>>
vars == <<ledgerVars, matchVars, settleIdx>>

(* the facade after each user has deposited InitialFunds of each asset    *)
Init ==
  /\ avail       = [u \in Users |-> [a \in SL!Assets |-> InitialFunds]]
  /\ frozen      = [u \in Users |-> [a \in SL!Assets |-> 0]]
  /\ deposits    = [a \in SL!Assets |-> InitialFunds * Cardinality(Users)]
  /\ withdrawals = [a \in SL!Assets |-> 0]
  /\ guardQueue = <<>> /\ phase = "Collect" /\ emergency = FALSE
  /\ result = "Ok" /\ applied = [id \in FillIds |-> 0]
  /\ ME!Init
  /\ settleIdx = 1

-----------------------------------------------------------------------------
(* mutant: MATCH moves to a phase the enum does not have                   *)
NextPhaseSettle(p) ==
  CASE p = "Collect" -> "Seal"
    [] p = "Seal"    -> "Match"
    [] p = "Match"   -> "Settle"
    [] OTHER         -> "Collect"

(* EpochPhase::next: COLLECT -> SEAL -> MATCH -> FINALIZE -> COLLECT        *)
NextPhase(p) ==
  CASE p = "Collect" -> "Seal"
    [] p = "Seal"    -> "Match"
    [] p = "Match"   -> "Finalize"
    [] OTHER         -> "Collect"

(* mutants: a sell escrows the quote asset; a buy escrows only quantity    *)
EscrowAssetSwapped(t)    == IF t.side = "Buy" THEN Quote ELSE Quote
EscrowAmountNoPrice(t)   == t.qty

(* the escrow the caller freezes before pushing a limit order              *)
EscrowAsset(t)  == IF t.side = "Buy" THEN Quote ELSE Base
EscrowAmount(t) == IF t.side = "Buy" THEN t.price * t.qty ELSE t.qty

BundleTrades == bundle.trades
Matched == taken /\ matchResult = "Ok"

-----------------------------------------------------------------------------
(* user and operator calls                                                 *)
Deposit(u, a, x) ==
  /\ SL!DepositOp(u, a, x)
  /\ UNCHANGED <<matchVars, settleIdx>>

Withdraw(u, a, x) ==
  /\ SL!WithdrawOp(u, a, x)
  /\ UNCHANGED <<matchVars, settleIdx>>

Unfreeze(u, a, x) ==
  /\ SL!UnfreezeOp(u, a, x)
  /\ UNCHANGED <<matchVars, settleIdx>>

(* freeze the order's escrow; if the freeze fails the order is not pushed; *)
(* if the push fails the escrow stays frozen                               *)
SubmitOrder(t) ==
  /\ ~taken
  /\ SL!FreezeOp(t.user, EscrowAsset(t), EscrowAmount(t))
  /\ IF SL!L!FreezeResult(t.user, EscrowAsset(t), EscrowAmount(t)) = "Ok"
     THEN ME!PushOrder(t)
     ELSE UNCHANGED matchVars
  /\ UNCHANGED settleIdx

SetEmergencyLock(b) ==
  /\ SL!SetEmergencyLock(b)
  /\ UNCHANGED <<matchVars, settleIdx>>

VerifySupply ==
  /\ SL!VerifySupplyConservation
  /\ UNCHANGED <<matchVars, settleIdx>>

(* settle_trade called again with the i-th trade of the bundle, already    *)
(* handed to it by the settlement loop                                     *)
RetrySettle(i) ==
  /\ i < settleIdx
  /\ SL!SettleTradeOp(BundleTrades[i])
  /\ UNCHANGED <<matchVars, settleIdx>>

-----------------------------------------------------------------------------
(* mutant: FINALIZE ends without waiting for the settlement loop          *)
PhaseWorkDoneNoSettleWait ==
  CASE phase = "Seal"     -> sealed
    [] phase = "Match"    -> taken
    [] OTHER              -> TRUE

(* the epoch controller: set_phase(phase.next()) once the phase's work is  *)
(* done (the buffer sealed in SEAL, matched in MATCH, every trade of the   *)
(* bundle handed to settle_trade in FINALIZE)                              *)
PhaseWorkDone ==
  CASE phase = "Seal"     -> sealed
    [] phase = "Match"    -> taken
    [] phase = "Finalize" -> settleIdx > Len(BundleTrades)
    [] OTHER              -> TRUE

AdvancePhase ==
  /\ PhaseWorkDone
  /\ SL!SetPhase(NextPhase(phase))
  /\ UNCHANGED <<matchVars, settleIdx>>

SealEpoch ==
  /\ phase = "Seal"
  /\ ~sealed
  /\ ME!SealBuffer
  /\ UNCHANGED <<ledgerVars, settleIdx>>

MatchSealed ==
  /\ phase = "Match"
  /\ ~taken
  /\ ME!RunMatch
  /\ UNCHANGED <<ledgerVars, settleIdx>>

(* one iteration of `for trade in &result.trades { settle_trade(trade) }` *)
SettleNext ==
  /\ phase = "Finalize"
  /\ taken
  /\ settleIdx <= Len(BundleTrades)
  /\ SL!SettleTradeOp(BundleTrades[settleIdx])
  /\ settleIdx' = settleIdx + 1
  /\ UNCHANGED matchVars

Controller == AdvancePhase \/ SealEpoch \/ MatchSealed \/ SettleNext

Next ==
  \/ \E u \in Users, a \in DepositAssets, x \in DepositAmounts : Deposit(u, a, x)
  \/ \E u \in Users, a \in SL!Assets, x \in Amounts : Withdraw(u, a, x)
  \/ \E t \in OrderTemplates : SubmitOrder(t)
  \/ \E b \in BOOLEAN : SetEmergencyLock(b)
  \/ VerifySupply
  \/ \E i \in DOMAIN BundleTrades : RetrySettle(i)
  \/ Controller

(* WF_vars(MatchSealed) written out, with ENABLED MatchSealed given as the *)
(* state predicate it equals (match_batch always returns a bundle or       *)
(* MatchingFailed), so that checking it need not run match_batch in every  *)
(* state of the MATCH phase                                                *)
MatchSealedEnabled == phase = "Match" /\ ~taken

MatchSealedFair == []<>~MatchSealedEnabled \/ []<><<MatchSealed>>_vars

(* the controller keeps driving the epoch (phase timeouts are driven       *)
(* externally, spec section 5): each of its steps is taken when it stays   *)
(* possible.  In every phase at most one of them is enabled.  Users are   *)
(* not obliged to act.                                                     *)
Fairness ==
  /\ WF_vars(AdvancePhase)
  /\ WF_vars(SealEpoch)
  /\ MatchSealedFair
  /\ WF_vars(SettleNext)

Spec == Init /\ [][Next]_vars /\ Fairness

(* users may also call unfreeze at any point of the epoch                  *)
NextWithUnfreeze ==
  \/ Next
  \/ \E u \in Users, a \in SL!Assets, x \in Amounts : Unfreeze(u, a, x)

SpecWithUnfreeze == Init /\ [][NextWithUnfreeze]_vars /\ Fairness

-----------------------------------------------------------------------------
TypeOK ==
  /\ SL!TypeOK
  /\ ME!TypeOK
  /\ settleIdx \in 1..MaxOrdersPerBatch

(* what u still owes of asset a: before the match, the escrow of u's       *)
(* buffered orders; after it, what the trades not yet handed to           *)
(* settle_trade debit from u's frozen balance                              *)
OrderOwes(o, u, a) ==
  CASE o.user = u /\ o.side = "Buy"  /\ a = Quote -> o.price * o.rem
    [] o.user = u /\ o.side = "Sell" /\ a = Base  -> o.rem
    [] OTHER                                      -> 0

TradeOwes(t, u, a) ==
  CASE a = Quote /\ SL!L!Buyer(t) = u  -> t.quoteAmt
    [] a = Base  /\ SL!L!Seller(t) = u -> t.qty
    [] OTHER                           -> 0

Owed(u, a) ==
  IF taken
  THEN FoldLeft(LAMBDA acc, t : acc + TradeOwes(t, u, a), 0,
                SubSeq(BundleTrades, settleIdx, Len(BundleTrades)))
  ELSE FoldLeft(LAMBDA acc, o : acc + OrderOwes(o, u, a), 0, orders)

(* The escrow frozen when an order is submitted still covers it at every   *)
(* point of the epoch: each user's frozen balance of each asset is at      *)
(* least what their buffered orders escrowed and, after match_batch, what  *)
(* the trades still to be settled will debit (the buyer pays the clearing  *)
(* price, at most its limit, and partial fills across several trades add   *)
(* up to at most the order's quantity).                                    *)
EscrowCoversCommitments ==
  \A u \in Users, a \in SL!Assets : frozen[u][a] >= Owed(u, a)

(* Spec section 8: every available and frozen balance stays >= 0 through  *)
(* the epoch, whatever users deposit, withdraw and submit between the      *)
(* controller's steps (each escrow freeze checks the available balance of  *)
(* the moment; a later withdrawal checks it again).                        *)
BalancesNonNegative == SL!BalancesNonNegative

(* Spec section 8: supply is conserved across the whole epoch, deposits,    *)
(* withdrawals, escrow freezes and every settle_trade of the bundle        *)
(* included.                                                               *)
SupplyConserved == SL!SupplyConserved

(* The controller driving the epoch is enough for it to complete: the     *)
(* buffer is eventually sealed and matched, and every trade of the bundle  *)
(* is eventually settled exactly once.  settle_trade marks a trade in the  *)
(* idempotency guard before it moves any balance, so a settle that failed  *)
(* would leave the trade marked and never applied.  (Matched and applied   *)
(* only grow, so []<> states it for the rest of the behaviour.)            *)
EveryTradeSettled ==
  []<>(Matched /\ \A i \in DOMAIN BundleTrades : applied[BundleTrades[i].id] = 1)
=============================================================================
