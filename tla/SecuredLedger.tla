---------------------------- MODULE SecuredLedger ----------------------------
(***************************************************************************)
(* SecuredBalanceManager of openmatch-core (crates/openmatch-core/src/     *)
(* security.rs): the facade that wraps the BalanceManager ledger with the  *)
(* settlement idempotency guard, the phase-aware withdraw lock, the        *)
(* supply-conservation tracker.  The audit counter ops_count is left out:  *)
(* it is incremented after every successful call and read by nothing.     *)
(*                                                                         *)
(* The facade is called from one executor thread (spec section 5), so each *)
(* call is one atomic step; every call can be made at any time and in any  *)
(* order, by API users (deposit, withdraw, freeze, unfreeze), by the epoch *)
(* controller (set_phase, set_emergency_lock, verify_supply_conservation)  *)
(* and by settlement (settle_trade, possibly replayed).                    *)
(***************************************************************************)
EXTENDS Integers, Sequences, SequencesExt

CONSTANTS
  Users, Base, Quote,
  Trades,     \* the trades settle_trade may be called with (records TradeRec)
  Amounts,    \* amounts callers pass to deposit/withdraw/freeze/unfreeze
  CacheSize,  \* SettlementIdempotencyGuard.max_size (idempotency_cache_size)
  MaxDeposit  \* bound: total deposits per asset the model allows

VARIABLES
  avail, frozen,   \* the inner BalanceManager
  guardQueue,      \* SettlementIdempotencyGuard: insertion-ordered trade ids
  phase,           \* WithdrawLock.current_phase
  emergency,       \* WithdrawLock.emergency_lock
  deposits,        \* SupplyConservation.total_deposits   (0 when absent)
  withdrawals,     \* SupplyConservation.total_withdrawals (0 when absent)
  result,          \* what the last facade call returned ("Ok" or an error)
  applied          \* history: applied[id] = settle_trade calls for id that
                   \* returned Ok (the trade's transfer was executed)

L == INSTANCE Ledger

vars == <<avail, frozen, guardQueue, phase, emergency, deposits,
          withdrawals, result, applied>>

Assets   == L!Assets
TradeIds == {t.id : t \in Trades}

(* openmatch_types::EpochPhase.  check_withdraw_allowed matches Collect    *)
(* (Ok) and `Match | Settle` (locked); the enum has no Settle variant and    *)
(* also has Seal and Finalize, so the model locks every phase but Collect,  *)
(* the only arm that returns Ok.                                            *)
Phases == {"Collect", "Seal", "Match", "Finalize"}

Results == {"Ok", "InvalidOrder", "InsufficientBalance", "InsufficientFrozen",
            "TradeAlreadySettled", "WithdrawLockedDuringSettle",
            "SupplyInvariantViolation"}

Init ==
  /\ L!LedgerInit
  /\ guardQueue  = <<>>
  /\ phase       = "Collect"
  /\ emergency   = FALSE
  /\ deposits    = [a \in Assets |-> 0]
  /\ withdrawals = [a \in Assets |-> 0]
  /\ result      = "Ok"
  /\ applied     = [id \in TradeIds |-> 0]

-----------------------------------------------------------------------------
(* SettlementIdempotencyGuard                                              *)
Settled == ToSet(guardQueue)

(* mutant: evicts one entry early (len >= max_size - 1)                   *)
MarkSettledEvictEarly(id) ==
  IF Len(guardQueue) >= CacheSize - 1 /\ guardQueue # <<>>
  THEN Append(Tail(guardQueue), id)
  ELSE Append(guardQueue, id)

(* mark_settled on an id not yet present: evict the oldest entry when the  *)
(* guard holds max_size ids, then push the new id at the back.             *)
MarkSettled(id) ==
  IF Len(guardQueue) >= CacheSize /\ guardQueue # <<>>
  THEN Append(Tail(guardQueue), id)
  ELSE Append(guardQueue, id)

(* WithdrawLock.check_withdraw_allowed                                      *)
WithdrawAllowed == ~emergency /\ phase = "Collect"

(* SupplyConservation.verify against a map of actual per-asset totals.      *)
VerifyResult(actual) ==
  IF \E a \in Assets : deposits[a] - withdrawals[a] # actual[a]
  THEN "SupplyInvariantViolation" ELSE "Ok"

(* SupplyConservation.record_deposit / record_withdrawal: the new totals   *)
RecordDeposit(a, x)    == [deposits EXCEPT ![a] = @ + x]
RecordWithdrawal(a, x) == [withdrawals EXCEPT ![a] = @ + x]

(* compute_actual_totals: the body builds an empty map and returns it (the  *)
(* iteration over all balances is a TODO), so every asset reads as 0.       *)
ComputeActualTotals == [a \in Assets |-> 0]

-----------------------------------------------------------------------------
(* The facade calls.  A call that returns an error leaves everything but    *)
(* `result` unchanged, except settle_trade (see SettleTradeOp).             *)
Fail(err) ==
  /\ result' = err
  /\ UNCHANGED <<avail, frozen, guardQueue, phase, emergency, deposits,
                 withdrawals, applied>>

Succeed == result' = "Ok"

DepositOp(u, a, x) ==
  /\ deposits[a] + x <= MaxDeposit
  /\ IF L!DepositResult(u, a, x) # "Ok" THEN Fail(L!DepositResult(u, a, x))
     ELSE /\ L!Deposit(u, a, x)
          /\ deposits' = RecordDeposit(a, x)
          /\ Succeed
          /\ UNCHANGED <<guardQueue, phase, emergency, withdrawals, applied>>

(* mutant: record_withdrawal subtracts from the withdrawal total           *)
WithdrawOpSignSlip(u, a, x) ==
  CASE ~WithdrawAllowed -> Fail("WithdrawLockedDuringSettle")
    [] L!WithdrawResult(u, a, x) # "Ok" -> Fail(L!WithdrawResult(u, a, x))
    [] OTHER ->
       /\ L!Withdraw(u, a, x)
       /\ withdrawals' = [withdrawals EXCEPT ![a] = @ - x]
       /\ Succeed
       /\ UNCHANGED <<guardQueue, phase, emergency, deposits, applied>>

WithdrawOp(u, a, x) ==
  /\ CASE ~WithdrawAllowed -> Fail("WithdrawLockedDuringSettle")
       [] L!WithdrawResult(u, a, x) # "Ok" -> Fail(L!WithdrawResult(u, a, x))
       [] OTHER ->
          /\ L!Withdraw(u, a, x)
          /\ withdrawals' = RecordWithdrawal(a, x)
          /\ Succeed
          /\ UNCHANGED <<guardQueue, phase, emergency, deposits, applied>>

FreezeOp(u, a, x) ==
  /\ IF L!FreezeResult(u, a, x) # "Ok" THEN Fail(L!FreezeResult(u, a, x))
     ELSE /\ L!Freeze(u, a, x)
          /\ Succeed
          /\ UNCHANGED <<guardQueue, phase, emergency, deposits, withdrawals, applied>>

UnfreezeOp(u, a, x) ==
  /\ IF L!UnfreezeResult(u, a, x) # "Ok" THEN Fail(L!UnfreezeResult(u, a, x))
     ELSE /\ L!Unfreeze(u, a, x)
          /\ Succeed
          /\ UNCHANGED <<guardQueue, phase, emergency, deposits, withdrawals, applied>>

(* settle_trade: the idempotency guard is marked first; the inner ledger    *)
(* settlement then runs, and its error (if any) is returned with the guard  *)
(* entry kept and whatever balance legs were already written kept.          *)
SettleTradeOp(t) ==
  /\ IF t.id \in Settled THEN Fail("TradeAlreadySettled")
     ELSE /\ guardQueue' = MarkSettled(t.id)
          /\ L!SettleTrade(t)
          /\ result' = L!SettleResult(t)
          /\ applied' = IF L!SettleResult(t) = "Ok"
                         THEN [applied EXCEPT ![t.id] = @ + 1] ELSE applied
          /\ UNCHANGED <<phase, emergency, deposits, withdrawals>>

SetPhase(p) ==
  /\ phase' = p
  /\ UNCHANGED <<avail, frozen, guardQueue, emergency, deposits, withdrawals,
                 result, applied>>

SetEmergencyLock(b) ==
  /\ emergency' = b
  /\ UNCHANGED <<avail, frozen, guardQueue, phase, deposits, withdrawals,
                 result, applied>>

VerifySupplyConservation ==
  /\ result' = VerifyResult(ComputeActualTotals)
  /\ UNCHANGED <<avail, frozen, guardQueue, phase, emergency, deposits,
                 withdrawals, applied>>

Next ==
  \/ \E u \in Users, a \in Assets, x \in Amounts :
       \/ DepositOp(u, a, x)
       \/ WithdrawOp(u, a, x)
       \/ FreezeOp(u, a, x)
       \/ UnfreezeOp(u, a, x)
  \/ \E t \in Trades : SettleTradeOp(t)
  \/ \E p \in Phases : SetPhase(p)
  \/ \E b \in BOOLEAN : SetEmergencyLock(b)
  \/ VerifySupplyConservation

Spec == Init /\ [][Next]_vars

-----------------------------------------------------------------------------
TypeOK ==
  /\ L!LedgerTypeOK
  /\ guardQueue \in Seq(TradeIds)
  /\ phase \in Phases
  /\ emergency \in BOOLEAN
  /\ deposits \in [Assets -> Nat]
  /\ withdrawals \in [Assets -> Nat]
  /\ result \in Results
  /\ applied \in [TradeIds -> Nat]

(* Spec section 8: every available and frozen balance stays >= 0 whatever  *)
(* sequence of deposits, withdrawals, freezes, unfreezes and (replayed or    *)
(* unfunded) settlements the facade receives.                               *)
BalancesNonNegative == L!BalancesNonNegative

(* Spec section 8 / SettlementIdempotencyGuard docs: a trade's transfer is  *)
(* executed at most once, however often settle_trade is replayed with it   *)
(* (bounded guard with insertion-ordered eviction).                         *)
NoDoubleSettlement == \A id \in TradeIds : applied[id] <= 1

(* Spec section 8: for every asset, the sum over users of available +      *)
(* frozen equals total deposits minus total withdrawals, in every state,    *)
(* including after settle_trade calls that return an error.                 *)
SupplyConserved ==
  \A a \in Assets : L!Supply(a) = deposits[a] - withdrawals[a]
=============================================================================
