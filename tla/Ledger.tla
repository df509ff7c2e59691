------------------------------- MODULE Ledger -------------------------------
(***************************************************************************)
(* The per-(user, asset) balance ledger of openmatch-core                  *)
(* (crates/openmatch-core/src/balance_manager.rs, BalanceManager).         *)
(*                                                                         *)
(* Decimal amounts are abstracted to small naturals: every amount the      *)
(* ledger handles is an integer multiple of the smallest unit used by the  *)
(* model.  A missing HashMap entry reads as a zero BalanceEntry, so the    *)
(* ledger is a total function over Users x Assets that starts at zero.     *)
(*                                                                         *)
(* Every operation is given as two operators: <Op>Result, the error the    *)
(* code returns (or "Ok") in the current state, and <Op>, the state change *)
(* the code makes.  settle_trade is the only operation whose state change  *)
(* is not all-or-nothing: SettleTrade describes the balances it leaves     *)
(* behind in every outcome, "Ok" or not.                                   *)
(***************************************************************************)
EXTENDS Integers

CONSTANTS
  Users,   \* user identifiers (model values)
  Base,    \* base asset of the single market pair (e.g. "BTC")
  Quote    \* quote asset of the market pair (e.g. "USDT")

Assets == {Base, Quote}

VARIABLES
  avail,   \* avail[u][a]  : BalanceEntry.available
  frozen   \* frozen[u][a] : BalanceEntry.frozen

ledgerVars == <<avail, frozen>>

Sides == {"Buy", "Sell"}

(* A Trade as settle_trade reads it: id, the two counterparties, the     *)
(* taker's side, quantity (base units) and quote_amount (quote units).   *)
TradeRec(Ids, Qtys, QuoteAmts) ==
  [id: Ids, taker: Users, maker: Users, takerSide: Sides,
   qty: Qtys, quoteAmt: QuoteAmts]

LedgerInit ==
  /\ avail  = [u \in Users |-> [a \in Assets |-> 0]]
  /\ frozen = [u \in Users |-> [a \in Assets |-> 0]]

(* total() of one entry *)
Total(u, a) == avail[u][a] + frozen[u][a]

-----------------------------------------------------------------------------
(* deposit: amount must be positive; available += amount.                 *)
DepositResult(u, a, x) == IF x <= 0 THEN "InvalidOrder" ELSE "Ok"

Deposit(u, a, x) ==
  /\ avail' = [avail EXCEPT ![u][a] = @ + x]
  /\ UNCHANGED frozen

(* withdraw: amount positive and available >= amount; available -= amount *)
WithdrawResult(u, a, x) ==
  CASE x <= 0           -> "InvalidOrder"
    [] avail[u][a] < x  -> "InsufficientBalance"
    [] OTHER            -> "Ok"

Withdraw(u, a, x) ==
  /\ avail' = [avail EXCEPT ![u][a] = @ - x]
  /\ UNCHANGED frozen

(* mutant: freeze checks only the amount's sign                           *)
FreezeResultNoFundsCheck(u, a, x) == IF x <= 0 THEN "InvalidOrder" ELSE "Ok"

(* freeze: available -> frozen, same checks as withdraw.                  *)
FreezeResult(u, a, x) == WithdrawResult(u, a, x)

Freeze(u, a, x) ==
  /\ avail'  = [avail  EXCEPT ![u][a] = @ - x]
  /\ frozen' = [frozen EXCEPT ![u][a] = @ + x]

(* unfreeze: frozen -> available; fails with InsufficientFrozen.          *)
UnfreezeResult(u, a, x) ==
  CASE x <= 0            -> "InvalidOrder"
    [] frozen[u][a] < x  -> "InsufficientFrozen"
    [] OTHER             -> "Ok"

Unfreeze(u, a, x) ==
  /\ avail'  = [avail  EXCEPT ![u][a] = @ + x]
  /\ frozen' = [frozen EXCEPT ![u][a] = @ - x]

-----------------------------------------------------------------------------
(* settle_trade: counterparties from the taker side, then four get_mut    *)
(* blocks executed in order.  The buyer's two legs are written before the *)
(* seller's frozen balance is checked, so a seller-side failure returns   *)
(* InsufficientFrozen with the buyer's legs already applied.             *)
Buyer(t)  == IF t.takerSide = "Buy" THEN t.taker ELSE t.maker
Seller(t) == IF t.takerSide = "Buy" THEN t.maker ELSE t.taker

(* balances after the buyer's two legs *)
BuyerLegsAvail(t)  == [avail  EXCEPT ![Buyer(t)][Base]  = @ + t.qty]
BuyerLegsFrozen(t) == [frozen EXCEPT ![Buyer(t)][Quote] = @ - t.quoteAmt]

SettleResult(t) ==
  CASE frozen[Buyer(t)][Quote] < t.quoteAmt                 -> "InsufficientFrozen"
    [] BuyerLegsFrozen(t)[Seller(t)][Base] < t.qty          -> "InsufficientFrozen"
    [] OTHER                                                -> "Ok"

(* mutant: the seller's frozen base is debited without the check          *)
SettleTradeNoSellerCheck(t) ==
  IF frozen[Buyer(t)][Quote] < t.quoteAmt THEN UNCHANGED ledgerVars
  ELSE /\ frozen' = [BuyerLegsFrozen(t) EXCEPT ![Seller(t)][Base] = @ - t.qty]
       /\ avail'  = [BuyerLegsAvail(t)  EXCEPT ![Seller(t)][Quote] = @ + t.quoteAmt]

SettleTrade(t) ==
  CASE frozen[Buyer(t)][Quote] < t.quoteAmt ->
         UNCHANGED ledgerVars
    [] BuyerLegsFrozen(t)[Seller(t)][Base] < t.qty ->
         /\ avail'  = BuyerLegsAvail(t)
         /\ frozen' = BuyerLegsFrozen(t)
    [] OTHER ->
         /\ frozen' = [BuyerLegsFrozen(t) EXCEPT ![Seller(t)][Base] = @ - t.qty]
         /\ avail'  = [BuyerLegsAvail(t)  EXCEPT ![Seller(t)][Quote] = @ + t.quoteAmt]

-----------------------------------------------------------------------------
(* Sum over users of total() for one asset.                                *)
RECURSIVE SumOver(_, _)
SumOver(S, a) ==
  IF S = {} THEN 0
  ELSE LET u == CHOOSE v \in S : TRUE
       IN Total(u, a) + SumOver(S \ {u}, a)

Supply(a) == SumOver(Users, a)

(* Every BalanceEntry non-negative (spec section 8, first invariant).     *)
BalancesNonNegative ==
  \A u \in Users, a \in Assets : avail[u][a] >= 0 /\ frozen[u][a] >= 0

LedgerTypeOK ==
  /\ avail  \in [Users -> [Assets -> Int]]
  /\ frozen \in [Users -> [Assets -> Int]]
=============================================================================
