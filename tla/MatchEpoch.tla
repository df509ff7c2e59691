----------------------------- MODULE MatchEpoch -----------------------------
(***************************************************************************)
(* One epoch of openmatch-core from order collection to the trade bundle:  *)
(* orders are pushed into the PendingBuffer (COLLECT), the buffer is       *)
(* sealed (SEAL), and BatchMatcher::match_batch consumes it with           *)
(* take_orders and matches it (MATCH).  Every call is one atomic step of   *)
(* the shard's single executor; the calls may come in any order, so pushes *)
(* after the seal and a match before the seal are exercised too.           *)
(***************************************************************************)
EXTENDS PendingBuffer, BatchMatcher

CONSTANT OrderTemplates   \* orders a client may submit (id, seq filled in)

VARIABLES
  result,   \* what the last buffer / matcher call returned
  taken,    \* the buffer was moved into match_batch
  bundle    \* the BatchResult of match_batch (NoBundle before)

vars == <<orders, sequenceCounter, sealed, batchHash, result, taken, bundle>>

NoBundle == [trades |-> <<>>, resultHash |-> <<>>, inputHash |-> <<>>,
             remaining |-> <<>>, clearing |-> NoClearing]

Init ==
  /\ BufferInit
  /\ result = "Ok"
  /\ taken = FALSE
  /\ bundle = NoBundle

(* PendingBuffer::push with a fresh OrderId                                  *)
PushOrder(t) ==
  /\ ~taken
  /\ result' = PushResult
  /\ IF PushResult = "Ok" THEN Push([t EXCEPT !.id = sequenceCounter + 1])
     ELSE UNCHANGED bufferVars
  /\ UNCHANGED <<taken, bundle>>

(* PendingBuffer::seal                                                       *)
SealBuffer ==
  /\ ~taken
  /\ result' = SealResult
  /\ IF SealResult = "Ok" THEN Seal ELSE UNCHANGED bufferVars
  /\ UNCHANGED <<taken, bundle>>

(* BatchMatcher::match_batch(buffer): take_orders, then the pure match.    *)
(* An unsealed buffer is rejected with MatchingFailed and dropped with the *)
(* moved value.                                                             *)
RunMatch ==
  /\ ~taken
  /\ result' = TakeOrdersResult
  /\ taken' = TRUE
  /\ bundle' = IF TakeOrdersResult = "Ok"
               THEN MatchBatch(BatchIdVal, orders, batchHash) ELSE NoBundle
  /\ UNCHANGED bufferVars

Next ==
  \/ \E t \in OrderTemplates : PushOrder(t)
  \/ SealBuffer
  \/ RunMatch

Spec == Init /\ [][Next]_vars

-----------------------------------------------------------------------------
Matched == taken /\ result = "Ok"

Trades == bundle.trades
TradeIndices == DOMAIN bundle.trades

SortedBuys  == SortSeq(SelectSeq(orders, IsMatchableBuy), BuyBefore)
SortedSells == SortSeq(SelectSeq(orders, IsMatchableSell), SellBefore)

OrderWithId(id) == CHOOSE o \in ToSet(orders) : o.id = id

TradedVolume == FoldLeft(LAMBDA acc, t : acc + t.qty, 0, Trades)

FilledQty(o) ==
  FoldLeft(LAMBDA acc, t : IF o.id \in {t.takerOrder, t.makerOrder}
                           THEN acc + t.qty ELSE acc, 0, Trades)

RemainingQty(o) ==
  IF \E r \in ToSet(bundle.remaining) : r.id = o.id
  THEN (CHOOSE r \in ToSet(bundle.remaining) : r.id = o.id).rem
  ELSE 0

TypeOK ==
  /\ orders \in Seq(OrderRecords(Nat, {t.user : t \in OrderTemplates}))
  /\ Len(orders) <= MaxOrdersPerBatch
  /\ sequenceCounter = Len(orders)
  /\ sealed \in BOOLEAN
  /\ taken \in BOOLEAN
  /\ result \in {"Ok", "BufferAlreadySealed", "BufferFull", "MatchingFailed"}

(* compute_clearing_price's single ascending pass with its is_better       *)
(* tie-breaks selects the price the spec defines (section 4.4): maximal    *)
(* matchable volume, then minimal |demand - supply|, then the highest      *)
(* price; None exactly when no candidate price has positive volume.        *)
(* Checked on every batch the buffer can hold.                             *)
ClearingMatchesReference ==
  ComputeClearingPrice(SortedBuys, SortedSells)
    = ClearingReference(SortedBuys, SortedSells)

(* Spec section 8: no trade of the bundle has the same user as taker and   *)
(* maker (the self-trade skip in match_batch's inner loop).                *)
NoSelfTrade ==
  Matched => \A i \in TradeIndices : Trades[i].taker # Trades[i].maker

(* Every trade respects both limits: the buy order's effective price is at *)
(* least the trade price and the sell order's at most (the two `break`s of *)
(* the walk against the clearing price).                                   *)
LimitsRespected ==
  Matched =>
    \A i \in TradeIndices :
      /\ EffectivePrice(OrderWithId(Trades[i].takerOrder)) >= Trades[i].price
      /\ EffectivePrice(OrderWithId(Trades[i].makerOrder)) <= Trades[i].price

(* Spec section 8: the traded quantity never exceeds min(eligible demand,  *)
(* eligible supply) at the clearing price.                                 *)
VolumeBounded ==
  Matched => TradedVolume <= bundle.clearing.volume

(* Every matchable order's quantity is accounted for: what the walk filled *)
(* plus what is reported in remaining_orders equals the sealed remaining   *)
(* quantity, and orders filled completely are not reported.               *)
FillsConserveQuantity ==
  Matched =>
    \A o \in ToSet(orders) :
      (IsMatchableBuy(o) \/ IsMatchableSell(o)) =>
        /\ FilledQty(o) <= o.rem
        /\ RemainingQty(o) = o.rem - FilledQty(o)

TradesAtLimitPrices ==
  Matched =>
    \A i \in TradeIndices :
      \E o \in ToSet(orders) : o.otype = "Limit" /\ o.price = Trades[i].price
=============================================================================
