---------------------------- MODULE BatchMatcher ----------------------------
(***************************************************************************)
(* The pure matching functions of openmatch-core: the uniform clearing     *)
(* price solver (clearing.rs, compute_clearing_price) and the batch        *)
(* matcher (batch_matcher.rs, BatchMatcher::match_batch).                  *)
(* Orders and their effective price are those of module Orders.          *)
(***************************************************************************)
EXTENDS Orders, HashInput, Sequences, SequencesExt, TLC

MinOf(x, y) == IF x < y THEN x ELSE y
AbsDiff(x, y) == IF x < y THEN y - x ELSE x - y

-----------------------------------------------------------------------------
(* compute_clearing_price(buys, sells)                                      *)
(* The result is a ClearingResult record; found = FALSE stands for None.   *)
NoClearing == [found |-> FALSE, price |-> 0, volume |-> 0, demand |-> 0, supply |-> 0]

(* demand(p): remaining_qty summed over the buys willing to pay >= p;     *)
(* supply(p): remaining_qty summed over the sells willing to take <= p     *)
DemandAt(buys, p) ==
  FoldLeft(LAMBDA acc, b : IF EffectivePrice(b) >= p THEN acc + b.rem ELSE acc, 0, buys)
SupplyAt(sells, p) ==
  FoldLeft(LAMBDA acc, s : IF EffectivePrice(s) <= p THEN acc + s.rem ELSE acc, 0, sells)

(* the distinct effective prices of both sides, Decimal::MAX excluded      *)
PriceSet(buys, sells) ==
  {EffectivePrice(o) : o \in ToSet(buys) \cup ToSet(sells)} \ {DecMax}

Candidate(buys, sells, p) ==
  LET demand == DemandAt(buys, p)
      supply == SupplyAt(sells, p)
  IN [found |-> TRUE, price |-> p, volume |-> MinOf(demand, supply),
      demand |-> demand, supply |-> supply]

(* mutant: the last tie-break prefers the lower price                     *)
IsBetterLowPrice(cand, best) ==
  \/ ~best.found
  \/ cand.volume > best.volume
  \/ /\ cand.volume = best.volume
     /\ \/ AbsDiff(cand.demand, cand.supply) < AbsDiff(best.demand, best.supply)
        \/ /\ AbsDiff(cand.demand, cand.supply) = AbsDiff(best.demand, best.supply)
           /\ cand.price < best.price

(* is_better: more volume, then smaller imbalance, then higher price       *)
IsBetter(cand, best) ==
  \/ ~best.found
  \/ cand.volume > best.volume
  \/ /\ cand.volume = best.volume
     /\ \/ AbsDiff(cand.demand, cand.supply) < AbsDiff(best.demand, best.supply)
        \/ /\ AbsDiff(cand.demand, cand.supply) = AbsDiff(best.demand, best.supply)
           /\ cand.price > best.price

(* the loop over the BTreeSet of prices, in ascending order                *)
ClearingStep(buys, sells, best, p) ==
  LET cand == Candidate(buys, sells, p)
  IN IF cand.volume = 0 \/ ~IsBetter(cand, best) THEN best ELSE cand

ComputeClearingPrice(buys, sells) ==
  IF buys = <<>> \/ sells = <<>> THEN NoClearing
  ELSE FoldLeft(LAMBDA best, p : ClearingStep(buys, sells, best, p),
                NoClearing, SetToSortSeq(PriceSet(buys, sells), <))

-----------------------------------------------------------------------------
(* match_batch.  The walk keeps the loop state of the code in a record:   *)
(* bi (the buy being walked), si (sell_idx), the two sorted order lists    *)
(* with their remaining quantities, the emitted trades and fill_sequence.  *)

(* sort keys: buys by (effective_price desc, sequence asc), sells by       *)
(* (effective_price asc, sequence asc)                                     *)
BuyBefore(a, b) ==
  \/ EffectivePrice(a) > EffectivePrice(b)
  \/ EffectivePrice(a) = EffectivePrice(b) /\ a.seq < b.seq
SellBefore(a, b) ==
  \/ EffectivePrice(a) < EffectivePrice(b)
  \/ EffectivePrice(a) = EffectivePrice(b) /\ a.seq < b.seq

(* quote_amount = cp.checked_mul(fill).unwrap_or(Decimal::MAX)             *)
QuoteAmount(cp, fill) == IF cp * fill > DecMax THEN DecMax ELSE cp * fill

(* mutant: the sell's remaining quantity is not decremented               *)
FillKeepSell(cp, st) ==
  LET b == st.buys[st.bi]
      s == st.sells[st.si]
      f == MinOf(b.rem, s.rem)
      t == [id |-> st.fseq, takerOrder |-> b.id, makerOrder |-> s.id,
            taker |-> b.user, maker |-> s.user, takerSide |-> "Buy",
            price |-> cp, qty |-> f, quoteAmt |-> QuoteAmount(cp, f)]
  IN [st EXCEPT !.buys[st.bi].rem = @ - f, !.trades = Append(@, t),
                !.fseq = @ + 1, !.si = IF s.rem = f THEN @ + 1 ELSE @]

Fill(cp, st) ==
  LET b == st.buys[st.bi]
      s == st.sells[st.si]
      f == MinOf(b.rem, s.rem)
      t == [id |-> st.fseq, takerOrder |-> b.id, makerOrder |-> s.id,
            taker |-> b.user, maker |-> s.user, takerSide |-> "Buy",
            price |-> cp, qty |-> f, quoteAmt |-> QuoteAmount(cp, f)]
  IN [st EXCEPT !.buys[st.bi].rem  = @ - f,
                !.sells[st.si].rem = @ - f,
                !.trades = Append(@, t),
                !.fseq   = @ + 1,
                !.si     = IF s.rem = f THEN @ + 1 ELSE @]

(* mutant: no self-trade prevention                                        *)
RECURSIVE SellLoopNoSelfTradeCheck(_, _)
SellLoopNoSelfTradeCheck(cp, st) ==
  IF st.si > Len(st.sells) \/ st.buys[st.bi].rem = 0 THEN st
  ELSE LET s == st.sells[st.si] IN
       CASE EffectivePrice(s) > cp -> st
         [] s.rem = 0              -> SellLoopNoSelfTradeCheck(cp, [st EXCEPT !.si = @ + 1])
         [] OTHER                  -> SellLoopNoSelfTradeCheck(cp, Fill(cp, st))

(* mutant: no `sell.effective_price() > cp` break                          *)
RECURSIVE SellLoopNoPriceBreak(_, _)
SellLoopNoPriceBreak(cp, st) ==
  IF st.si > Len(st.sells) \/ st.buys[st.bi].rem = 0 THEN st
  ELSE LET s == st.sells[st.si] IN
       CASE s.rem = 0                     -> SellLoopNoPriceBreak(cp, [st EXCEPT !.si = @ + 1])
         [] st.buys[st.bi].user = s.user  -> SellLoopNoPriceBreak(cp, [st EXCEPT !.si = @ + 1])
         [] OTHER                         -> SellLoopNoPriceBreak(cp, Fill(cp, st))

(* the inner `while sell_idx < sells.len() && buy.remaining_qty > 0` loop  *)
RECURSIVE SellLoop(_, _)
SellLoop(cp, st) ==
  IF st.si > Len(st.sells) \/ st.buys[st.bi].rem = 0 THEN st
  ELSE LET s == st.sells[st.si] IN
       CASE EffectivePrice(s) > cp                -> st
         [] s.rem = 0                             -> SellLoop(cp, [st EXCEPT !.si = @ + 1])
         [] st.buys[st.bi].user = s.user          -> SellLoop(cp, [st EXCEPT !.si = @ + 1])
         [] OTHER                                 -> SellLoop(cp, Fill(cp, st))

(* mutant: no `buy.effective_price() < cp` break                           *)
RECURSIVE BuyLoopNoPriceBreak(_, _)
BuyLoopNoPriceBreak(cp, st) ==
  IF st.bi > Len(st.buys) THEN st
  ELSE IF st.buys[st.bi].rem = 0 THEN BuyLoopNoPriceBreak(cp, [st EXCEPT !.bi = @ + 1])
       ELSE BuyLoopNoPriceBreak(cp, [SellLoop(cp, st) EXCEPT !.bi = @ + 1])

(* the outer `for buy in &mut buys` loop                                    *)
RECURSIVE BuyLoop(_, _)
BuyLoop(cp, st) ==
  IF st.bi > Len(st.buys) THEN st
  ELSE CASE st.buys[st.bi].rem = 0                 -> BuyLoop(cp, [st EXCEPT !.bi = @ + 1])
         [] EffectivePrice(st.buys[st.bi]) < cp    -> st
         [] OTHER -> BuyLoop(cp, [SellLoop(cp, st) EXCEPT !.bi = @ + 1])

(* the partition filters: side matches and the order is not a Cancel      *)
IsMatchableBuy(o)  == o.side = "Buy"  /\ o.otype # "Cancel"
IsMatchableSell(o) == o.side = "Sell" /\ o.otype # "Cancel"
HasRemaining(o)    == o.rem > 0

(* BatchMatcher::compute_result_hash: domain separator, batch id, trade   *)
(* count, then per trade its id, price and quantity strings and the taker  *)
(* and maker order ids                                                     *)
ResultHashInput(batchId, trades) ==
  <<F(20, "openmatch:result:v1:"), F(8, batchId), F(8, Len(trades))>>
  \o FoldLeft(LAMBDA acc, t :
                acc \o <<F(16, t.id)>> \o DecimalStr(t.price) \o DecimalStr(t.qty)
                    \o <<F(16, t.takerOrder), F(16, t.makerOrder)>>,
              <<>>, trades)

(* match_batch on the orders and input hash taken from a sealed buffer of  *)
(* batch batchId: the BatchResult (trades, result and input hashes,        *)
(* remaining_orders, clearing_price)                                       *)
MatchBatch(batchId, orders, inputHash) ==
  LET buys  == SortSeq(SelectSeq(orders, IsMatchableBuy), BuyBefore)
      sells == SortSeq(SelectSeq(orders, IsMatchableSell), SellBefore)
      cl    == ComputeClearingPrice(buys, sells)
      st0   == [bi |-> 1, si |-> 1, buys |-> buys, sells |-> sells,
                trades |-> <<>>, fseq |-> 0]
      st    == IF cl.found THEN BuyLoop(cl.price, st0) ELSE st0
  IN [trades     |-> st.trades,
      resultHash |-> ResultHashInput(batchId, st.trades),
      inputHash  |-> inputHash,
      remaining  |-> SelectSeq(st.buys \o st.sells, HasRemaining),
      clearing   |-> cl]

-----------------------------------------------------------------------------
(* Reference definition of the clearing price (spec section 4.4): among    *)
(* the candidate prices with positive matchable volume, the one with the   *)
(* greatest volume, then the smallest imbalance, then the highest price.   *)
Dominates(c, d) ==
  \/ c.volume > d.volume
  \/ c.volume = d.volume /\ AbsDiff(c.demand, c.supply) < AbsDiff(d.demand, d.supply)
  \/ c.volume = d.volume /\ AbsDiff(c.demand, c.supply) = AbsDiff(d.demand, d.supply)
     /\ c.price >= d.price

ClearingReference(buys, sells) ==
  LET cands == {c \in {Candidate(buys, sells, p) : p \in PriceSet(buys, sells)} :
                  c.volume > 0}
  IN IF buys = <<>> \/ sells = <<>> \/ cands = {} THEN NoClearing
     ELSE CHOOSE c \in cands : \A d \in cands : Dominates(c, d)
=============================================================================
