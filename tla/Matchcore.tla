----------------------------- MODULE Matchcore -----------------------------
(***************************************************************************)
(* The pure matcher of openmatch-matchcore: the price-level order book     *)
(* (orderbook.rs, price_level.rs), the midpoint clearing price             *)
(* (clearing.rs, compute_clearing_price) and match_sealed_batch            *)
(* (matcher.rs).  Orders are the records of module Orders, extended with  *)
(* the field sr (the SpendRight that funds them).                          *)
(*                                                                         *)
(* The clearing price is the midpoint (best_bid + best_ask) / 2, so it is  *)
(* kept doubled: cp2 = best_bid + best_ask, and a price p is >= cp iff     *)
(* 2 * p >= cp2.  Quote amounts are kept doubled as well.  Decimal         *)
(* arithmetic panics on overflow ("Addition overflowed", "Multiplication   *)
(* overflowed"); a panicking call yields a bundle with panic = TRUE.       *)
(***************************************************************************)
EXTENDS Orders, Sequences, SequencesExt, TLC

MinOf(x, y) == IF x < y THEN x ELSE y

-----------------------------------------------------------------------------
(* OrderBook built by match_sealed_batch: every order of the batch but the *)
(* Cancel ones is inserted at its effective price; a level keeps its       *)
(* orders in insertion (FIFO) order.  Ids are unique in a sealed batch,    *)
(* so insert_order never returns DuplicateOrder.                           *)
IsBookOrder(o) == o.otype # "Cancel"

LevelOrders(batch, side, p) ==
  SelectSeq(batch, LAMBDA o : IsBookOrder(o) /\ o.side = side /\ EffectivePrice(o) = p)

SidePrices(batch, side) ==
  {EffectivePrice(o) : o \in {x \in ToSet(batch) : IsBookOrder(x) /\ x.side = side}}

(* bids: BTreeMap<Reverse<Decimal>, PriceLevel>, highest price first;      *)
(* asks: BTreeMap<Decimal, PriceLevel>, lowest price first                 *)
BidLevels(batch) ==
  LET ps == SetToSortSeq(SidePrices(batch, "Buy"), >)
  IN [i \in 1..Len(ps) |-> [price |-> ps[i], orders |-> LevelOrders(batch, "Buy", ps[i])]]
AskLevels(batch) ==
  LET ps == SetToSortSeq(SidePrices(batch, "Sell"), <)
  IN [i \in 1..Len(ps) |-> [price |-> ps[i], orders |-> LevelOrders(batch, "Sell", ps[i])]]

(* PriceLevel::total_quantity *)
LevelQty(l) == FoldLeft(LAMBDA acc, o : acc + o.rem, 0, l.orders)

(* OrderBook::drain_all: bid levels best first, then ask levels            *)
DrainAll(bl, al) ==
  FoldLeft(LAMBDA acc, l : acc \o l.orders, <<>>, bl \o al)

-----------------------------------------------------------------------------
(* compute_clearing_price.  The walk state is [bi, ai, demand, supply,     *)
(* matchable] with 1-based level indices.                                  *)

(* the first loop: advance both sides while bid_price >= ask_price         *)
RECURSIVE CrossWalk(_, _, _)
CrossWalk(bl, al, st) ==
  IF st.bi > Len(bl) \/ st.ai > Len(al) \/ bl[st.bi].price < al[st.ai].price THEN st
  ELSE LET d == st.demand + LevelQty(bl[st.bi])
           s == st.supply + LevelQty(al[st.ai])
       IN CrossWalk(bl, al, [bi |-> st.bi + 1, ai |-> st.ai + 1,
                             demand |-> d, supply |-> s, matchable |-> MinOf(d, s)])

(* the second loop: remaining bids that cross the last ask level walked    *)
RECURSIVE BidTailWalk(_, _, _)
BidTailWalk(bl, al, st) ==
  IF st.bi > Len(bl) \/ st.ai = 1 \/ bl[st.bi].price < al[st.ai - 1].price THEN st
  ELSE LET d == st.demand + LevelQty(bl[st.bi])
       IN BidTailWalk(bl, al, [st EXCEPT !.bi = @ + 1, !.demand = d,
                                         !.matchable = MinOf(d, st.supply)])

NoCrossing == [found |-> FALSE, panic |-> FALSE, cp2 |-> 0, volume |-> 0]

ComputeClearingPrice(bl, al) ==
  IF bl = <<>> \/ al = <<>> \/ bl[1].price < al[1].price THEN NoCrossing
  ELSE LET st0 == [bi |-> 1, ai |-> 1, demand |-> 0, supply |-> 0, matchable |-> 0]
           st  == BidTailWalk(bl, al, CrossWalk(bl, al, st0))
           sum == bl[1].price + al[1].price
       IN CASE st.matchable = 0 -> NoCrossing
            [] sum > DecMax     -> [NoCrossing EXCEPT !.panic = TRUE]
            [] OTHER            -> [found |-> TRUE, panic |-> FALSE, cp2 |-> sum,
                                    volume |-> st.matchable]

-----------------------------------------------------------------------------
(* match_sealed_batch, step 3.  The walk state is [bi, ai, bids, asks,     *)
(* trades, fseq, panic].                                                   *)

(* the orders of the levels on the crossing side of cp, by sequence        *)
BySeq(a, b) == a.seq < b.seq
CrossingBids(bl, cp2) ==
  SortSeq(DrainAll(SelectSeq(bl, LAMBDA l : 2 * l.price >= cp2), <<>>), BySeq)
(* mutant: every ask level is collected, whatever its price               *)
CrossingAsksAllLevels(al, cp2) ==
  SortSeq(DrainAll(<<>>, al), BySeq)
CrossingAsks(al, cp2) ==
  SortSeq(DrainAll(<<>>, SelectSeq(al, LAMBDA l : 2 * l.price <= cp2)), BySeq)

(* the Trade a fill emits, with the fields the model keeps                 *)
NewTrade(fseq, b, a, cp2, f) ==
  [id |-> fseq, takerOrder |-> b.id, makerOrder |-> a.id, taker |-> b.user,
   maker |-> a.user, price2 |-> cp2, qty |-> f, quote2 |-> cp2 * f]

(* one fill: quote_amount = clearing_price * fill_qty, which panics when   *)
(* it exceeds Decimal::MAX; otherwise push the trade, decrement both       *)
(* remaining quantities and advance ask_idx if the ask is exhausted        *)
Fill(cp2, st) ==
  LET b == st.bids[st.bi]
      a == st.asks[st.ai]
      f == MinOf(b.rem, a.rem)
      t == NewTrade(st.fseq, b, a, cp2, f)
  IN IF cp2 * f > 2 * DecMax THEN [st EXCEPT !.panic = TRUE]
     ELSE [st EXCEPT !.bids[st.bi].rem = @ - f,
                     !.asks[st.ai].rem = @ - f,
                     !.trades = Append(@, t),
                     !.fseq   = @ + 1,
                     !.ai     = IF a.rem = f THEN @ + 1 ELSE @]

(* mutant: no self-trade prevention                                        *)
RECURSIVE AskLoopNoSelfTradeCheck(_, _)
AskLoopNoSelfTradeCheck(cp2, st) ==
  IF st.panic \/ st.ai > Len(st.asks) \/ st.bids[st.bi].rem = 0 THEN st
  ELSE IF st.asks[st.ai].rem = 0 THEN AskLoopNoSelfTradeCheck(cp2, [st EXCEPT !.ai = @ + 1])
       ELSE AskLoopNoSelfTradeCheck(cp2, Fill(cp2, st))

(* the `while ask_idx < asks.len() && bid.remaining_qty > 0` loop          *)
RECURSIVE AskLoop(_, _)
AskLoop(cp2, st) ==
  IF st.panic \/ st.ai > Len(st.asks) \/ st.bids[st.bi].rem = 0 THEN st
  ELSE CASE st.asks[st.ai].rem = 0                   -> AskLoop(cp2, [st EXCEPT !.ai = @ + 1])
         [] st.bids[st.bi].user = st.asks[st.ai].user -> AskLoop(cp2, [st EXCEPT !.ai = @ + 1])
         [] OTHER                                     -> AskLoop(cp2, Fill(cp2, st))

(* the `for bid in &mut bids` loop                                         *)
RECURSIVE BidLoop(_, _)
BidLoop(cp2, st) ==
  IF st.panic \/ st.bi > Len(st.bids) THEN st
  ELSE BidLoop(cp2, [AskLoop(cp2, st) EXCEPT !.bi = @ + 1])

TradedIn(trades, o) ==
  \E k \in 1..Len(trades) : trades[k].takerOrder = o.id \/ trades[k].makerOrder = o.id

(* mutant: drained orders that traded are collected again                 *)
RemainingNoTradedFilter(st, drained) ==
  LET walked == SelectSeq(st.bids \o st.asks, LAMBDA o : o.rem > 0)
      Fresh(o) == \A k \in 1..Len(walked) : walked[k].id # o.id
  IN walked \o SelectSeq(drained, Fresh)

(* step 5: walked orders with remaining quantity, then the drained orders  *)
(* neither already remaining nor part of any trade                         *)
Remaining(st, drained) ==
  LET walked == SelectSeq(st.bids \o st.asks, LAMBDA o : o.rem > 0)
      Fresh(o) == (\A k \in 1..Len(walked) : walked[k].id # o.id) /\ ~TradedIn(st.trades, o)
  IN walked \o SelectSeq(drained, Fresh)

(* the TradeBundle without its hashes: trades, remaining_orders, the       *)
(* clearing price (found, cp2) and whether the call panicked               *)
MatchSealedBatch(batch) ==
  LET bl == BidLevels(batch)
      al == AskLevels(batch)
      cl == ComputeClearingPrice(bl, al)
      st0 == [bi |-> 1, ai |-> 1, bids |-> CrossingBids(bl, cl.cp2),
              asks |-> CrossingAsks(al, cl.cp2), trades |-> <<>>, fseq |-> 0,
              panic |-> FALSE]
      st == BidLoop(cl.cp2, st0)
  IN CASE batch = <<>> -> [panic |-> FALSE, found |-> FALSE, cp2 |-> 0,
                           trades |-> <<>>, remaining |-> <<>>]
       [] cl.panic     -> [panic |-> TRUE, found |-> FALSE, cp2 |-> 0,
                           trades |-> <<>>, remaining |-> <<>>]
       [] ~cl.found    -> [panic |-> FALSE, found |-> FALSE, cp2 |-> 0,
                           trades |-> <<>>, remaining |-> DrainAll(bl, al)]
       [] st.panic     -> [panic |-> TRUE, found |-> FALSE, cp2 |-> 0,
                           trades |-> <<>>, remaining |-> <<>>]
       [] OTHER        -> [panic |-> FALSE, found |-> TRUE, cp2 |-> cl.cp2,
                           trades |-> st.trades, remaining |-> Remaining(st, DrainAll(bl, al))]
=============================================================================
