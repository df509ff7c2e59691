---------------------------- MODULE MCOrderBook ----------------------------
(* Model values and bounds for OrderBook.                                  *)
EXTENDS OrderBook

CONSTANTS o1, o2, o3

(* Orders under three ids: limit buys and sells at two prices (two orders *)
(* at one level, levels on both sides), a market buy at Decimal::MAX, a    *)
(* market sell and a cancel at 0, and the same id reused with another      *)
(* order (DuplicateOrder).                                                 *)
B(id, s, ty, p) == [id |-> id, user |-> "u", side |-> s, otype |-> ty, price |-> p,
                    qty |-> 1, rem |-> 1, seq |-> 0]
MCBookOrders ==
  { B(o1, "Buy",  "Limit",  1), B(o1, "Sell", "Limit", 2),
    B(o2, "Buy",  "Limit",  1), B(o2, "Buy",  "Market", 0),
    B(o3, "Buy",  "Limit",  2), B(o3, "Sell", "Market", 0),
    B(o3, "Buy",  "Cancel", 0) }
=============================================================================
