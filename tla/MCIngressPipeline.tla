------------------------- MODULE MCIngressPipeline -------------------------
(* Model values and bounds for IngressPipeline.                            *)
EXTENDS IngressPipeline

CONSTANTS u1, u2

(* Order parameters, chosen so that a few submissions reach every path:  *)
(* a crossing buy and sell of u1 (self-trade), a sell of 2 against a buy  *)
(* of 1 (partial fill), an ask above the midpoint, market orders on both  *)
(* sides and a cancel.                                                     *)
T(u, s, ty, p, q) == [user |-> u, side |-> s, otype |-> ty, price |-> p, qty |-> q]
MCTemplates ==
  { T(u1, "Buy",  "Limit",  2, 1),
    T(u1, "Sell", "Limit",  1, 1),
    T(u2, "Sell", "Limit",  1, 2),
    T(u2, "Buy",  "Market", 0, 1),
    T(u2, "Sell", "Market", 0, 1),
    T(u1, "Buy",  "Cancel", 0, 1),
    T(u2, "Sell", "Limit",  2, 1) }
(* the limit orders alone: EpochPipeline::submit_order builds every order *)
(* with Order::dummy_limit and escrows price x quantity for a buy          *)
MCLimitTemplates == {t \in MCTemplates : t.otype = "Limit"}
=============================================================================
