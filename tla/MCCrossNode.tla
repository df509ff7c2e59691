----------------------------- MODULE MCCrossNode -----------------------------
(* Two nodes, buffers of 2 orders, four limit orders.  s1 and s1x are the  *)
(* same sell (id, user, SpendRight, sequence) at price 1 for 12 and at     *)
(* price 11 for 2; b2 is a buy at 11 for 12 that crosses either; b3 is a   *)
(* buy with b2's sequence, so the tie-break on the order id decides their  *)
(* place in a sealed batch.  Decimal::MAX is 100, above every amount       *)
(* (the largest doubled quote amount is 12 * 12).  Two orders per buffer   *)
(* are enough for both nodes to seal a crossing pair.                      *)
EXTENDS CrossNode

CONSTANTS n1, n2, u1, u2

MCNodes == {n1, n2}

Lim(id, u, sd, p, q, sq) ==
  [id |-> id, user |-> u, sr |-> id, side |-> sd, otype |-> "Limit",
   price |-> p, qty |-> q, rem |-> q, seq |-> sq]

MCOrderSet ==
  { Lim(1, u2, "Sell", 1, 12, 1), Lim(1, u2, "Sell", 11, 2, 1),
    Lim(2, u1, "Buy", 11, 12, 2), Lim(3, u1, "Buy", 1, 2, 2) }
=============================================================================
