------------------------------- MODULE MCEpoch -------------------------------
(* Model-checking instance of Epoch: two users, four limit order          *)
(* templates at prices 1 and 2 with quantities 1 and 2, initial funds of  *)
(* 2 of each asset per user (enough to escrow one buy of 2 at 1), a       *)
(* buffer of 3 orders (so at most 2 trades per bundle).  Withdrawals    *)
(* move 2; one deposit of 1 of the quote asset, by either user, may come  *)
(* at any point (the cap of 5 is one above the initial total of 4; a base *)
(* deposit only raises available too, and allowing it triples the state   *)
(* space).                                                                 *)
(* The idempotency cache holds 2 ids, the most trades a bundle has.      *)
(* Decimal::MAX is 4, above the largest escrow, so no amount overflows.   *)
EXTENDS Epoch

CONSTANTS u1, u2

MCUsers == {u1, u2}

L(u, sd, p, q) ==
  [id |-> 0, user |-> u, side |-> sd, otype |-> "Limit", price |-> p,
   qty |-> q, rem |-> q, seq |-> 0]

(* a partial fill across two trades (u1's buy of 2 against two sells of  *)
(* 1), u1 on both sides (the self-trade skip), and a buy at 2 that may    *)
(* clear at 1 (price improvement)                                          *)
MCTemplates ==
  { L(u1, "Buy", 1, 2), L(u1, "Sell", 1, 1), L(u2, "Sell", 1, 1),
    L(u2, "Buy", 2, 1) }

MCAmounts == {2}
MCDepositAssets == {Quote}
MCDepositAmounts == {1}
MCDepositCap == 5
MCInitialFunds == 2
MCDecMax == 4
MCMaxOrders == 3
MCCacheSize == 2
=============================================================================
