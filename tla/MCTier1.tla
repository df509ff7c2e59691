-------------------------------- MODULE MCTier1 --------------------------------
(* Model-checking instance of Tier1: two users, one market pair, two trades *)
(* between u1 and u2 (Buy taker and Sell taker).                            *)
EXTENDS Tier1, TLC

CONSTANTS u1, u2

MCTrades ==
  { [id |-> "t1", taker |-> u1, maker |-> u2, takerSide |-> "Buy",
     qty |-> 1, quoteAmt |-> 1],
    [id |-> "t2", taker |-> u1, maker |-> u2, takerSide |-> "Sell",
     qty |-> 1, quoteAmt |-> 1] }

(* 0 reaches the freeze of a missing entry and an entry created with 0    *)
MCAmounts == 0..1

MCSmallCache == 1
MCLargeCache == 2

(* enough to fund a trade, settle it and fund it again for a replay *)
MCMaxDeposit == 2
====
