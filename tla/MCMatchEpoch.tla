---------------------------- MODULE MCMatchEpoch ----------------------------
(* Model-checking instance of MatchEpoch: two users, limit prices 1 and 2, *)
(* market and cancel orders, quantities 1 and 2, and Decimal::MAX scaled   *)
(* to 3 so that a 2 x 2 fill saturates the quote amount.                   *)
EXTENDS MatchEpoch

CONSTANTS u1, u2

MCUsers == {u1, u2}

(* price 0 stands for Option::None on market and cancel orders *)
MCTemplates ==
  {[id |-> 0, user |-> u, side |-> sd, otype |-> ty, price |-> p, qty |-> q,
    rem |-> q, seq |-> 0] :
     u \in MCUsers, sd \in OrderSides, q \in 1..2,
     <<ty, p>> \in {<<"Limit", 1>>, <<"Limit", 2>>, <<"Market", 0>>, <<"Cancel", 0>>}}

MCDecMax == 3
MCMaxOrders == 3
=============================================================================
