--------------------------- MODULE MCSecurityGuards ---------------------------
(* Rate limiter: one user (users have disjoint windows), a 2 ms window     *)
(* admitting 2 orders, 3 per epoch, 6 ms of clock: the window fills,       *)
(* slides past its first entries and fills again, and the epoch cap bites. *)
(* Nonce tracker: one node (nodes have disjoint sets), three nonces and  *)
(* quota 2, so the set fills up.                                         *)
(* Price sanity: one market; prices around a deviation factor of 2 with    *)
(* Decimal::MAX scaled to 8: 1 = 2/2 and 4 = 2*2 sit on the bounds, 5 * 2  *)
(* saturates, 0 and -1 are rejected inputs.                                *)
EXTENDS SecurityGuards, TLC

CONSTANTS u1, n1, m1

MCWindowMs      == 2
MCMaxPerWindow  == 2
MCMaxPerEpoch   == 3
MCMaxTime       == 6
MCNonces        == 1..3
MCMaxPerNode    == 2
MCPrices        == {-1, 0, 1, 2, 4, 5, 8}
MCDecMax        == 8
MCDeviation     == 2
MCZeroDeviation == 0
====
