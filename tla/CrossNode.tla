----------------------------- MODULE CrossNode -----------------------------
(***************************************************************************)
(* Several ingress nodes sealing one epoch and matching what they sealed:  *)
(* the PendingBuffer and BatchSealer of openmatch-ingress (pending_buffer  *)
(* .rs, batch_sealer.rs) and match_sealed_batch with its trade root        *)
(* (openmatch-matchcore matcher.rs, determinism.rs).  Nodes exchange the   *)
(* BatchDigest of their SealedBatch "to verify they sealed the same batch" *)
(* (types epoch.rs); the exchange itself is outside the repository, so    *)
(* the model keeps every node's digest and the properties compare them.   *)
(*                                                                         *)
(* Each node's caller pushes orders of OrderSet into its buffer in any     *)
(* order, the same order twice or not at all: nodes receive their orders  *)
(* independently, which is why digests are compared.                     *)
(*                                                                         *)
(* Hashes are modelled by their inputs (module HashInput).                 *)
(***************************************************************************)
EXTENDS Matchcore, HashInput, FiniteSets

CONSTANTS
  Nodes,        \* node identities (NodeId)
  OrderSet,     \* orders a node's caller may push (records of Orders, plus sr)
  EpochIdVal,   \* the epoch being sealed
  MaxOrders     \* PendingBuffer max_orders

VARIABLES
  buf,          \* buf[n]      : node n's PendingBuffer orders
  isSealed,     \* isSealed[n] : its sealed flag
  batch,        \* batch[n]    : the orders of its SealedBatch (<<>> before)
  digest,       \* digest[n]   : its BatchDigest, or NoDigest
  bundle,       \* bundle[n]   : its TradeBundle without hashes, or NoBundle
  root          \* root[n]     : its trade_root input, or <<>>

vars == <<buf, isSealed, batch, digest, bundle, root>>

IB(n) == INSTANCE IngressBuffer WITH buffer <- buf[n], sealed <- isSealed[n]

NoDigest == [epoch |-> 0, hash |-> <<>>, count |-> 0, signer |-> "none"]
NoBundle == [panic |-> FALSE, found |-> FALSE, cp2 |-> 0, trades |-> <<>>,
             remaining |-> <<>>]

Init ==
  /\ buf      = [n \in Nodes |-> <<>>]
  /\ isSealed = [n \in Nodes |-> FALSE]
  /\ batch    = [n \in Nodes |-> <<>>]
  /\ digest   = [n \in Nodes |-> NoDigest]
  /\ bundle   = [n \in Nodes |-> NoBundle]
  /\ root     = [n \in Nodes |-> <<>>]

-----------------------------------------------------------------------------
(* cp * fill_qty keeps cp's scale: one decimal place when cp is a half     *)
QuoteStr(cp2, quote2) ==
  IF cp2 % 2 = 0 THEN DecimalStr(quote2 \div 2)
  ELSE DecimalStr(quote2 \div 2) \o Chars(<<Dot, Digit((quote2 % 2) * 5)>>)

SideByte(o) == IF o.side = "Buy" THEN 0 ELSE 1
TypeByte(o) == CASE o.otype = "Limit" -> 0 [] o.otype = "Market" -> 1 [] OTHER -> 2

(* what compute_batch_hash feeds one order: id, user_id, sr_id, side and  *)
(* type bytes, the price string when there is a price, the quantity       *)
(* string and the sequence                                                 *)
OrderHashInput(o) ==
  <<F(16, o.id), F(16, o.user), F(16, o.sr), F(1, SideByte(o)), F(1, TypeByte(o))>>
  \o (IF o.otype = "Limit" THEN DecimalStr(o.price) ELSE <<>>)
  \o DecimalStr(o.qty) \o <<F(8, o.seq)>>

(* BatchSealer::compute_batch_hash                                         *)
BatchHashInput(epoch, orders) ==
  <<F(19, "openmatch:batch:v2:"), F(8, epoch), F(8, Len(orders))>>
  \o FoldLeft(LAMBDA acc, o : acc \o OrderHashInput(o), <<>>, orders)

(* BatchSealer::verify_batch_hash                                          *)
VerifyBatchHash(epoch, orders, hash) == BatchHashInput(epoch, orders) = hash

(* BatchSealer::digest: epoch, batch hash, order count, signer; the       *)
(* signature is a placeholder of zeros, the same on every node            *)
Digest(n, epoch, orders) ==
  [epoch |-> epoch, hash |-> BatchHashInput(epoch, orders),
   count |-> Len(orders), signer |-> n]

(* determinism::compute_trade_root                                         *)
TradeRootInput(epoch, trades) ==
  <<F(24, "openmatch:trade_root:v2:"), F(8, Len(trades))>>
  \o FoldLeft(LAMBDA acc, t :
                acc \o <<F(16, t.id), F(8, epoch), F(16, t.takerOrder),
                         F(16, t.makerOrder), F(16, t.taker), F(16, t.maker)>>
                    \o HalfStr(t.price2) \o DecimalStr(t.qty)
                    \o QuoteStr(t.price2, t.quote2),
              <<>>, trades)

-----------------------------------------------------------------------------
(* PendingBuffer::push; an order that fails is not kept                    *)
Push(n, o) ==
  /\ IF IB(n)!PushResult = "Ok"
     THEN buf' = [buf EXCEPT ![n] = Append(@, o)]
     ELSE UNCHANGED buf
  /\ UNCHANGED <<isSealed, batch, digest, bundle, root>>

(* SEAL: PendingBuffer::seal and drain, BatchSealer::seal (canonical sort  *)
(* and batch hash) and BatchSealer::digest                                 *)
Seal(n) ==
  /\ IB(n)!SealResult = "Ok"
  /\ isSealed' = [isSealed EXCEPT ![n] = TRUE]
  /\ buf'      = [buf EXCEPT ![n] = <<>>]
  /\ batch'    = [batch EXCEPT ![n] = IB(n)!SealBatch(buf[n])]
  /\ digest'   = [digest EXCEPT ![n] = Digest(n, EpochIdVal, IB(n)!SealBatch(buf[n]))]
  /\ UNCHANGED <<bundle, root>>

(* MATCH: verify_batch_hash on the node's own SealedBatch, then            *)
(* match_sealed_batch, whose bundle carries compute_trade_root(trades)     *)
MatchNode(n) ==
  /\ isSealed[n]
  /\ root[n] = <<>>
  /\ VerifyBatchHash(EpochIdVal, batch[n], digest[n].hash)
  /\ bundle' = [bundle EXCEPT ![n] = MatchSealedBatch(batch[n])]
  /\ root'   = [root EXCEPT ![n] = TradeRootInput(EpochIdVal, MatchSealedBatch(batch[n]).trades)]
  /\ UNCHANGED <<buf, isSealed, batch, digest>>

Next ==
  \/ \E n \in Nodes, o \in OrderSet : Push(n, o)
  \/ \E n \in Nodes : Seal(n) \/ MatchNode(n)

Spec == Init /\ [][Next]_vars

-----------------------------------------------------------------------------
Matched(n) == root[n] # <<>>

(* Cross-node determinism (spec overview; matcher.rs "Determinism          *)
(* Guarantee"; the SealedBatch hash "committing to the ordered set of      *)
(* orders"): two nodes whose digests agree on epoch, batch hash and order  *)
(* count matched the same batch, so their trade roots agree.               *)
DigestsAgreeTradesAgree ==
  \A n, m \in Nodes :
    Matched(n) /\ Matched(m)
    /\ digest[n].epoch = digest[m].epoch /\ digest[n].hash = digest[m].hash
    /\ digest[n].count = digest[m].count
      => root[n] = root[m]
=============================================================================
