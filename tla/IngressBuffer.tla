---------------------------- MODULE IngressBuffer ----------------------------
(***************************************************************************)
(* The pending buffer of openmatch-ingress (pending_buffer.rs) and the     *)
(* BatchSealer that turns its drained orders into a SealedBatch            *)
(* (batch_sealer.rs).  Unlike the core buffer it assigns no sequence: the  *)
(* caller sets Order::sequence.                                            *)
(***************************************************************************)
EXTENDS Integers, Sequences, SequencesExt, TLC

CONSTANT MaxOrders        \* max_orders (MAX_ORDERS_PER_BATCH, scaled down)

VARIABLES
  buffer,                 \* orders
  sealed                  \* sealed

bufferVars == <<buffer, sealed>>

IngressBufferInit ==
  /\ buffer = <<>>
  /\ sealed = FALSE

(* PendingBuffer::push *)
PushResult ==
  CASE sealed                      -> "BufferAlreadySealed"
    [] Len(buffer) >= MaxOrders    -> "BufferFull"
    [] OTHER                       -> "Ok"

Push(o) ==
  /\ buffer' = Append(buffer, o)
  /\ UNCHANGED sealed

(* PendingBuffer::seal and PendingBuffer::drain, as the epoch runs them:   *)
(* seal fails on a sealed buffer; drain takes the orders of a sealed one    *)
SealResult == IF sealed THEN "BufferAlreadySealed" ELSE "Ok"

SealAndDrain ==
  /\ sealed' = TRUE
  /\ buffer' = <<>>

(* PendingBuffer::reset *)
Reset ==
  /\ buffer' = <<>>
  /\ sealed' = FALSE

(* BatchSealer::seal: sort by (sequence, id).  The batch hash is SHA-256   *)
(* over the sorted orders (module CrossNode models what it covers);        *)
(* verify_batch_hash recomputes it over the same bytes.                    *)
SealedBefore(a, b) == a.seq < b.seq \/ (a.seq = b.seq /\ a.id < b.id)

(* Vec::sort_by is a stable sort: each order is inserted after every      *)
(* order already placed that it does not sort before                      *)
SealBatch(orders) ==
  FoldLeft(LAMBDA acc, o :
             InsertAt(acc, Len(SelectSeq(acc, LAMBDA e : ~SealedBefore(o, e))) + 1, o),
           <<>>, orders)
=============================================================================
