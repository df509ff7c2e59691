---------------------------- MODULE PendingBuffer ----------------------------
(***************************************************************************)
(* The per-epoch pending buffer of openmatch-core (pending_buffer.rs):     *)
(* push assigns the monotonic sequence number, seal sorts the orders into  *)
(* the canonical order and commits the batch hash, take_orders hands the   *)
(* sealed orders to the matcher.                                           *)
(*                                                                         *)
(* The batch hash is modelled by what it commits to: the batch id, the     *)
(* number of orders and, per order in sealed order, (id, sequence,         *)
(* effective price, remaining quantity, side byte), i.e. SHA-256 taken as  *)
(* collision-free over exactly the bytes seal() feeds it.                  *)
(***************************************************************************)
EXTENDS Orders, HashInput, Sequences, SequencesExt, TLC

CONSTANTS
  BatchIdVal,          \* the buffer's batch_id
  MaxOrdersPerBatch    \* constants::MAX_ORDERS_PER_BATCH (scaled down)

VARIABLES
  orders,              \* Vec<Order>
  sequenceCounter,     \* sequence_counter
  sealed,              \* sealed
  batchHash            \* batch_hash; <<>> stands for None

bufferVars == <<orders, sequenceCounter, sealed, batchHash>>

BufferInit ==
  /\ orders = <<>>
  /\ sequenceCounter = 0
  /\ sealed = FALSE
  /\ batchHash = <<>>

(* push: the error it returns, or "Ok"                                     *)
PushResult ==
  CASE sealed                              -> "BufferAlreadySealed"
    [] Len(orders) >= MaxOrdersPerBatch    -> "BufferFull"
    [] OTHER                               -> "Ok"

(* mutant: the sequence counter is not advanced                           *)
PushNoCounterBump(o) ==
  /\ orders' = Append(orders, [o EXCEPT !.seq = sequenceCounter])
  /\ UNCHANGED <<sequenceCounter, sealed, batchHash>>

(* push on success: sequence = counter++, batch id set, appended            *)
Push(o) ==
  /\ orders' = Append(orders, [o EXCEPT !.seq = sequenceCounter])
  /\ sequenceCounter' = sequenceCounter + 1
  /\ UNCHANGED <<sealed, batchHash>>

(* seal's sort_by comparator: side (Buy < Sell), then price priority, then *)
(* sequence.                                                               *)
SealBefore(a, b) ==
  \/ a.side = "Buy" /\ b.side = "Sell"
  \/ /\ a.side = b.side
     /\ \/ a.side = "Buy"  /\ EffectivePrice(a) > EffectivePrice(b)
        \/ a.side = "Sell" /\ EffectivePrice(a) < EffectivePrice(b)
        \/ EffectivePrice(a) = EffectivePrice(b) /\ a.seq < b.seq

SideByte(o) == IF o.side = "Buy" THEN 0 ELSE 1

(* the bytes seal() hashes (module HashInput): prefix, batch id, count,   *)
(* then per order its id, sequence, effective price and remaining         *)
(* quantity as decimal strings, and the side byte                         *)
BatchHashOf(os) ==
  <<F(19, "openmatch:batch:v1:"), F(8, BatchIdVal), F(8, Len(os))>>
  \o FoldLeft(LAMBDA acc, o :
                acc \o <<F(16, o.id), F(8, o.seq)>> \o DecimalStr(EffectivePrice(o))
                    \o DecimalStr(o.rem) \o <<F(1, SideByte(o))>>,
              <<>>, os)

SealResult == IF sealed THEN "BufferAlreadySealed" ELSE "Ok"

Seal ==
  LET sorted == SortSeq(orders, SealBefore)
  IN /\ orders' = sorted
     /\ batchHash' = BatchHashOf(sorted)
     /\ sealed' = TRUE
     /\ UNCHANGED sequenceCounter

(* take_orders: rejects an unsealed buffer                                   *)
TakeOrdersResult == IF sealed THEN "Ok" ELSE "MatchingFailed"
=============================================================================
